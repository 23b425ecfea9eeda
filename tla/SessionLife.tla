---------------------------- MODULE SessionLife ----------------------------
(***************************************************************************)
(* The life of one session on the host (host-server.ts): adopted from its  *)
(* directory, judged by the spawn policy, started, served, marked detached *)
(* or swept when its client falls silent, closed, removed; over crashes    *)
(* and stops of the host.  What makes it hard is that the policy, the      *)
(* kind's handler and the process answer through callbacks that find the   *)
(* session, or the host, in whatever state it is by then.                  *)
(*                                                                         *)
(* Takeovers (Takeover), chunks (Uplink) and the output stream (Downlink)  *)
(* have modules of their own: here there is one client, its chunks arrive  *)
(* in order, and output is a write to the session's directory.             *)
(***************************************************************************)
EXTENDS Integers, Sequences

CONSTANTS
  Kinds,        \* what may be spawned: "pty" and "pipe" shells, "kind", "echo"
  MaxSends,     \* bound: chunks the client commits
  MaxRestarts   \* bound: crashes and stops of the host

ASSUME KindsAssumption == Kinds \subseteq {"pty", "pipe", "kind", "echo"} /\ Kinds # {}
ASSUME BoundsAssumption == MaxSends \in Nat /\ MaxRestarts \in Nat

\* The host's three windows, in the order of its defaults: staleGraceMs,
\* detachAfterMs and idleGcMs.
StaleGrace == 1
DetachAfter == 2
IdleGc == 3

VARIABLES
  kind,        \* the kind spawn.json asks for
  \* the session's directory
  dir,         \* it exists
  status,      \* status.json
  inbox,       \* committed chunks
  \* the client
  page,        \* "open", or "gone" (closed, crashed)
  \* the host's Session, and its entry in the table
  up,          \* the host runs
  phase,       \* "unknown" (no entry), "adopted", "started", "approved"
  policy,      \* a verdict is awaited
  exited, done,
  detached,    \* Session.detached
  hasStatus,   \* statusBase is set: this host wrote a status record
  aware,       \* the client has sent a heartbeat
  answered,    \* spawnAnswered
  silence,     \* how many of the windows the client has been silent for
  handler,     \* kindSession: "none", "starting", "live", "gone"
  child,       \* the process: "none", "spawning", "alive", "dying", "dead"
  proc,        \* Session.proc is set
  closing,     \* the cleanup timer of a closed session is set
  \* history, read by properties and bounds only
  wroteGone,   \* something was written below a directory that is not there
  early,       \* DATA was dropped before the spawn was answered
  sends, restarts

diskVars    == <<dir, status, inbox>>
memVars     == <<phase, policy, exited, done, detached, hasStatus, aware,
                 answered, silence, handler, child, proc, closing>>
historyVars == <<wroteGone, early, sends, restarts>>
vars        == <<kind, diskVars, page, up, memVars, historyVars>>

Record(s, d) == [state |-> s, detached |-> d]

Fresh ==
  /\ phase = "unknown" /\ policy = FALSE
  /\ exited = FALSE /\ done = FALSE /\ detached = FALSE
  /\ hasStatus = FALSE /\ aware = FALSE /\ answered = FALSE
  /\ silence = 0
  /\ handler = "none" /\ child = "none" /\ proc = FALSE /\ closing = FALSE

Init ==
  /\ kind \in Kinds
  /\ dir = TRUE /\ status = Record("none", FALSE) /\ inbox = <<>>
  /\ page = "open" /\ up = TRUE
  /\ Fresh
  /\ wroteGone = FALSE /\ early = FALSE /\ sends = 0 /\ restarts = 0

-----------------------------------------------------------------------------
(* Steps the actions below are made of *)

IsShell == kind \in {"pty", "pipe"}

\* A write of any file of the session; without its directory it throws.
Writes == wroteGone' = (wroteGone \/ ~dir)

\* setStatus: the record is written anew, and remembered.
SetStatus(s, d) ==
  /\ status' = Record(s, d)
  /\ hasStatus' = TRUE
  /\ Writes

\* Session.close: onClose, SIGTERM, and nothing may be done for it any more.
\* A handler that is still setting up gets its teardown when it is done.
CloseSession ==
  /\ done' = TRUE
  /\ handler' = IF handler = "live" THEN "gone" ELSE handler
  /\ child' = IF proc /\ child \in {"spawning", "alive"} THEN "dying" ELSE child
  /\ proc' = FALSE

\* removeSessionDir: the entry goes with the directory, or stays with it.
RemoveDir(ok) ==
  /\ dir' = (dir /\ ~ok)
  /\ phase' = IF ok THEN "unknown" ELSE phase

-----------------------------------------------------------------------------
(* The client, from the outside *)

Send(what) ==
  /\ page = "open" /\ dir /\ sends < MaxSends
  /\ inbox' = Append(inbox, what)
  /\ page' = IF what = "close" THEN "gone" ELSE page
  /\ sends' = sends + 1
  /\ UNCHANGED <<kind, dir, status, up, memVars, wroteGone, early, restarts>>

Vanish ==
  /\ page = "open"
  /\ page' = "gone"
  /\ UNCHANGED <<kind, diskVars, up, memVars, historyVars>>

\* Time passes without a chunk; a throttled page is as silent as a dead one.
SilencePasses ==
  /\ up /\ phase # "unknown" /\ silence < IdleGc
  /\ silence' = silence + 1
  /\ UNCHANGED <<kind, diskVars, page, up, phase, policy, exited, done, detached, hasStatus,
                 aware, answered, handler, child, proc, closing, historyVars>>

-----------------------------------------------------------------------------
(* From the directory to a running session *)

\* Mutant: an exited session is adopted like any other.
AdoptsAsDone_Never == FALSE
\* adoptSession: only an exited session is not started again.
AdoptsAsDone == status.state = "exited"

\* adoptSession; a record older than the grace period is removed at once.
Adopt ==
  /\ up /\ dir /\ phase = "unknown"
  /\ done' = AdoptsAsDone
  /\ \/ phase' = "adopted" /\ UNCHANGED dir
     \/ AdoptsAsDone /\ \E ok \in BOOLEAN :
          dir' = ~ok /\ phase' = IF ok THEN "unknown" ELSE "adopted"
  /\ UNCHANGED <<kind, status, inbox, page, up, policy, exited, detached, hasStatus, aware,
                 answered, silence, handler, child, proc, closing, historyVars>>

\* The spawn is refused: an unknown kind, no workspace, a cwd outside of it,
\* a denial, a failed start.
Refuse ==
  /\ SetStatus("error", FALSE)
  /\ answered' = TRUE
  /\ done' = TRUE

\* tryStart: what is invalid never reaches the policy.
TryStart ==
  /\ up /\ phase = "adopted" /\ ~done
  /\ phase' = "started"
  /\ \/ policy' = TRUE /\ UNCHANGED <<status, hasStatus, wroteGone, answered, done>>
     \/ Refuse /\ UNCHANGED policy
  /\ UNCHANGED <<kind, dir, inbox, page, up, exited, detached, aware, silence, handler,
                 child, proc, closing, early, sends, restarts>>

\* Mutant: the verdict is acted on whatever happened meanwhile.
StillWanted_Always == TRUE
\* decideAndStart after its await.
StillWanted == up /\ ~done

Deny ==
  /\ policy
  /\ policy' = FALSE
  /\ IF StillWanted THEN Refuse ELSE UNCHANGED <<status, hasStatus, wroteGone, answered, done>>
  /\ UNCHANGED <<kind, dir, inbox, page, up, phase, exited, detached, aware, silence,
                 handler, child, proc, closing, early, sends, restarts>>

\* startShell on a terminal: the process is there and the spawn answered.
PtyUp ==
  /\ child' = "alive" /\ proc' = TRUE
  /\ SetStatus("running", FALSE)
  /\ answered' = TRUE
  /\ UNCHANGED <<done, handler>>

\* startShell on pipes, where a terminal's failure ends up too: running, and
\* answered once the system says how it went.
PipeUp ==
  /\ child' = "spawning" /\ proc' = TRUE
  /\ SetStatus("running", FALSE)
  /\ UNCHANGED <<answered, done, handler>>

PipeThrows == Refuse /\ UNCHANGED <<child, proc, handler>>

\* decideAndStart: approved, and started.  The scan it ends with is the
\* Consume steps that follow.
Allow ==
  /\ policy
  /\ policy' = FALSE
  /\ IF ~StillWanted
     THEN UNCHANGED <<phase, status, hasStatus, wroteGone, answered, done, handler, child, proc>>
     ELSE /\ phase' = "approved"
          /\ \/ kind = "pty" /\ PtyUp
             \/ IsShell /\ (PipeUp \/ PipeThrows)
             \/ /\ ~IsShell
                /\ handler' = "starting"
                /\ UNCHANGED <<status, hasStatus, wroteGone, answered, done, child, proc>>
  /\ UNCHANGED <<kind, dir, inbox, page, up, exited, detached, aware, silence, closing,
                 early, sends, restarts>>

\* The 'spawn' event: it answers whoever asked, whatever became of the session.
PipeSpawned ==
  /\ child = "spawning" \/ (child = "dying" /\ ~answered)
  /\ child' = IF child = "spawning" THEN "alive" ELSE child
  /\ answered' = TRUE
  /\ Writes
  /\ UNCHANGED <<kind, diskVars, page, up, phase, policy, exited, done, detached, hasStatus,
                 aware, silence, handler, proc, closing, early, sends, restarts>>

\* The 'error' event instead of it: the session is not done, only without a
\* process.
PipeError ==
  /\ child = "spawning" \/ (child = "dying" /\ ~answered)
  /\ child' = "dead"
  /\ IF done THEN UNCHANGED <<status, hasStatus, wroteGone, answered, proc>>
     ELSE SetStatus("error", FALSE) /\ answered' = TRUE /\ proc' = FALSE
  /\ UNCHANGED <<kind, dir, inbox, page, up, phase, policy, exited, done, detached, aware,
                 silence, handler, closing, early, sends, restarts>>

\* Mutant: a handler that is done setting up goes live in a closed session.
KindUp_Unguarded ==
  /\ handler = "starting"
  /\ handler' = "live" /\ SetStatus("running", FALSE) /\ answered' = TRUE
  /\ UNCHANGED <<kind, dir, inbox, page, up, phase, policy, exited, done, detached, aware,
                 silence, child, proc, closing, early, sends, restarts>>

\* startKind: the handler has resolved; in a session closed meanwhile it
\* gets its teardown.
KindUp ==
  /\ handler = "starting"
  /\ IF done THEN handler' = "gone" /\ UNCHANGED <<status, hasStatus, wroteGone, answered>>
     ELSE handler' = "live" /\ SetStatus("running", FALSE) /\ answered' = TRUE
  /\ UNCHANGED <<kind, dir, inbox, page, up, phase, policy, exited, done, detached, aware,
                 silence, child, proc, closing, early, sends, restarts>>

\* Mutant: a handler that throws closes its session, and tells nobody.
KindFails_Silent ==
  /\ handler = "starting" /\ kind # "echo"
  /\ handler' = "gone" /\ done' = TRUE
  /\ UNCHANGED <<kind, diskVars, page, up, phase, policy, exited, detached, hasStatus, aware,
                 answered, silence, child, proc, closing, historyVars>>

KindFails ==
  /\ handler = "starting" /\ kind # "echo"
  /\ handler' = "gone"
  /\ IF done THEN UNCHANGED <<status, hasStatus, wroteGone, answered, done>> ELSE Refuse
  /\ UNCHANGED <<kind, dir, inbox, page, up, phase, policy, exited, detached, aware,
                 silence, child, proc, closing, early, sends, restarts>>

-----------------------------------------------------------------------------
(* A running session *)

\* Mutant: output and exit of a process are written whatever became of the
\* session.
Late_Ignored == TRUE
\* The late-callback guard.
Late == ~done

\* ctx.write and onData; the process may speak until its pipes are drained.
Output ==
  /\ child \in {"alive", "dying"} \/ handler = "live"
  /\ Late
  /\ Writes
  /\ UNCHANGED <<kind, diskVars, page, up, memVars, early, sends, restarts>>

\* onExit: not what a terminal kind reports through ctx.exit, but the same.
ChildExits ==
  /\ child \in {"alive", "dying"} /\ (child = "dying" => answered)
  /\ child' = "dead"
  /\ IF Late THEN exited' = TRUE /\ SetStatus("exited", FALSE) /\ proc' = FALSE
     ELSE UNCHANGED <<exited, status, hasStatus, wroteGone, proc>>
  /\ UNCHANGED <<kind, dir, inbox, page, up, phase, policy, done, detached, aware, answered,
                 silence, handler, closing, early, sends, restarts>>

\* ctx.exit: ignored while the handler sets up.  The session is not done:
\* its close notification still drains.
KindExits ==
  /\ handler = "live" /\ kind # "echo" /\ ~done
  /\ handler' = "gone" /\ exited' = TRUE
  /\ SetStatus("exited", FALSE)
  /\ UNCHANGED <<kind, dir, inbox, page, up, phase, policy, done, detached, aware, answered,
                 silence, child, proc, closing, early, sends, restarts>>

\* Mutant: a session is served before its verdict.
Served_Pending == up /\ phase \in {"started", "approved"} /\ ~done
\* scanOnce: no uplink service before the policy's verdict.
Served == up /\ phase = "approved" /\ ~done

\* Mutant: the flag is set although there is no record to mark.
Mark_Unguarded(d) ==
  /\ detached' = d
  /\ IF hasStatus /\ detached # d THEN status' = Record(status.state, d) /\ Writes
     ELSE UNCHANGED <<status, wroteGone>>
\* setDetached: a no-op before the first record, and when nothing changes.
Mark(d) ==
  IF detached = d \/ ~hasStatus THEN UNCHANGED <<detached, status, wroteGone>>
  ELSE detached' = d /\ status' = Record(status.state, d) /\ Writes

\* processIncoming, one chunk.  Any chunk means the client is there.
Receive == Served /\ inbox # <<>> /\ inbox' = Tail(inbox) /\ silence' = 0

\* DATA goes to the kind's onData or to the process, or nowhere.
ConsumeData ==
  /\ Receive /\ Head(inbox) = "data"
  /\ Mark(FALSE)
  /\ early' = (early \/ (kind # "echo" /\ handler # "live" /\ ~proc /\ ~answered))
  /\ UNCHANGED <<kind, dir, page, up, phase, policy, exited, done, hasStatus, aware, answered,
                 handler, child, proc, closing, sends, restarts>>

ConsumeBeat ==
  /\ Receive /\ Head(inbox) = "beat"
  /\ Mark(FALSE)
  /\ aware' = TRUE
  /\ UNCHANGED <<kind, dir, page, up, phase, policy, exited, done, hasStatus, answered,
                 handler, child, proc, closing, early, sends, restarts>>

\* The marker the chunk clears is set again at once.
ConsumeDetach ==
  /\ Receive /\ Head(inbox) = "detach"
  /\ Mark(TRUE)
  /\ UNCHANGED <<kind, dir, page, up, phase, policy, exited, done, hasStatus, aware, answered,
                 handler, child, proc, closing, early, sends, restarts>>

\* The client's close: recorded, closed, and removed after a delay.
ConsumeClose ==
  /\ Receive /\ Head(inbox) = "close"
  /\ SetStatus("exited", FALSE)
  /\ detached' = (detached /\ ~hasStatus)
  /\ CloseSession
  /\ closing' = TRUE
  /\ UNCHANGED <<kind, dir, page, up, phase, policy, exited, aware, answered, early, sends, restarts>>

Consume == ConsumeData \/ ConsumeBeat \/ ConsumeDetach \/ ConsumeClose

-----------------------------------------------------------------------------
(* The end *)

\* Timers fire later than a 'spawn' or 'error' event.
Timer == up /\ (child = "dying" => answered) /\ child # "spawning"

\* Mutant: only a session that ended under this host is swept.
Terminal_Exited == exited
\* idleSweep's first rule.
Terminal == exited \/ done

CleanupTimer(ok) ==
  /\ Timer /\ closing
  /\ closing' = FALSE
  /\ RemoveDir(ok)
  /\ UNCHANGED <<kind, status, inbox, page, up, policy, exited, done, detached, hasStatus, aware,
                 answered, silence, handler, child, proc, historyVars>>

CloseAndRemove(ok) ==
  /\ CloseSession
  /\ RemoveDir(ok)
  /\ UNCHANGED <<kind, status, inbox, page, up, policy, exited, detached, hasStatus, aware,
                 answered, silence, closing, historyVars>>

\* Scrollback of an ended session goes once its client is silent.
SweepTerminal(ok) ==
  /\ Timer /\ phase # "unknown"
  /\ Terminal /\ silence >= StaleGrace
  /\ CloseAndRemove(ok)

\* An idle echo session is reaped, and so is one whose client vanished.
ReapEcho(ok) ==
  /\ Timer /\ phase \in {"started", "approved"} /\ ~done /\ kind = "echo"
  /\ \/ silence >= IdleGc
     \/ phase = "approved" /\ ~exited /\ aware /\ silence >= DetachAfter
  /\ CloseAndRemove(ok)

\* A session with state is marked, never killed.
MarkVanished ==
  /\ Timer /\ phase = "approved" /\ ~done /\ ~exited /\ kind # "echo"
  /\ aware /\ silence >= DetachAfter /\ ~detached
  /\ Mark(TRUE)
  /\ UNCHANGED <<kind, dir, inbox, page, up, phase, policy, exited, done, hasStatus, aware,
                 answered, silence, handler, child, proc, closing, early, sends, restarts>>

\* HostServer.close: every session is closed, timers are dropped; callbacks
\* may still come.
HostStop ==
  /\ Timer /\ restarts < MaxRestarts
  /\ up' = FALSE /\ restarts' = restarts + 1
  /\ closing' = FALSE
  /\ IF phase = "unknown" THEN UNCHANGED <<done, handler, child, proc>> ELSE CloseSession
  /\ UNCHANGED <<kind, diskVars, page, phase, policy, exited, detached, hasStatus, aware,
                 answered, silence, wroteGone, early, sends>>

\* A new process knows nothing.
Forget ==
  /\ phase' = "unknown" /\ policy' = FALSE
  /\ exited' = FALSE /\ done' = FALSE /\ detached' = FALSE
  /\ hasStatus' = FALSE /\ aware' = FALSE /\ answered' = FALSE
  /\ silence' = 0
  /\ handler' = "none" /\ child' = "none" /\ proc' = FALSE /\ closing' = FALSE

Crash ==
  /\ up /\ restarts < MaxRestarts
  /\ up' = FALSE /\ restarts' = restarts + 1
  /\ Forget
  /\ UNCHANGED <<kind, diskVars, page, wroteGone, early, sends>>

HostStart ==
  /\ ~up
  /\ up' = TRUE
  /\ Forget
  /\ UNCHANGED <<kind, diskVars, page, historyVars>>

-----------------------------------------------------------------------------
Sends == \E what \in {"data", "beat", "detach", "close"} : Send(what)
Resolves == KindUp \/ KindFails
Spawns == PipeSpawned \/ PipeError
Decides == Allow \/ Deny

Next ==
  \/ Sends \/ Vanish \/ SilencePasses
  \/ Adopt \/ TryStart \/ Decides \/ Spawns \/ Resolves
  \/ Output \/ ChildExits \/ KindExits \/ Consume
  \/ \E ok \in BOOLEAN : CleanupTimer(ok) \/ SweepTerminal(ok) \/ ReapEcho(ok)
  \/ MarkVanished
  \/ HostStop \/ Crash \/ HostStart

Spec == Init /\ [][Next]_vars

\* Scans and sweeps repeat on a timer; policies and handlers settle, a page
\* that is gone stays silent, a removal that failed is tried again and works
\* in the end, and a stopped host is started again.
FairSpec ==
  /\ Spec
  /\ WF_vars(Adopt) /\ WF_vars(TryStart) /\ WF_vars(Decides)
  /\ WF_vars(Spawns) /\ WF_vars(Resolves) /\ WF_vars(Consume)
  /\ WF_vars(page = "gone" /\ SilencePasses)
  /\ WF_vars(SweepTerminal(TRUE)) /\ WF_vars(ReapEcho(TRUE)) /\ WF_vars(MarkVanished)
  /\ WF_vars(HostStart)

-----------------------------------------------------------------------------
(* Properties *)

TypeOK ==
  /\ kind \in {"pty", "pipe", "kind", "echo"}
  /\ dir \in BOOLEAN
  /\ status \in [state : {"none", "running", "exited", "error"}, detached : BOOLEAN]
  /\ inbox \in Seq({"data", "beat", "detach", "close"})
  /\ page \in {"open", "gone"} /\ up \in BOOLEAN
  /\ phase \in {"unknown", "adopted", "started", "approved"}
  /\ policy \in BOOLEAN /\ exited \in BOOLEAN /\ done \in BOOLEAN /\ detached \in BOOLEAN
  /\ hasStatus \in BOOLEAN /\ aware \in BOOLEAN /\ answered \in BOOLEAN
  /\ proc \in BOOLEAN /\ closing \in BOOLEAN
  /\ silence \in 0..IdleGc
  /\ handler \in {"none", "starting", "live", "gone"}
  /\ child \in {"none", "spawning", "alive", "dying", "dead"}
  /\ detached => hasStatus
  /\ proc => child \in {"spawning", "alive"}
  /\ wroteGone \in BOOLEAN /\ early \in BOOLEAN
  /\ sends \in 0..MaxSends /\ restarts \in 0..MaxRestarts

\* No callback, however late, writes below a directory that was removed: the
\* write would throw in a callback nobody catches.
NeverWritesRemoved == ~wroteGone

\* A closed session, and a stopped host, leave nothing running behind: a
\* process has had its signal, a kind its onClose.
NothingOutlives ==
  (done \/ ~up) => child \notin {"spawning", "alive"} /\ handler # "live"

\* An exit is the last word of status.json, whoever calls back afterwards
\* and however often the host is restarted.
ExitedIsFinal == [][status.state = "exited" => status'.state = "exited"]_status

\* While a session runs, the marker other pages read in status.json is the
\* host's own view of the client's presence (D17).
MarkerIsTrue ==
  Served /\ ~exited /\ status.state = "running" /\ hasStatus
    => status.detached = detached

\* Input committed before the verdict waits for it: a shell gets all of it.
ShellInputQueues == IsShell => ~early

\* A client that sent heartbeats and vanished is noticed: its session is
\* marked detached, or reaped, unless it ends or the host forgets it.
VanishedIsMarked ==
  (aware /\ page = "gone" /\ status.state = "running")
    ~> (status.detached \/ ~dir \/ ~aware \/ status.state # "running")

\* Scrollback of an exited session does not outlive its client for long,
\* although timers are lost with the host and removals fail.
ExitedIsSwept == (page = "gone" /\ status.state = "exited") ~> ~dir

\* A spawn is answered, with a result or an error, unless the client or
\* the host ends first:
\* the client does not stare at an empty terminal for ever.
SpawnIsAnswered ==
  (up /\ phase = "started") ~> (answered \/ ~up \/ ~dir \/ status.state = "exited")

=============================================================================
