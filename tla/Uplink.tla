------------------------------- MODULE Uplink -------------------------------
(***************************************************************************)
(* The client-to-host half of a session: FsioSession's pump commits        *)
(* batches of frames as numbered chunks in the session's in/ directory,    *)
(* HostServer.processIncoming consumes them in order and deletes each as   *)
(* its acknowledgement (packages/client/src/index.ts,                      *)
(* packages/host/src/host-server.ts).                                      *)
(*                                                                         *)
(* The two programs share only the directory, so every file operation is a *)
(* step of its own: the browser may create, abort or re-land a chunk       *)
(* between any two operations of a host scan.  A frame is its position in  *)
(* the order of send(); chunk s holds frames cuts[s-1]+1 .. cuts[s].       *)
(***************************************************************************)
EXTENDS Integers, Sequences, FiniteSets

CONSTANTS
  Mode,         \* SessionOptions.uplink: "auto", "dirname" or "file"
  MaxAttempts,  \* COMMIT_RETRY_MS.length + 1 tries for one chunk
  Outcomes,     \* what a browser commit may do, see CommitOutcomes
  MaxSends,     \* bound: frames enqueued
  MaxFaults,    \* bound: host restarts and failed deletions together
  FaultKinds    \* which of "restart", "unlink" may happen

CommitOutcomes == {"ok", "landed", "failed"}

ASSUME ModeAssumption == Mode \in {"auto", "dirname", "file"}
ASSUME AttemptsAssumption == MaxAttempts \in Nat \ {0}
ASSUME OutcomesAssumption == Outcomes \subseteq CommitOutcomes /\ "ok" \in Outcomes
ASSUME BoundsAssumption == MaxSends \in Nat /\ MaxFaults \in Nat
ASSUME FaultsAssumption == FaultKinds \subseteq {"restart", "unlink"}

Lanes == {"dir", "file"}

VARIABLES
  \* the client page
  sent,       \* frames accepted by send()
  cuts,       \* cuts[s] is the last frame of chunk s
  outSeq,     \* next chunk number to commit
  commit,     \* the commit in flight: phase, lane and attempt
  pumpError,  \* the first send failure, which poisons the session
  closing,    \* close() or detach() was called
  closed,     \* #teardown ran to its end
  uplinkReady, \* how far the lane is: init, the attach asked for, granted, or settled
  midAttach,  \* history: the client closed while #hold was set
  \* the shared directory
  dirs,       \* sequence numbers that have a dirname chunk
  files,      \* sequence number -> "none", "empty" (created, no content) or "full"
  \* the host
  nextInSeq,  \* 0 stands for null: the base is not discovered yet
  scan,       \* the listing a scan works from and how far it got
  delivered,  \* frames handed to handleFrame, in order
  \* history, read by properties only
  acked,      \* chunks whose deletion the host completed
  faults

attachVars == <<uplinkReady, midAttach>>
clientVars == <<sent, cuts, outSeq, commit, pumpError, closing, closed, attachVars>>
dirVars    == <<dirs, files>>
hostVars   == <<nextInSeq, scan, delivered>>
history    == <<acked, faults>>
vars       == <<clientVars, dirVars, hostVars, history>>

Seqs == 1..(MaxSends + 1)      \* no more chunks than frames; close() sends one

NoCommit == [phase |-> "idle", lane |-> "file", attempt |-> 0]
NoScan   == [phase |-> "idle", names |-> [s \in {} |-> "file"]]

Present == dirs \cup {s \in Seqs : files[s] # "none"}
PresentOn(s, lane) == IF lane = "dir" THEN s \in dirs ELSE files[s] # "none"

\* The last frame of the chunks before s, and the frames of chunk s.
Before(s) == IF s = 1 THEN 0 ELSE cuts[s - 1]
FramesOf(s) == [i \in 1..(cuts[s] - Before(s)) |-> Before(s) + i]
Taken == IF cuts = <<>> THEN 0 ELSE cuts[Len(cuts)]

Init ==
  /\ sent = 0 /\ cuts = <<>> /\ outSeq = 1 /\ commit = NoCommit
  /\ pumpError = FALSE /\ closing = FALSE /\ closed = FALSE
  /\ uplinkReady = "init" /\ midAttach = FALSE
  /\ dirs = {} /\ files = [s \in Seqs |-> "none"]
  /\ nextInSeq = 0 /\ scan = NoScan /\ delivered = <<>>
  /\ acked = {} /\ faults = 0

-----------------------------------------------------------------------------
(* The client *)

\* send(): refused once the pump is poisoned, otherwise queued; a frame sent
\* after #teardown has run is queued for nobody and changes nothing here.
Send ==
  /\ ~pumpError /\ ~closed
  /\ sent < MaxSends
  /\ sent' = sent + 1
  /\ UNCHANGED <<cuts, outSeq, commit, pumpError, closing, closed, attachVars, dirVars, hostVars, history>>

\* #hold is set from the attach request until #completeAttach has replayed.
Holding == uplinkReady \in {"asked", "granted", "refused"}

\* A spawning client may commit once #init has written spawn.json; an
\* attaching one asks (#initAttach), is granted an epoch and, when
\* #completeAttach is through, has its lane; no grant is read after #teardown.
ReadyStep(from, to) ==
  /\ uplinkReady = from
  /\ uplinkReady' = to
  /\ UNCHANGED <<sent, cuts, outSeq, commit, pumpError, closing, closed, midAttach,
                 dirVars, hostVars, history>>
Spawned == ReadyStep("init", "open")
AskAttach == ReadyStep("init", "asked")
GrantRead == ~closed /\ ReadyStep("asked", "granted")
AttachDone == ReadyStep("granted", "open")
\* Any of these may fail instead; after #teardown failAll rejects the grant.
ReadyFails ==
  \/ ReadyStep("init", "failed")
  \/ ReadyStep("asked", "refused")
  \/ ReadyStep("granted", "refused")

\* #pump's first await throws: the queue is dropped and send() refuses.
PumpFails ==
  /\ uplinkReady \in {"failed", "refused"}
  /\ ~pumpError /\ Taken < sent
  /\ pumpError' = TRUE
  /\ UNCHANGED <<sent, cuts, outSeq, commit, closing, closed, attachVars,
                 dirVars, hostVars, history>>

\* The lanes a batch may start on: a forced mode names it, "auto" depends on
\* the batch's size and on the lane's health.
FirstLanes ==
  CASE Mode = "auto"    -> Lanes
    [] Mode = "dirname" -> {"dir"}
    [] Mode = "file"    -> {"file"}

\* One turn of #pump's loop: the whole queue becomes the next chunk.
TakeBatch ==
  /\ uplinkReady = "open"
  /\ commit.phase = "idle"
  /\ ~closed /\ ~pumpError
  /\ Taken < sent
  /\ cuts' = Append(cuts, sent)
  /\ \E lane \in FirstLanes : commit' = [phase |-> "try", lane |-> lane, attempt |-> 0]
  /\ UNCHANGED <<sent, outSeq, pumpError, closing, closed, attachVars, dirVars, hostVars, history>>

\* #commitChunk's return: only now does the sequence number advance.
CommitDone ==
  /\ outSeq' = outSeq + 1
  /\ commit' = NoCommit
  /\ UNCHANGED pumpError

\* Mutant: the retry goes under the next number.
CommitFailed_Renumbers ==
  /\ UNCHANGED pumpError
  /\ IF commit.lane = "dir" /\ Mode = "auto"
     THEN /\ commit' = [phase |-> "try", lane |-> "file", attempt |-> commit.attempt + 1]
          /\ outSeq' = outSeq + 1
     ELSE /\ commit' = [commit EXCEPT !.phase = "try", !.attempt = @ + 1]
          /\ UNCHANGED outSeq
\* #commitChunk's catch: an auto dirname failure re-lands the same number as
\* a file at once; otherwise back off and retry it until the budget is spent.
CommitFailed ==
  /\ UNCHANGED outSeq
  /\ IF commit.lane = "dir" /\ Mode = "auto"
     THEN /\ commit' = [phase |-> "try", lane |-> "file", attempt |-> commit.attempt + 1]
          /\ UNCHANGED pumpError
     ELSE IF commit.attempt + 1 < MaxAttempts /\ ~closed
     THEN /\ commit' = [commit EXCEPT !.phase = "try", !.attempt = @ + 1]
          /\ UNCHANGED pumpError
     ELSE /\ commit' = NoCommit
          /\ pumpError' = TRUE

\* getDirectoryHandle(name, {create: true}): create-or-open, one operation.
DirCommit ==
  /\ commit.phase = "try" /\ commit.lane = "dir"
  /\ \E o \in Outcomes :
       /\ dirs' = IF o = "failed" THEN dirs ELSE dirs \cup {outSeq}
       /\ IF o = "ok" THEN CommitDone ELSE CommitFailed
  /\ UNCHANGED <<sent, cuts, closing, closed, attachVars, files, hostVars, history>>

\* getFileHandle(name, {create: true}): an empty file appears if none is there.
FileOpen ==
  /\ commit.phase = "try" /\ commit.lane = "file"
  /\ files' = [files EXCEPT ![outSeq] = IF @ = "none" THEN "empty" ELSE @]
  /\ commit' = [commit EXCEPT !.phase = "open"]
  /\ UNCHANGED <<sent, cuts, outSeq, pumpError, closing, closed, attachVars, dirs, hostVars, history>>

\* write() and close(): the swap file replaces the name, even if the host has
\* deleted it meanwhile; an abort leaves whatever was there.
FileClose ==
  /\ commit.phase = "open"
  /\ \E o \in Outcomes :
       /\ files' = IF o = "failed" THEN files ELSE [files EXCEPT ![outSeq] = "full"]
       /\ IF o = "ok" THEN CommitDone ELSE CommitFailed
  /\ UNCHANGED <<sent, cuts, closing, closed, attachVars, dirs, hostVars, history>>

\* close() and detach(): one last notification, refused like any send, and
\* #teardown, which mid-attach waits for nothing: what is queued is left there.
Close ==
  /\ ~closing
  /\ closing' = TRUE
  /\ sent' = IF pumpError THEN sent ELSE sent + 1
  /\ closed' = Holding
  /\ midAttach' = Holding
  /\ UNCHANGED <<cuts, outSeq, commit, pumpError, uplinkReady, dirVars, hostVars, history>>

\* Mutant: #teardown without waiting for the queue.
Teardown_NoWait ==
  /\ closing /\ ~closed
  /\ commit.phase = "idle"
  /\ closed' = TRUE
  /\ UNCHANGED <<sent, cuts, outSeq, commit, pumpError, closing, attachVars, dirVars, hostVars, history>>
\* Otherwise it polls until the pump has stopped.
Teardown ==
  /\ closing /\ ~closed
  /\ commit.phase = "idle"
  /\ Taken = sent \/ pumpError
  /\ closed' = TRUE
  /\ UNCHANGED <<sent, cuts, outSeq, commit, pumpError, closing, attachVars, dirVars, hostVars, history>>

-----------------------------------------------------------------------------
(* The host *)

\* Mutant: the base is the newest chunk there is.
Base_Newest == CHOOSE s \in Present : \A t \in Present : t <= s
\* The smallest number present is the base of a lane not read before.
Base == CHOOSE s \in Present : \A t \in Present : s <= t

\* readdir: when both lanes hold a number, whichever the listing names last
\* is mapped.
ScanList ==
  /\ scan.phase = "idle"
  /\ Present # {}
  /\ nextInSeq' = IF nextInSeq = 0 THEN Base ELSE nextInSeq
  /\ nextInSeq' \in Present
  /\ \E names \in [Present -> Lanes] :
       /\ \A s \in Present : PresentOn(s, names[s])
       /\ scan' = [phase |-> "take", names |-> names]
  /\ UNCHANGED <<delivered, clientVars, dirVars, history>>

\* Mutant: a chunk without content counts as consumed.
ScanTorn_Skips ==
  /\ scan.phase = "take"
  /\ scan.names[nextInSeq] = "file"
  /\ files[nextInSeq] # "full"
  /\ scan' = NoScan
  /\ nextInSeq' = nextInSeq + 1
  /\ UNCHANGED <<delivered, clientVars, dirVars, history>>
\* A file chunk without content yet ends the scan, to be retried shortly.
ScanTorn ==
  /\ scan.phase = "take"
  /\ scan.names[nextInSeq] = "file"
  /\ files[nextInSeq] # "full"
  /\ scan' = NoScan
  /\ UNCHANGED <<nextInSeq, delivered, clientVars, dirVars, history>>

\* The chunk's frames go to handleFrame, one after the other.
ScanTake ==
  /\ scan.phase = "take"
  /\ scan.names[nextInSeq] = "dir" \/ files[nextInSeq] = "full"
  /\ delivered' = delivered \o FramesOf(nextInSeq)
  /\ scan' = [scan EXCEPT !.phase = "taken"]
  /\ UNCHANGED <<nextInSeq, clientVars, dirVars, history>>

\* rmdir or unlink is the acknowledgement, then on to the next number listed.
ScanAck ==
  /\ scan.phase = "taken"
  /\ IF scan.names[nextInSeq] = "dir"
     THEN dirs' = dirs \ {nextInSeq} /\ UNCHANGED files
     ELSE files' = [files EXCEPT ![nextInSeq] = "none"] /\ UNCHANGED dirs
  /\ nextInSeq' = nextInSeq + 1
  /\ scan' = IF nextInSeq + 1 \in DOMAIN scan.names THEN [scan EXCEPT !.phase = "take"] ELSE NoScan
  /\ acked' = acked \cup {nextInSeq}
  /\ UNCHANGED <<delivered, clientVars, faults>>

\* The deletion throws: runScan logs it, the number is not advanced.
ScanAckThrows ==
  /\ "unlink" \in FaultKinds /\ faults < MaxFaults
  /\ scan.phase = "taken"
  /\ scan' = NoScan
  /\ faults' = faults + 1
  /\ UNCHANGED <<nextInSeq, delivered, clientVars, dirVars, acked>>

\* The host dies between any two steps and a new one adopts the session: the
\* base is to be discovered again from what the directory holds.
Restart ==
  /\ "restart" \in FaultKinds /\ faults < MaxFaults
  /\ nextInSeq' = 0
  /\ scan' = NoScan
  /\ faults' = faults + 1
  /\ UNCHANGED <<delivered, clientVars, dirVars, acked>>

-----------------------------------------------------------------------------
ClientStep == TakeBatch \/ DirCommit \/ FileOpen \/ FileClose
ScanStep == ScanList \/ ScanTorn \/ ScanTake \/ ScanAck

Next ==
  \/ Send \/ Spawned \/ AskAttach \/ GrantRead \/ AttachDone \/ ReadyFails \/ PumpFails
  \/ TakeBatch \/ DirCommit \/ FileOpen \/ FileClose \/ Close \/ Teardown
  \/ ScanList \/ ScanTorn \/ ScanTake \/ ScanAck \/ ScanAckThrows \/ Restart

Spec == Init /\ [][Next]_vars

\* The pump runs whenever the queue is not empty; the host's safety rescan
\* visits every approved session again and again.
FairSpec == Spec /\ WF_vars(ClientStep) /\ WF_vars(ScanStep)

-----------------------------------------------------------------------------
(* Properties *)

Listings == UNION {[S -> Lanes] : S \in SUBSET Seqs}

TypeOK ==
  /\ sent \in Nat
  /\ cuts \in Seq(Nat)
  /\ outSeq \in Nat \ {0}
  /\ commit \in [phase : {"idle", "try", "open"}, lane : Lanes, attempt : 0..MaxAttempts]
  /\ pumpError \in BOOLEAN /\ closing \in BOOLEAN /\ closed \in BOOLEAN
  /\ uplinkReady \in {"init", "asked", "granted", "open", "failed", "refused"}
  /\ midAttach \in BOOLEAN
  /\ dirs \subseteq Seqs
  /\ files \in [Seqs -> {"none", "empty", "full"}]
  /\ nextInSeq \in Nat
  /\ scan \in [phase : {"idle", "take", "taken"}, names : Listings]
  /\ delivered \in Seq(Nat)
  /\ acked \subseteq Seqs
  /\ faults \in Nat

\* The host hands on the frames that were sent, in order and without a gap,
\* whatever the browser does to single commits, and each once until the host
\* restarts or fails to delete a chunk; from then on a chunk may come again,
\* and still nothing is skipped.
Channel == INSTANCE FifoChannel WITH steady <- faults = 0
ImplementsChannel == Channel!Spec

\* A chunk the client believes committed is readable until the host has taken
\* it: a retry, a lane change or a failed commit never leaves a gap, which
\* would stall consumption for the life of the session.
Readable(s) == s \in dirs \/ files[s] = "full"
NoGap == \A s \in 1..(outSeq - 1) : s \in acked \/ Readable(s)

\* Everything sent before the session closed reaches a steady host once the
\* client has its lane, unless the pump gave up on a chunk.
SentIsDelivered ==
  \A f \in 1..MaxSends :
    (sent >= f /\ ~closed /\ uplinkReady = "open")
      ~> (f \in {delivered[i] : i \in 1..Len(delivered)} \/ pumpError \/ faults > 0)

\* A torn-down client leaves no frame behind: the close notification and all
\* it waited for are on disk or taken.  A client that closed in the middle of
\* its attach is exempt, and only that: its queue goes with it, and when the
\* grant was in already there is not even an error to tell.
ClosedMeansFlushed ==
  closed /\ ~pumpError /\ ~midAttach =>
    /\ Taken = sent
    /\ \A s \in 1..Len(cuts) : s \in acked \/ Readable(s)
=============================================================================
