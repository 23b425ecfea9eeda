----------------------------- MODULE HubDaemon -----------------------------
(***************************************************************************)
(* How a daemon comes to serve a hub directory, and how it stops           *)
(* (packages/fsiod/src/lock.ts, packages/fsiod/src/daemon.ts, and          *)
(* HostServer.start, refuseLiveHost, heartbeat and close in                *)
(* packages/host/src/host-server.ts).                                      *)
(*                                                                         *)
(* acquireHubLock binds a unix socket at a path that depends on the hub    *)
(* only; a socket file left by a killed daemon is probed, unlinked and     *)
(* bound again.  HostServer.start then looks at the age of host.json and   *)
(* refuses if it is fresh.  Processes interleave between any two system    *)
(* calls; a daemon may be killed at any of them.                           *)
(***************************************************************************)
EXTENDS Integers, FiniteSets

CONSTANTS
  Daemons,     \* the processes started on one hub, by a supervisor or by hand
  MaxCrashes,  \* bound: kills
  MayStop,     \* Daemon.stop() may be called
  OneAtATime   \* nobody is started while another is starting

None   == "none"
Corpse == "corpse"

ASSUME DaemonsAssumption == None \notin Daemons /\ Corpse \notin Daemons
ASSUME BoundAssumption == MaxCrashes \in Nat
ASSUME SwitchAssumption == MayStop \in BOOLEAN /\ OneAtATime \in BOOLEAN

VARIABLES
  pc,       \* how far each daemon got
  path,     \* the socket file: None, the daemon that bound it, or Corpse
  beat,     \* host.json: "none", "fresh" or "stale" (older than 3 beats)
  crashes

vars == <<pc, path, beat, crashes>>

Starting == {"bind", "probe", "reclaim", "rebind", "locked", "starting"}
Holding  == {"locked", "starting", "serving", "stopping"}   \* their socket listens
Alive    == Starting \cup Holding

Init ==
  /\ pc = [d \in Daemons |-> "off"]
  /\ path = None
  /\ beat = "none"
  /\ crashes = 0

Goto(d, where) == pc' = [pc EXCEPT ![d] = where]

-----------------------------------------------------------------------------
(* acquireHubLock *)

Start(d) ==
  /\ pc[d] \in {"off", "refused"}
  /\ OneAtATime => \A o \in Daemons : pc[o] \notin Starting
  /\ Goto(d, "bind")
  /\ UNCHANGED <<path, beat, crashes>>

\* bind(2) fails with EADDRINUSE on any file of that name, live or not.
Bind(d) ==
  /\ pc[d] = "bind"
  /\ IF path = None
     THEN path' = d /\ Goto(d, "locked")
     ELSE Goto(d, "probe") /\ UNCHANGED path
  /\ UNCHANGED <<beat, crashes>>

\* Mutant: a probe that hangs is proof of a corpse.
SaysLive_OnlyConnected(answer) == answer = "connect"
\* Mutant: whatever is in the way is an owner, as with an O_EXCL lock file.
SaysLive_Always(answer) == TRUE
\* probe: a connection is a live owner, and so is a timeout.
SaysLive(answer) == answer # "error"

\* connect(2): ECONNREFUSED from a corpse, ENOENT if the file has gone, and
\* a live owner answers, though perhaps too late.
Probe(d) ==
  /\ pc[d] = "probe"
  /\ \E answer \in IF path \in Daemons THEN {"connect", "timeout"} ELSE {"error"} :
       Goto(d, IF SaysLive(answer) THEN "refused" ELSE "reclaim")
  /\ UNCHANGED <<path, beat, crashes>>

\* The unlink takes the file by name, whoever bound it since the probe.
Reclaim(d) ==
  /\ pc[d] = "reclaim"
  /\ path' = None
  /\ Goto(d, "rebind")
  /\ UNCHANGED <<beat, crashes>>

Rebind(d) ==
  /\ pc[d] = "rebind"
  /\ IF path = None
     THEN path' = d /\ Goto(d, "locked")
     ELSE Goto(d, "refused") /\ UNCHANGED path
  /\ UNCHANGED <<beat, crashes>>

-----------------------------------------------------------------------------
(* startDaemon after the lock, and HostServer *)

\* refuseLiveHost: a young host.json is taken for an incumbent, and the lock
\* is released again.
RefuseLiveHost(d) ==
  /\ pc[d] = "locked"
  /\ IF beat = "fresh"
     THEN Goto(d, "refused") /\ path' = None
     ELSE Goto(d, "starting") /\ UNCHANGED path
  /\ UNCHANGED <<beat, crashes>>

\* The rest of HostServer.start, from the loading of the pty module to the
\* first heartbeat.
FirstBeat(d) ==
  /\ pc[d] = "starting"
  /\ Goto(d, "serving")
  /\ beat' = "fresh"
  /\ UNCHANGED <<path, crashes>>

Heartbeat(d) ==
  /\ pc[d] = "serving"
  /\ beat # "fresh"
  /\ beat' = "fresh"
  /\ UNCHANGED <<pc, path, crashes>>

\* HostServer.close retracts host.json; the children are still dying.
Stop(d) ==
  /\ MayStop
  /\ pc[d] = "serving"
  /\ Goto(d, "stopping")
  /\ beat' = "none"
  /\ UNCHANGED <<path, crashes>>

\* release: close the socket and unlink the file of that name.
Released == None

Release(d) ==
  /\ pc[d] = "stopping"
  /\ Goto(d, "off")
  /\ path' = Released
  /\ UNCHANGED <<beat, crashes>>

-----------------------------------------------------------------------------
(* The world *)

\* A killed daemon leaves its files behind.
Crash(d) ==
  /\ crashes < MaxCrashes
  /\ pc[d] \in Alive
  /\ Goto(d, "off")
  /\ path' = IF path = d THEN Corpse ELSE path
  /\ crashes' = crashes + 1
  /\ UNCHANGED beat

\* Three beats without a heartbeat: the daemon is dead, or it is alive and
\* held up (a suspended machine, a blocked event loop).
GoStale ==
  /\ beat = "fresh"
  /\ beat' = "stale"
  /\ UNCHANGED <<pc, path, crashes>>

-----------------------------------------------------------------------------
Work(d) ==
  \/ Start(d) \/ Bind(d) \/ Probe(d) \/ Reclaim(d) \/ Rebind(d)
  \/ RefuseLiveHost(d) \/ FirstBeat(d) \/ Heartbeat(d) \/ Release(d)

Next ==
  \/ \E d \in Daemons : Work(d) \/ Stop(d) \/ Crash(d)
  \/ GoStale

Spec == Init /\ [][Next]_vars

\* A supervisor starts a daemon that is not there, a started one runs on,
\* and time passes.
FairSpec == Spec /\ WF_vars(GoStale) /\ \A d \in Daemons : WF_vars(Work(d))

-----------------------------------------------------------------------------
(* Properties *)

\* Types; and a live socket file is that of a daemon whose socket listens.
TypeOK ==
  /\ pc \in [Daemons -> {"off", "refused"} \cup Alive]
  /\ path \in Daemons \cup {None, Corpse}
  /\ beat \in {"none", "fresh", "stale"}
  /\ crashes \in 0..MaxCrashes
  /\ path \in Daemons => pc[path] \in Holding

\* Exactly one daemon may serve a hub (spec/PROTOCOL.md, Daemon singleton).
OneServes ==
  \A d, o \in Daemons : pc[d] = "serving" /\ pc[o] = "serving" => d = o

\* A daemon that got through acquireHubLock owns the socket file until it
\* lets go, so that the next starter finds it and is refused: this, not the
\* heartbeat, is what makes the daemon a singleton.
LockIsHeld == \A d \in Daemons : pc[d] \in Holding => path = d

\* A crash does not strand the hub: whatever it left behind, and however
\* starters get in each other's way, some daemon ends up serving.
HubIsServed == []<>(\E d \in Daemons : pc[d] = "serving")
=============================================================================
