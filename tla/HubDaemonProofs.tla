-------------------------- MODULE HubDaemonProofs --------------------------
(***************************************************************************)
(* If nobody is started while another daemon is starting, the lock file    *)
(* excludes a second daemon, for every set of daemons and any number of    *)
(* kills.  (Without that premise it does not: run DaemonRace.)             *)
(***************************************************************************)
EXTENDS HubDaemon, TLAPS

\* The invariant that is inductive: besides types and the property itself,
\* one starter at a time, and a starter that has seen a corpse is not
\* overtaken by a new owner before it is done with it.
OneStarter ==
  \A d, o \in Daemons : pc[d] \in Starting /\ pc[o] \in Starting => d = o

ProbedIsDead ==
  \A d \in Daemons : pc[d] \in {"reclaim", "rebind"} => path \notin Daemons

IInv == TypeOK /\ LockIsHeld /\ OneStarter /\ ProbedIsDead

\* Nobody has started anything yet.
LEMMA InitEstablishesIInv == Init => IInv
  BY DaemonsAssumption, BoundAssumption
  DEF Init, IInv, TypeOK, LockIsHeld, OneStarter, ProbedIsDead, Starting, Holding, Alive, None, Corpse

\* Every step of every daemon, and of the world, keeps the invariant.
LEMMA StepKeepsIInv == ASSUME OneAtATime, IInv, [Next]_vars PROVE IInv'
<1> USE DaemonsAssumption, BoundAssumption
    DEF IInv, TypeOK, LockIsHeld, OneStarter, ProbedIsDead, Starting, Holding, Alive, None, Corpse, Goto
<1>1. CASE \E d \in Daemons : Start(d)
  BY <1>1 DEF Start
<1>2. CASE \E d \in Daemons : Bind(d)
  BY <1>2 DEF Bind
<1>3. CASE \E d \in Daemons : Probe(d)
  BY <1>3 DEF Probe, SaysLive
<1>4. CASE \E d \in Daemons : Reclaim(d)
  BY <1>4 DEF Reclaim
<1>5. CASE \E d \in Daemons : Rebind(d)
  BY <1>5 DEF Rebind
<1>6. CASE \E d \in Daemons : RefuseLiveHost(d)
  BY <1>6 DEF RefuseLiveHost
<1>7. CASE \E d \in Daemons : FirstBeat(d) \/ Heartbeat(d)
  BY <1>7 DEF FirstBeat, Heartbeat
<1>8. CASE \E d \in Daemons : Stop(d)
  BY <1>8 DEF Stop
<1>9. CASE \E d \in Daemons : Release(d)
  BY <1>9 DEF Release, Released
<1>10. CASE \E d \in Daemons : Crash(d)
  BY <1>10 DEF Crash
<1>11. CASE GoStale
  BY <1>11 DEF GoStale
<1>12. CASE UNCHANGED vars
  BY <1>12 DEF vars
<1> QED
  BY <1>1, <1>2, <1>3, <1>4, <1>5, <1>6, <1>7, <1>8, <1>9, <1>10, <1>11, <1>12 DEF Next, Work

\* A daemon that got through acquireHubLock owns the socket file until it
\* lets go, whatever crashes, as long as starts do not overlap.
THEOREM SerialStartsHoldTheLock == ASSUME OneAtATime PROVE Spec => []LockIsHeld
<1>1. IInv /\ [Next]_vars => IInv'
  BY StepKeepsIInv
<1>2. IInv => LockIsHeld
  BY DEF IInv
<1> QED
  BY InitEstablishesIInv, <1>1, <1>2, PTL DEF Spec

\* So no two daemons ever serve the hub together under that premise.
THEOREM SerialStartsServeOnce == ASSUME OneAtATime PROVE Spec => []OneServes
<1>1. LockIsHeld => OneServes
  BY DEF LockIsHeld, OneServes, Holding
<1> QED
  BY SerialStartsHoldTheLock, <1>1, PTL
=============================================================================
