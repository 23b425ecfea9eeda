------------------------- MODULE SessionLifeProofs -------------------------
(***************************************************************************)
(* What a session promises over every interleaving of its callbacks, for   *)
(* every set of kinds, any number of chunks and any number of crashes and  *)
(* stops of the host; and that the record on disk says of its client what  *)
(* the host thinks.                                                        *)
(***************************************************************************)
EXTENDS SessionLife, TLAPS

-----------------------------------------------------------------------------
(* The inductive invariant.  The type invariant is taken apart by the kind *)
(* of reasoning its parts need.                                            *)

States == {"none", "running", "exited", "error"}
StatusOK == status \in [state : States, detached : BOOLEAN]
InboxOK == inbox \in Seq({"data", "beat", "detach", "close"})
CountsOK == silence \in 0..IdleGc /\ sends \in 0..MaxSends /\ restarts \in 0..MaxRestarts
PhasesOK ==
  /\ kind \in {"pty", "pipe", "kind", "echo"} /\ page \in {"open", "gone"}
  /\ phase \in {"unknown", "adopted", "started", "approved"}
  /\ handler \in {"none", "starting", "live", "gone"}
  /\ child \in {"none", "spawning", "alive", "dying", "dead"}
FlagsOK ==
  /\ dir \in BOOLEAN /\ up \in BOOLEAN /\ policy \in BOOLEAN
  /\ exited \in BOOLEAN /\ done \in BOOLEAN /\ detached \in BOOLEAN
  /\ hasStatus \in BOOLEAN /\ aware \in BOOLEAN /\ answered \in BOOLEAN
  /\ proc \in BOOLEAN /\ closing \in BOOLEAN
HistoryOK == wroteGone \in BOOLEAN /\ early \in BOOLEAN
LinksOK == (detached => hasStatus) /\ (proc => child \in {"spawning", "alive"})

Idle == ~policy /\ handler = "none" /\ child = "none" /\ ~proc

\* A session in the table has its directory; one that is not has nothing
\* under way, or is done and has left only callbacks.
PlaceInv ==
  /\ phase # "unknown" => dir
  /\ phase = "unknown" => done \/ Idle
  /\ phase = "unknown" /\ dir => ~done /\ Idle

\* How far a session that is not done has come bounds what runs in it.
StageInv ==
  /\ policy => done \/ phase = "started"
  /\ phase \in {"adopted", "started"} /\ ~done => handler = "none" /\ child = "none"
  /\ handler # "none" => child = "none"
  /\ child \in {"spawning", "alive"} => proc
  /\ child = "dying" => done
  /\ child = "spawning" \/ (child = "dying" /\ ~answered) => phase # "unknown"
  /\ ~up => done \/ Idle
  /\ closing => done

\* Once exited is on disk, nothing is left that would write anything else.
ExitInv ==
  status.state = "exited" /\ phase # "unknown" /\ ~done
    => phase = "approved" /\ handler \in {"none", "gone"} /\ child \in {"none", "dead"}

\* An approved shell has its process, or its answer.
ShellInv ==
  /\ child = "alive" => answered
  /\ IsShell /\ phase = "approved" /\ ~done => proc \/ answered

IInv ==
  /\ StatusOK /\ InboxOK /\ CountsOK /\ PhasesOK /\ FlagsOK /\ HistoryOK /\ LinksOK
  /\ PlaceInv /\ StageInv /\ ExitInv /\ ShellInv
  /\ NothingOutlives /\ NeverWritesRemoved /\ ShellInputQueues

USE DEF StaleGrace, DetachAfter, IdleGc, IsShell

LEMMA TypeParts ==
  StatusOK /\ InboxOK /\ CountsOK /\ PhasesOK /\ FlagsOK /\ HistoryOK /\ LinksOK => TypeOK
BY DEF TypeOK, States, StatusOK, InboxOK, CountsOK, PhasesOK, FlagsOK, HistoryOK, LinksOK

LEMMA InitInv == Init => IInv
<1> SUFFICES ASSUME Init PROVE IInv
  OBVIOUS
<1> USE DEF Init, Fresh, Record, Idle
<1>1. StatusOK
  BY DEF StatusOK, States
<1>2. InboxOK
  BY DEF InboxOK
<1>3. CountsOK /\ PhasesOK
  BY KindsAssumption, BoundsAssumption DEF CountsOK, PhasesOK
<1>4. FlagsOK /\ HistoryOK /\ LinksOK /\ PlaceInv /\ StageInv
  BY DEF FlagsOK, HistoryOK, LinksOK, PlaceInv, StageInv
<1>5. ExitInv /\ ShellInv /\ NothingOutlives /\ NeverWritesRemoved /\ ShellInputQueues
  BY DEF ExitInv, ShellInv, NothingOutlives, NeverWritesRemoved, ShellInputQueues
<1> QED
  BY <1>1, <1>2, <1>3, <1>4, <1>5 DEF IInv

-----------------------------------------------------------------------------
(* Every step keeps it *)

\* The records setStatus writes.
LEMMA RecordType ==
  ASSUME NEW s \in States, NEW d \in BOOLEAN
  PROVE  /\ Record(s, d) \in [state : States, detached : BOOLEAN]
         /\ Record(s, d).state = s
BY DEF Record

\* setDetached changes no session's state, and marks none without a record.
LEMMA MarkType ==
  ASSUME StatusOK, FlagsOK, HistoryOK, LinksOK, dir, NEW d \in BOOLEAN, Mark(d)
  PROVE  /\ StatusOK' /\ status'.state = status.state
         /\ detached' \in BOOLEAN /\ (detached' => hasStatus) /\ wroteGone' = wroteGone
<1>1. CASE detached = d \/ ~hasStatus
  BY <1>1 DEF Mark, StatusOK, FlagsOK, LinksOK
<1>2. CASE ~(detached = d \/ ~hasStatus)
  <2>1. status.state \in States
    BY DEF StatusOK
  <2>2. status' = Record(status.state, d) /\ detached' = d /\ Writes
    BY <1>2 DEF Mark
  <2>3. wroteGone' = wroteGone
    BY <2>2 DEF Writes, HistoryOK
  <2> QED
    BY <1>2, <2>1, <2>2, <2>3, RecordType DEF StatusOK
<1> QED
  BY <1>1, <1>2

LEMMA AdoptInv ==
  ASSUME IInv, Adopt
  PROVE  IInv'
<1> USE DEF Adopt, AdoptsAsDone, diskVars, memVars, historyVars, IInv
<1>1. StatusOK'
  BY RecordType DEF StatusOK, States
<1>2. InboxOK' /\ CountsOK'
  BY BoundsAssumption DEF InboxOK, CountsOK
<1>3. PhasesOK' /\ FlagsOK' /\ HistoryOK'
  <2>1. PhasesOK'
    BY DEF PhasesOK
  <2>2. FlagsOK'
    BY DEF FlagsOK
  <2>3. HistoryOK'
    BY DEF HistoryOK
  <2> QED
    BY <2>1, <2>2, <2>3
<1>4. LinksOK' /\ PlaceInv' /\ StageInv'
  BY DEF PhasesOK, FlagsOK, LinksOK, PlaceInv, StageInv, ShellInv, Idle, NothingOutlives
<1>5. ExitInv' /\ ShellInv' /\ ShellInputQueues'
  BY RecordType DEF PhasesOK, FlagsOK, States, PlaceInv, StageInv, Idle, ExitInv, ShellInv,
     NothingOutlives, ShellInputQueues
<1>6. NothingOutlives' /\ NeverWritesRemoved'
  BY DEF PhasesOK, FlagsOK, LinksOK, HistoryOK, PlaceInv, StageInv, Idle,
     NothingOutlives, NeverWritesRemoved
<1> QED
  BY <1>1, <1>2, <1>3, <1>4, <1>5, <1>6

LEMMA TryStartInv ==
  ASSUME IInv, TryStart
  PROVE  IInv'
<1> USE DEF TryStart, Refuse, SetStatus, Writes, diskVars, memVars, historyVars, IInv
<1>1. StatusOK'
  BY RecordType DEF StatusOK, States
<1>2. InboxOK' /\ CountsOK'
  BY BoundsAssumption DEF InboxOK, CountsOK
<1>3. PhasesOK' /\ FlagsOK' /\ HistoryOK'
  <2>1. PhasesOK'
    BY DEF PhasesOK
  <2>2. FlagsOK'
    BY DEF FlagsOK
  <2>3. HistoryOK'
    BY DEF HistoryOK
  <2> QED
    BY <2>1, <2>2, <2>3
<1>a. dir /\ handler = "none" /\ child = "none" /\ ~proc /\ ~policy
  BY DEF PhasesOK, FlagsOK, LinksOK, PlaceInv, StageInv
<1>b. handler' = "none" /\ child' = "none" /\ ~proc' /\ dir' /\ wroteGone' = wroteGone
  BY <1>a DEF HistoryOK
<1>c. phase' = "started" /\ up' = up /\ up /\ ~closing /\ closing' = closing
  BY DEF StageInv
<1>d. detached' => hasStatus'
  <2>1. detached' = detached /\ (hasStatus' = hasStatus \/ hasStatus' = TRUE)
    OBVIOUS
  <2>2. detached => hasStatus
    BY DEF LinksOK
  <2>3. CASE hasStatus' = TRUE
    BY <2>3
  <2>4. CASE hasStatus' = hasStatus
    <3> SUFFICES ASSUME detached' PROVE hasStatus
      BY <2>4
    <3>1. detached
      BY <2>1
    <3> QED
      BY <3>1, <2>2
  <2> QED
    BY <2>1, <2>3, <2>4
<1>4. LinksOK' /\ PlaceInv' /\ StageInv'
  BY <1>a, <1>b, <1>c, <1>d DEF LinksOK, PlaceInv, StageInv, Idle
<1>5. ExitInv' /\ ShellInv' /\ ShellInputQueues'
  BY RecordType DEF PhasesOK, FlagsOK, States, PlaceInv, StageInv, Idle, ExitInv, ShellInv,
     NothingOutlives, ShellInputQueues
<1>6. NothingOutlives' /\ NeverWritesRemoved'
  BY <1>b DEF NothingOutlives, NeverWritesRemoved
<1> QED
  BY <1>1, <1>2, <1>3, <1>4, <1>5, <1>6

LEMMA DenyInv ==
  ASSUME IInv, Deny
  PROVE  IInv'
<1> USE DEF Deny, StillWanted, Refuse, SetStatus, Writes, diskVars, memVars, historyVars, IInv
<1>1. StatusOK'
  BY RecordType DEF StatusOK, States
<1>2. InboxOK' /\ CountsOK'
  BY BoundsAssumption DEF InboxOK, CountsOK
<1>3. PhasesOK' /\ FlagsOK' /\ HistoryOK'
  <2>1. PhasesOK'
    BY DEF PhasesOK
  <2>2. FlagsOK'
    BY DEF FlagsOK
  <2>3. HistoryOK'
    BY DEF HistoryOK
  <2> QED
    BY <2>1, <2>2, <2>3
<1>4. LinksOK' /\ PlaceInv' /\ StageInv'
  BY DEF PhasesOK, FlagsOK, LinksOK, PlaceInv, StageInv, ShellInv, Idle, NothingOutlives
<1>5. ExitInv' /\ ShellInv' /\ ShellInputQueues'
  BY RecordType DEF PhasesOK, FlagsOK, States, PlaceInv, StageInv, Idle, ExitInv, ShellInv,
     NothingOutlives, ShellInputQueues
<1>6. NothingOutlives' /\ NeverWritesRemoved'
  BY DEF PhasesOK, FlagsOK, LinksOK, HistoryOK, PlaceInv, StageInv, Idle,
     NothingOutlives, NeverWritesRemoved
<1> QED
  BY <1>1, <1>2, <1>3, <1>4, <1>5, <1>6

LEMMA AllowInv ==
  ASSUME IInv, Allow
  PROVE  IInv'
<1> USE DEF Allow, StillWanted, PtyUp, PipeUp, PipeThrows, Refuse, SetStatus, Writes, diskVars, memVars, historyVars, IInv
<1>1. StatusOK'
  BY RecordType DEF StatusOK, States
<1>2. InboxOK' /\ CountsOK'
  BY BoundsAssumption DEF InboxOK, CountsOK
<1>3. PhasesOK' /\ FlagsOK' /\ HistoryOK'
  <2>1. PhasesOK'
    BY DEF PhasesOK
  <2>2. FlagsOK'
    BY ZenonT(60) DEF FlagsOK
  <2>3. HistoryOK'
    BY DEF HistoryOK
  <2> QED
    BY <2>1, <2>2, <2>3
<1>4. LinksOK' /\ PlaceInv' /\ StageInv'
  BY DEF PhasesOK, FlagsOK, LinksOK, PlaceInv, StageInv, ShellInv, Idle, NothingOutlives
<1>5. ExitInv' /\ ShellInv' /\ ShellInputQueues'
  BY RecordType DEF PhasesOK, FlagsOK, States, PlaceInv, StageInv, Idle, ExitInv, ShellInv,
     NothingOutlives, ShellInputQueues
<1>6. NothingOutlives' /\ NeverWritesRemoved'
  BY DEF PhasesOK, FlagsOK, LinksOK, HistoryOK, PlaceInv, StageInv, Idle,
     NothingOutlives, NeverWritesRemoved
<1> QED
  BY <1>1, <1>2, <1>3, <1>4, <1>5, <1>6

LEMMA PipeSpawnedInv ==
  ASSUME IInv, PipeSpawned
  PROVE  IInv'
<1> USE DEF PipeSpawned, Writes, diskVars, memVars, historyVars, IInv
<1>1. StatusOK'
  BY RecordType DEF StatusOK, States
<1>2. InboxOK' /\ CountsOK'
  BY BoundsAssumption DEF InboxOK, CountsOK
<1>3. PhasesOK' /\ FlagsOK' /\ HistoryOK'
  BY  DEF PhasesOK, FlagsOK, HistoryOK, PlaceInv
<1>4. LinksOK' /\ PlaceInv' /\ StageInv'
  BY DEF PhasesOK, FlagsOK, LinksOK, PlaceInv, StageInv, ShellInv, Idle, NothingOutlives
<1>5. ExitInv' /\ ShellInv' /\ ShellInputQueues'
  BY RecordType DEF PhasesOK, FlagsOK, States, PlaceInv, StageInv, Idle, ExitInv, ShellInv,
     NothingOutlives, ShellInputQueues
<1>6. NothingOutlives' /\ NeverWritesRemoved'
  BY DEF PhasesOK, FlagsOK, LinksOK, HistoryOK, PlaceInv, StageInv, Idle,
     NothingOutlives, NeverWritesRemoved
<1> QED
  BY <1>1, <1>2, <1>3, <1>4, <1>5, <1>6

LEMMA PipeErrorInv ==
  ASSUME IInv, PipeError
  PROVE  IInv'
<1> USE DEF PipeError, SetStatus, Writes, diskVars, memVars, historyVars, IInv
<1>1. StatusOK'
  BY RecordType DEF StatusOK, States
<1>2. InboxOK' /\ CountsOK'
  BY BoundsAssumption DEF InboxOK, CountsOK
<1>3. PhasesOK' /\ FlagsOK' /\ HistoryOK'
  <2>1. PhasesOK'
    BY DEF PhasesOK
  <2>2. FlagsOK'
    BY DEF FlagsOK
  <2>3. HistoryOK'
    BY DEF HistoryOK
  <2> QED
    BY <2>1, <2>2, <2>3
<1>4. LinksOK' /\ PlaceInv' /\ StageInv'
  BY DEF PhasesOK, FlagsOK, LinksOK, PlaceInv, StageInv, ShellInv, Idle, NothingOutlives
<1>5. ExitInv' /\ ShellInv' /\ ShellInputQueues'
  BY RecordType DEF PhasesOK, FlagsOK, States, PlaceInv, StageInv, Idle, ExitInv, ShellInv,
     NothingOutlives, ShellInputQueues
<1>6. NothingOutlives' /\ NeverWritesRemoved'
  BY DEF PhasesOK, FlagsOK, LinksOK, HistoryOK, PlaceInv, StageInv, Idle,
     NothingOutlives, NeverWritesRemoved
<1> QED
  BY <1>1, <1>2, <1>3, <1>4, <1>5, <1>6

LEMMA KindUpInv ==
  ASSUME IInv, KindUp
  PROVE  IInv'
<1> USE DEF KindUp, SetStatus, Writes, diskVars, memVars, historyVars, IInv
<1>1. StatusOK'
  BY RecordType DEF StatusOK, States
<1>2. InboxOK' /\ CountsOK'
  BY BoundsAssumption DEF InboxOK, CountsOK
<1>3. PhasesOK' /\ FlagsOK' /\ HistoryOK'
  <2>1. PhasesOK'
    BY DEF PhasesOK
  <2>2. FlagsOK'
    BY DEF FlagsOK
  <2>3. HistoryOK'
    BY DEF HistoryOK
  <2> QED
    BY <2>1, <2>2, <2>3
<1>4. LinksOK' /\ PlaceInv' /\ StageInv'
  BY DEF PhasesOK, FlagsOK, LinksOK, PlaceInv, StageInv, ShellInv, Idle, NothingOutlives
<1>5. ExitInv' /\ ShellInv' /\ ShellInputQueues'
  BY RecordType DEF PhasesOK, FlagsOK, States, PlaceInv, StageInv, Idle, ExitInv, ShellInv,
     NothingOutlives, ShellInputQueues
<1>6. NothingOutlives' /\ NeverWritesRemoved'
  BY DEF PhasesOK, FlagsOK, LinksOK, HistoryOK, PlaceInv, StageInv, Idle,
     NothingOutlives, NeverWritesRemoved
<1> QED
  BY <1>1, <1>2, <1>3, <1>4, <1>5, <1>6

LEMMA KindFailsInv ==
  ASSUME IInv, KindFails
  PROVE  IInv'
<1> USE DEF KindFails, Refuse, SetStatus, Writes, diskVars, memVars, historyVars, IInv
<1>1. StatusOK'
  BY RecordType DEF StatusOK, States
<1>2. InboxOK' /\ CountsOK'
  BY BoundsAssumption DEF InboxOK, CountsOK
<1>3. PhasesOK' /\ FlagsOK' /\ HistoryOK'
  <2>1. PhasesOK'
    BY DEF PhasesOK
  <2>2. FlagsOK'
    BY DEF FlagsOK
  <2>3. HistoryOK'
    BY DEF HistoryOK
  <2> QED
    BY <2>1, <2>2, <2>3
<1>4. LinksOK' /\ PlaceInv' /\ StageInv'
  BY DEF PhasesOK, FlagsOK, LinksOK, PlaceInv, StageInv, ShellInv, Idle, NothingOutlives
<1>5. ExitInv' /\ ShellInv' /\ ShellInputQueues'
  BY RecordType DEF PhasesOK, FlagsOK, States, PlaceInv, StageInv, Idle, ExitInv, ShellInv,
     NothingOutlives, ShellInputQueues
<1>6. NothingOutlives' /\ NeverWritesRemoved'
  BY DEF PhasesOK, FlagsOK, LinksOK, HistoryOK, PlaceInv, StageInv, Idle,
     NothingOutlives, NeverWritesRemoved
<1> QED
  BY <1>1, <1>2, <1>3, <1>4, <1>5, <1>6

LEMMA ChildExitsInv ==
  ASSUME IInv, ChildExits
  PROVE  IInv'
<1> USE DEF ChildExits, Late, SetStatus, Writes, diskVars, memVars, historyVars, IInv
<1>1. StatusOK'
  BY RecordType DEF StatusOK, States
<1>2. InboxOK' /\ CountsOK'
  BY BoundsAssumption DEF InboxOK, CountsOK
<1>3. PhasesOK' /\ FlagsOK' /\ HistoryOK'
  <2>1. PhasesOK'
    BY DEF PhasesOK
  <2>2. FlagsOK'
    BY DEF FlagsOK
  <2>3. HistoryOK'
    BY DEF HistoryOK
  <2> QED
    BY <2>1, <2>2, <2>3
<1>4. LinksOK' /\ PlaceInv' /\ StageInv'
  BY DEF PhasesOK, FlagsOK, LinksOK, PlaceInv, StageInv, ShellInv, Idle, NothingOutlives
<1>5. ExitInv' /\ ShellInv' /\ ShellInputQueues'
  BY RecordType DEF PhasesOK, FlagsOK, States, PlaceInv, StageInv, Idle, ExitInv, ShellInv,
     NothingOutlives, ShellInputQueues
<1>6. NothingOutlives' /\ NeverWritesRemoved'
  BY DEF PhasesOK, FlagsOK, LinksOK, HistoryOK, PlaceInv, StageInv, Idle,
     NothingOutlives, NeverWritesRemoved
<1> QED
  BY <1>1, <1>2, <1>3, <1>4, <1>5, <1>6

LEMMA KindExitsInv ==
  ASSUME IInv, KindExits
  PROVE  IInv'
<1> USE DEF KindExits, SetStatus, Writes, diskVars, memVars, historyVars, IInv
<1>1. StatusOK'
  BY RecordType DEF StatusOK, States
<1>2. InboxOK' /\ CountsOK'
  BY BoundsAssumption DEF InboxOK, CountsOK
<1>3. PhasesOK' /\ FlagsOK' /\ HistoryOK'
  BY  DEF PhasesOK, FlagsOK, HistoryOK, PlaceInv
<1>4. LinksOK' /\ PlaceInv' /\ StageInv'
  BY DEF PhasesOK, FlagsOK, LinksOK, PlaceInv, StageInv, ShellInv, Idle, NothingOutlives
<1>5. ExitInv' /\ ShellInv' /\ ShellInputQueues'
  BY RecordType DEF PhasesOK, FlagsOK, States, PlaceInv, StageInv, Idle, ExitInv, ShellInv,
     NothingOutlives, ShellInputQueues
<1>6. NothingOutlives' /\ NeverWritesRemoved'
  BY DEF PhasesOK, FlagsOK, LinksOK, HistoryOK, PlaceInv, StageInv, Idle,
     NothingOutlives, NeverWritesRemoved
<1> QED
  BY <1>1, <1>2, <1>3, <1>4, <1>5, <1>6

LEMMA ConsumeDataInv ==
  ASSUME IInv, ConsumeData
  PROVE  IInv'
<1> USE DEF ConsumeData, Receive, Served, diskVars, memVars, historyVars, IInv
<1>1. /\ StatusOK' /\ status'.state = status.state
      /\ detached' \in BOOLEAN /\ (detached' => hasStatus) /\ wroteGone' = wroteGone
  BY MarkType DEF PlaceInv
<1>2. InboxOK' /\ CountsOK'
  BY BoundsAssumption DEF InboxOK, CountsOK
<1>3. PhasesOK' /\ FlagsOK' /\ HistoryOK'
  BY <1>1 DEF PhasesOK, FlagsOK, HistoryOK, PlaceInv
<1>4. LinksOK' /\ PlaceInv' /\ StageInv'
  BY <1>1 DEF PhasesOK, FlagsOK, LinksOK, PlaceInv, StageInv, ShellInv, Idle, NothingOutlives
<1>5. ExitInv' /\ ShellInv' /\ ShellInputQueues'
  BY <1>1, RecordType DEF PhasesOK, FlagsOK, States, PlaceInv, StageInv, Idle, ExitInv, ShellInv,
     NothingOutlives, ShellInputQueues
<1>6. NothingOutlives' /\ NeverWritesRemoved'
  BY <1>1 DEF PhasesOK, FlagsOK, LinksOK, HistoryOK, PlaceInv, StageInv, Idle,
     NothingOutlives, NeverWritesRemoved
<1> QED
  BY <1>1, <1>2, <1>3, <1>4, <1>5, <1>6

LEMMA ConsumeBeatInv ==
  ASSUME IInv, ConsumeBeat
  PROVE  IInv'
<1> USE DEF ConsumeBeat, Receive, Served, diskVars, memVars, historyVars, IInv
<1>1. /\ StatusOK' /\ status'.state = status.state
      /\ detached' \in BOOLEAN /\ (detached' => hasStatus) /\ wroteGone' = wroteGone
  BY MarkType DEF PlaceInv
<1>2. InboxOK' /\ CountsOK'
  BY BoundsAssumption DEF InboxOK, CountsOK
<1>3. PhasesOK' /\ FlagsOK' /\ HistoryOK'
  BY <1>1 DEF PhasesOK, FlagsOK, HistoryOK, PlaceInv
<1>4. LinksOK' /\ PlaceInv' /\ StageInv'
  BY <1>1 DEF PhasesOK, FlagsOK, LinksOK, PlaceInv, StageInv, ShellInv, Idle, NothingOutlives
<1>5. ExitInv' /\ ShellInv' /\ ShellInputQueues'
  BY <1>1, RecordType DEF PhasesOK, FlagsOK, States, PlaceInv, StageInv, Idle, ExitInv, ShellInv,
     NothingOutlives, ShellInputQueues
<1>6. NothingOutlives' /\ NeverWritesRemoved'
  BY <1>1 DEF PhasesOK, FlagsOK, LinksOK, HistoryOK, PlaceInv, StageInv, Idle,
     NothingOutlives, NeverWritesRemoved
<1> QED
  BY <1>1, <1>2, <1>3, <1>4, <1>5, <1>6

LEMMA ConsumeDetachInv ==
  ASSUME IInv, ConsumeDetach
  PROVE  IInv'
<1> USE DEF ConsumeDetach, Receive, Served, diskVars, memVars, historyVars, IInv
<1>1. /\ StatusOK' /\ status'.state = status.state
      /\ detached' \in BOOLEAN /\ (detached' => hasStatus) /\ wroteGone' = wroteGone
  BY MarkType DEF PlaceInv
<1>2. InboxOK' /\ CountsOK'
  BY BoundsAssumption DEF InboxOK, CountsOK
<1>3. PhasesOK' /\ FlagsOK' /\ HistoryOK'
  BY <1>1 DEF PhasesOK, FlagsOK, HistoryOK, PlaceInv
<1>4. LinksOK' /\ PlaceInv' /\ StageInv'
  BY <1>1 DEF PhasesOK, FlagsOK, LinksOK, PlaceInv, StageInv, ShellInv, Idle, NothingOutlives
<1>5. ExitInv' /\ ShellInv' /\ ShellInputQueues'
  BY <1>1, RecordType DEF PhasesOK, FlagsOK, States, PlaceInv, StageInv, Idle, ExitInv, ShellInv,
     NothingOutlives, ShellInputQueues
<1>6. NothingOutlives' /\ NeverWritesRemoved'
  BY <1>1 DEF PhasesOK, FlagsOK, LinksOK, HistoryOK, PlaceInv, StageInv, Idle,
     NothingOutlives, NeverWritesRemoved
<1> QED
  BY <1>1, <1>2, <1>3, <1>4, <1>5, <1>6

LEMMA ConsumeCloseInv ==
  ASSUME IInv, ConsumeClose
  PROVE  IInv'
<1> USE DEF ConsumeClose, Receive, Served, SetStatus, Writes, CloseSession, diskVars, memVars, historyVars, IInv
<1>1. StatusOK'
  BY RecordType DEF StatusOK, States
<1>2. InboxOK' /\ CountsOK'
  BY BoundsAssumption DEF InboxOK, CountsOK
<1>3. PhasesOK' /\ FlagsOK' /\ HistoryOK'
  BY  DEF PhasesOK, FlagsOK, HistoryOK, PlaceInv
<1>4. LinksOK' /\ PlaceInv' /\ StageInv'
  BY DEF PhasesOK, FlagsOK, LinksOK, PlaceInv, StageInv, ShellInv, Idle, NothingOutlives
<1>5. ExitInv' /\ ShellInv' /\ ShellInputQueues'
  BY RecordType DEF PhasesOK, FlagsOK, States, PlaceInv, StageInv, Idle, ExitInv, ShellInv,
     NothingOutlives, ShellInputQueues
<1>6. NothingOutlives' /\ NeverWritesRemoved'
  BY DEF PhasesOK, FlagsOK, LinksOK, HistoryOK, PlaceInv, StageInv, Idle,
     NothingOutlives, NeverWritesRemoved
<1> QED
  BY <1>1, <1>2, <1>3, <1>4, <1>5, <1>6

LEMMA CleanupInv ==
  ASSUME IInv, NEW ok \in BOOLEAN, CleanupTimer(ok)
  PROVE  IInv'
<1> USE DEF CleanupTimer, Timer, RemoveDir, diskVars, memVars, historyVars, IInv
<1>1. StatusOK'
  BY RecordType DEF StatusOK, States
<1>2. InboxOK' /\ CountsOK'
  BY BoundsAssumption DEF InboxOK, CountsOK
<1>3. PhasesOK' /\ FlagsOK' /\ HistoryOK'
  <2>1. PhasesOK'
    BY DEF PhasesOK
  <2>2. FlagsOK'
    BY DEF FlagsOK
  <2>3. HistoryOK'
    BY DEF HistoryOK
  <2> QED
    BY <2>1, <2>2, <2>3
<1>4. LinksOK' /\ PlaceInv' /\ StageInv'
  BY DEF PhasesOK, FlagsOK, LinksOK, PlaceInv, StageInv, ShellInv, Idle, NothingOutlives
<1>5. ExitInv' /\ ShellInv' /\ ShellInputQueues'
  BY RecordType DEF PhasesOK, FlagsOK, States, PlaceInv, StageInv, Idle, ExitInv, ShellInv,
     NothingOutlives, ShellInputQueues
<1>6. NothingOutlives' /\ NeverWritesRemoved'
  BY DEF PhasesOK, FlagsOK, LinksOK, HistoryOK, PlaceInv, StageInv, Idle,
     NothingOutlives, NeverWritesRemoved
<1> QED
  BY <1>1, <1>2, <1>3, <1>4, <1>5, <1>6

LEMMA SweepInv ==
  ASSUME IInv, NEW ok \in BOOLEAN, SweepTerminal(ok)
  PROVE  IInv'
<1> USE DEF SweepTerminal, Timer, Terminal, CloseAndRemove, CloseSession, RemoveDir, diskVars, memVars, historyVars, IInv
<1>1. StatusOK'
  BY RecordType DEF StatusOK, States
<1>2. InboxOK' /\ CountsOK'
  BY BoundsAssumption DEF InboxOK, CountsOK
<1>3. PhasesOK' /\ FlagsOK' /\ HistoryOK'
  <2>1. PhasesOK'
    BY DEF PhasesOK
  <2>2. FlagsOK'
    BY DEF FlagsOK
  <2>3. HistoryOK'
    BY DEF HistoryOK
  <2> QED
    BY <2>1, <2>2, <2>3
<1>4. LinksOK' /\ PlaceInv' /\ StageInv'
  BY DEF PhasesOK, FlagsOK, LinksOK, PlaceInv, StageInv, ShellInv, Idle, NothingOutlives
<1>5. ExitInv' /\ ShellInv' /\ ShellInputQueues'
  BY RecordType DEF PhasesOK, FlagsOK, States, PlaceInv, StageInv, Idle, ExitInv, ShellInv,
     NothingOutlives, ShellInputQueues
<1>6. NothingOutlives' /\ NeverWritesRemoved'
  BY DEF PhasesOK, FlagsOK, LinksOK, HistoryOK, PlaceInv, StageInv, Idle,
     NothingOutlives, NeverWritesRemoved
<1> QED
  BY <1>1, <1>2, <1>3, <1>4, <1>5, <1>6

LEMMA ReapInv ==
  ASSUME IInv, NEW ok \in BOOLEAN, ReapEcho(ok)
  PROVE  IInv'
<1> USE DEF ReapEcho, Timer, CloseAndRemove, CloseSession, RemoveDir, diskVars, memVars, historyVars, IInv
<1>1. StatusOK'
  BY RecordType DEF StatusOK, States
<1>2. InboxOK' /\ CountsOK'
  BY BoundsAssumption DEF InboxOK, CountsOK
<1>3. PhasesOK' /\ FlagsOK' /\ HistoryOK'
  <2>1. PhasesOK'
    BY DEF PhasesOK
  <2>2. FlagsOK'
    BY DEF FlagsOK
  <2>3. HistoryOK'
    BY DEF HistoryOK
  <2> QED
    BY <2>1, <2>2, <2>3
<1>4. LinksOK' /\ PlaceInv' /\ StageInv'
  BY DEF PhasesOK, FlagsOK, LinksOK, PlaceInv, StageInv, ShellInv, Idle, NothingOutlives
<1>5. ExitInv' /\ ShellInv' /\ ShellInputQueues'
  BY RecordType DEF PhasesOK, FlagsOK, States, PlaceInv, StageInv, Idle, ExitInv, ShellInv,
     NothingOutlives, ShellInputQueues
<1>6. NothingOutlives' /\ NeverWritesRemoved'
  BY DEF PhasesOK, FlagsOK, LinksOK, HistoryOK, PlaceInv, StageInv, Idle,
     NothingOutlives, NeverWritesRemoved
<1> QED
  BY <1>1, <1>2, <1>3, <1>4, <1>5, <1>6

LEMMA MarkInv ==
  ASSUME IInv, MarkVanished
  PROVE  IInv'
<1> USE DEF MarkVanished, Timer, diskVars, memVars, historyVars, IInv
<1>1. /\ StatusOK' /\ status'.state = status.state
      /\ detached' \in BOOLEAN /\ (detached' => hasStatus) /\ wroteGone' = wroteGone
  BY MarkType DEF PlaceInv
<1>2. InboxOK' /\ CountsOK'
  BY BoundsAssumption DEF InboxOK, CountsOK
<1>3. PhasesOK' /\ FlagsOK' /\ HistoryOK'
  BY <1>1 DEF PhasesOK, FlagsOK, HistoryOK, PlaceInv
<1>4. LinksOK' /\ PlaceInv' /\ StageInv'
  BY <1>1 DEF PhasesOK, FlagsOK, LinksOK, PlaceInv, StageInv, ShellInv, Idle, NothingOutlives
<1>5. ExitInv' /\ ShellInv' /\ ShellInputQueues'
  BY <1>1, RecordType DEF PhasesOK, FlagsOK, States, PlaceInv, StageInv, Idle, ExitInv, ShellInv,
     NothingOutlives, ShellInputQueues
<1>6. NothingOutlives' /\ NeverWritesRemoved'
  BY <1>1 DEF PhasesOK, FlagsOK, LinksOK, HistoryOK, PlaceInv, StageInv, Idle,
     NothingOutlives, NeverWritesRemoved
<1> QED
  BY <1>1, <1>2, <1>3, <1>4, <1>5, <1>6

LEMMA HostStopInv ==
  ASSUME IInv, HostStop
  PROVE  IInv'
<1> USE DEF HostStop, Timer, CloseSession, diskVars, memVars, historyVars, IInv
<1>1. StatusOK'
  BY RecordType DEF StatusOK, States
<1>2. InboxOK' /\ CountsOK'
  BY BoundsAssumption DEF InboxOK, CountsOK
<1>3. PhasesOK' /\ FlagsOK' /\ HistoryOK'
  <2>1. PhasesOK'
    BY DEF PhasesOK
  <2>2. FlagsOK'
    BY DEF FlagsOK
  <2>3. HistoryOK'
    BY DEF HistoryOK
  <2> QED
    BY <2>1, <2>2, <2>3
<1>4. LinksOK' /\ PlaceInv' /\ StageInv'
  BY DEF PhasesOK, FlagsOK, LinksOK, PlaceInv, StageInv, ShellInv, Idle, NothingOutlives
<1>5. ExitInv' /\ ShellInv' /\ ShellInputQueues'
  BY RecordType DEF PhasesOK, FlagsOK, States, PlaceInv, StageInv, Idle, ExitInv, ShellInv,
     NothingOutlives, ShellInputQueues
<1>6. NothingOutlives' /\ NeverWritesRemoved'
  BY DEF PhasesOK, FlagsOK, LinksOK, HistoryOK, PlaceInv, StageInv, Idle,
     NothingOutlives, NeverWritesRemoved
<1> QED
  BY <1>1, <1>2, <1>3, <1>4, <1>5, <1>6

LEMMA CrashInv ==
  ASSUME IInv, Crash
  PROVE  IInv'
<1> USE DEF Crash, Forget, diskVars, memVars, historyVars, IInv
<1>1. StatusOK'
  BY RecordType DEF StatusOK, States
<1>2. InboxOK' /\ CountsOK'
  BY BoundsAssumption DEF InboxOK, CountsOK
<1>3. PhasesOK' /\ FlagsOK' /\ HistoryOK'
  BY  DEF PhasesOK, FlagsOK, HistoryOK, PlaceInv
<1>4. LinksOK' /\ PlaceInv' /\ StageInv'
  BY DEF PhasesOK, FlagsOK, LinksOK, PlaceInv, StageInv, ShellInv, Idle, NothingOutlives
<1>5. ExitInv' /\ ShellInv' /\ ShellInputQueues'
  BY RecordType DEF PhasesOK, FlagsOK, States, PlaceInv, StageInv, Idle, ExitInv, ShellInv,
     NothingOutlives, ShellInputQueues
<1>6. NothingOutlives' /\ NeverWritesRemoved'
  BY DEF PhasesOK, FlagsOK, LinksOK, HistoryOK, PlaceInv, StageInv, Idle,
     NothingOutlives, NeverWritesRemoved
<1> QED
  BY <1>1, <1>2, <1>3, <1>4, <1>5, <1>6

LEMMA HostStartInv ==
  ASSUME IInv, HostStart
  PROVE  IInv'
<1> USE DEF HostStart, Forget, diskVars, memVars, historyVars, IInv
<1>1. StatusOK'
  BY RecordType DEF StatusOK, States
<1>2. InboxOK' /\ CountsOK'
  BY BoundsAssumption DEF InboxOK, CountsOK
<1>3. PhasesOK' /\ FlagsOK' /\ HistoryOK'
  BY  DEF PhasesOK, FlagsOK, HistoryOK, PlaceInv
<1>4. LinksOK' /\ PlaceInv' /\ StageInv'
  BY DEF PhasesOK, FlagsOK, LinksOK, PlaceInv, StageInv, ShellInv, Idle, NothingOutlives
<1>5. ExitInv' /\ ShellInv' /\ ShellInputQueues'
  BY RecordType DEF PhasesOK, FlagsOK, States, PlaceInv, StageInv, Idle, ExitInv, ShellInv,
     NothingOutlives, ShellInputQueues
<1>6. NothingOutlives' /\ NeverWritesRemoved'
  BY DEF PhasesOK, FlagsOK, LinksOK, HistoryOK, PlaceInv, StageInv, Idle,
     NothingOutlives, NeverWritesRemoved
<1> QED
  BY <1>1, <1>2, <1>3, <1>4, <1>5, <1>6

LEMMA SendInv ==
  ASSUME IInv, Sends
  PROVE  IInv'
<1> USE DEF Sends, Send, diskVars, memVars, historyVars, IInv
<1>1. StatusOK'
  BY RecordType DEF StatusOK, States
<1>2. InboxOK' /\ CountsOK'
  BY BoundsAssumption DEF InboxOK, CountsOK
<1>3. PhasesOK' /\ FlagsOK' /\ HistoryOK'
  BY  DEF PhasesOK, FlagsOK, HistoryOK, PlaceInv
<1>4. LinksOK' /\ PlaceInv' /\ StageInv'
  BY DEF PhasesOK, FlagsOK, LinksOK, PlaceInv, StageInv, ShellInv, Idle, NothingOutlives
<1>5. ExitInv' /\ ShellInv' /\ ShellInputQueues'
  BY RecordType DEF PhasesOK, FlagsOK, States, PlaceInv, StageInv, Idle, ExitInv, ShellInv,
     NothingOutlives, ShellInputQueues
<1>6. NothingOutlives' /\ NeverWritesRemoved'
  BY DEF PhasesOK, FlagsOK, LinksOK, HistoryOK, PlaceInv, StageInv, Idle,
     NothingOutlives, NeverWritesRemoved
<1> QED
  BY <1>1, <1>2, <1>3, <1>4, <1>5, <1>6

LEMMA ClockInv ==
  ASSUME IInv, Vanish \/ SilencePasses
  PROVE  IInv'
<1> USE DEF Vanish, SilencePasses, diskVars, memVars, historyVars, IInv
<1>1. StatusOK'
  BY RecordType DEF StatusOK, States
<1>2. InboxOK' /\ CountsOK'
  BY BoundsAssumption DEF InboxOK, CountsOK
<1>3. PhasesOK' /\ FlagsOK' /\ HistoryOK'
  BY  DEF PhasesOK, FlagsOK, HistoryOK, PlaceInv
<1>4. LinksOK' /\ PlaceInv' /\ StageInv'
  BY DEF PhasesOK, FlagsOK, LinksOK, PlaceInv, StageInv, ShellInv, Idle, NothingOutlives
<1>5. ExitInv' /\ ShellInv' /\ ShellInputQueues'
  BY RecordType DEF PhasesOK, FlagsOK, States, PlaceInv, StageInv, Idle, ExitInv, ShellInv,
     NothingOutlives, ShellInputQueues
<1>6. NothingOutlives' /\ NeverWritesRemoved'
  BY DEF PhasesOK, FlagsOK, LinksOK, HistoryOK, PlaceInv, StageInv, Idle,
     NothingOutlives, NeverWritesRemoved
<1> QED
  BY <1>1, <1>2, <1>3, <1>4, <1>5, <1>6

LEMMA OutputInv ==
  ASSUME IInv, Output
  PROVE  IInv'
<1> USE DEF Output, Late, Writes, diskVars, memVars, historyVars, IInv
<1>1. StatusOK'
  BY RecordType DEF StatusOK, States
<1>2. InboxOK' /\ CountsOK'
  BY BoundsAssumption DEF InboxOK, CountsOK
<1>3. PhasesOK' /\ FlagsOK' /\ HistoryOK'
  <2>1. PhasesOK'
    BY DEF PhasesOK
  <2>2. FlagsOK'
    BY DEF FlagsOK
  <2>3. HistoryOK'
    BY DEF HistoryOK
  <2> QED
    BY <2>1, <2>2, <2>3
<1>4. LinksOK' /\ PlaceInv' /\ StageInv'
  BY DEF PhasesOK, FlagsOK, LinksOK, PlaceInv, StageInv, ShellInv, Idle, NothingOutlives
<1>5. ExitInv' /\ ShellInv' /\ ShellInputQueues'
  BY RecordType DEF PhasesOK, FlagsOK, States, PlaceInv, StageInv, Idle, ExitInv, ShellInv,
     NothingOutlives, ShellInputQueues
<1>6. NothingOutlives' /\ NeverWritesRemoved'
  BY DEF PhasesOK, FlagsOK, LinksOK, HistoryOK, PlaceInv, StageInv, Idle,
     NothingOutlives, NeverWritesRemoved
<1> QED
  BY <1>1, <1>2, <1>3, <1>4, <1>5, <1>6

-----------------------------------------------------------------------------
(* The theorems *)

LEMMA StepInv == IInv /\ [Next]_vars => IInv'
<1> SUFFICES ASSUME IInv, [Next]_vars PROVE IInv'
  OBVIOUS
<1>1. CASE Sends \/ Vanish \/ SilencePasses \/ Output
  BY <1>1, SendInv, ClockInv, OutputInv
<1>2. CASE Adopt \/ TryStart \/ Decides \/ Spawns \/ Resolves
  BY <1>2, AdoptInv, TryStartInv, AllowInv, DenyInv, PipeSpawnedInv, PipeErrorInv, KindUpInv, KindFailsInv
  DEF Decides, Spawns, Resolves
<1>3. CASE ChildExits \/ KindExits \/ Consume
  BY <1>3, ChildExitsInv, KindExitsInv, ConsumeDataInv, ConsumeBeatInv, ConsumeDetachInv, ConsumeCloseInv
  DEF Consume
<1>4. CASE \E ok \in BOOLEAN : CleanupTimer(ok) \/ SweepTerminal(ok) \/ ReapEcho(ok)
  BY <1>4, CleanupInv, SweepInv, ReapInv
<1>5. CASE MarkVanished \/ HostStop \/ Crash \/ HostStart
  BY <1>5, MarkInv, HostStopInv, CrashInv, HostStartInv
<1>6. CASE UNCHANGED vars
  BY <1>6 DEF vars, diskVars, memVars, historyVars, IInv, StatusOK, InboxOK, CountsOK, PhasesOK,
     FlagsOK, HistoryOK, LinksOK, PlaceInv, StageInv, Idle, ExitInv, ShellInv,
     NothingOutlives, NeverWritesRemoved, ShellInputQueues
<1> QED
  BY <1>1, <1>2, <1>3, <1>4, <1>5, <1>6 DEF Next

THEOREM SessionInv == Spec => []IInv
BY InitInv, StepInv, PTL DEF Spec

\* Every reachable state is well formed: no process without a callback that
\* ends it, no detached flag without a record that says so.
THEOREM SessionTypes == Spec => []TypeOK
<1>1. IInv => TypeOK
  BY TypeParts DEF IInv
<1> QED
  BY <1>1, SessionInv, PTL

\* A closed session and a stopped host leave neither a process without its
\* signal nor a kind without its onClose (Session.close, startKind).
THEOREM SessionLeavesNothing == Spec => []NothingOutlives
<1>1. IInv => NothingOutlives
  BY DEF IInv
<1> QED
  BY <1>1, SessionInv, PTL

\* No callback writes into a directory that was removed: the late-callback
\* guards and the order of close and removal suffice.
THEOREM SessionWritesInPlace == Spec => []NeverWritesRemoved
<1>1. IInv => NeverWritesRemoved
  BY DEF IInv
<1> QED
  BY <1>1, SessionInv, PTL

\* A shell's input is never consumed while there is neither a process to
\* take it nor an answer to the spawn (scanOnce's approved gate).
THEOREM ShellsLoseNoInput == Spec => []ShellInputQueues
<1>1. IInv => ShellInputQueues
  BY DEF IInv
<1> QED
  BY <1>1, SessionInv, PTL

\* Exited is the last word of status.json over all callbacks and restarts.
LEMMA ExitedStays ==
  ASSUME IInv, [Next]_vars, status.state = "exited"
  PROVE  status'.state = "exited"
<1> USE DEF IInv, Idle
<1>1. CASE Mark(TRUE) \/ Mark(FALSE)
  BY <1>1 DEF Mark, Record
<1>2. CASE TryStart \/ Deny \/ Allow
  BY <1>2 DEF TryStart, Deny, Allow, StillWanted, ExitInv, PlaceInv, StageInv, diskVars
<1>3. CASE PipeSpawned \/ PipeError
  BY <1>3 DEF PipeSpawned, PipeError, ExitInv, PlaceInv, StageInv, NothingOutlives, diskVars
<1>4. CASE KindUp \/ KindFails
  BY <1>4 DEF KindUp, KindFails, ExitInv, PlaceInv, StageInv, diskVars
<1>5. CASE ChildExits \/ KindExits \/ ConsumeClose
  BY <1>5 DEF ChildExits, KindExits, ConsumeClose, SetStatus, Record, diskVars
<1>6. CASE ConsumeData \/ ConsumeBeat \/ ConsumeDetach \/ MarkVanished
  BY <1>1, <1>6 DEF ConsumeData, ConsumeBeat, ConsumeDetach, MarkVanished
<1>7. CASE UNCHANGED status
  BY <1>7
<1>8. CASE UNCHANGED vars \/ Sends \/ Vanish \/ SilencePasses \/ Output \/ Adopt
  BY <1>7, <1>8 DEF vars, Sends, Send, Vanish, SilencePasses, Output, Adopt, diskVars
<1>9. CASE \E ok \in BOOLEAN : CleanupTimer(ok) \/ SweepTerminal(ok) \/ ReapEcho(ok)
  BY <1>7, <1>9 DEF CleanupTimer, SweepTerminal, ReapEcho, CloseAndRemove
<1>10. CASE HostStop \/ Crash \/ HostStart
  BY <1>7, <1>10 DEF HostStop, Crash, HostStart, diskVars
<1> QED
  BY <1>2, <1>3, <1>4, <1>5, <1>6, <1>8, <1>9, <1>10 DEF Next, Decides, Spawns, Resolves, Consume

THEOREM SessionExitIsFinal == Spec => ExitedIsFinal
<1>1. IInv /\ [Next]_vars => [status.state = "exited" => status'.state = "exited"]_status
  BY ExitedStays
<1> QED
  BY <1>1, SessionInv, PTL DEF Spec, ExitedIsFinal

-----------------------------------------------------------------------------
(* The marker.  A record is there only once the session is served or done; *)
(* until then, and without one, nothing is marked.                         *)

MarkerInv ==
  /\ phase = "unknown" /\ dir => ~hasStatus
  /\ ~done /\ (phase \in {"adopted", "started"} \/ handler = "starting") => ~hasStatus
  /\ phase # "unknown" /\ ~done /\ hasStatus /\ status.state = "running"
       => status.detached = detached

\* setDetached brings the record and the host's own flag to the same value.
LEMMA MarkAgrees ==
  ASSUME NEW d \in BOOLEAN, Mark(d), hasStatus,
         status.state = "running" => status.detached = detached
  PROVE  status'.state = "running" => status'.detached = detached'
BY DEF Mark, Record

LEMMA MarkerStep ==
  ASSUME IInv, MarkerInv, [Next]_vars
  PROVE  MarkerInv'
<1> USE DEF IInv, MarkerInv, Idle
<1> DEFINE Still == UNCHANGED <<dir, phase, hasStatus, done, handler, status, detached>>
<1>1. CASE Still
  BY <1>1
<1>2. CASE UNCHANGED vars \/ Sends \/ Vanish \/ SilencePasses \/ Output \/ PipeSpawned
  BY <1>1, <1>2 DEF vars, Sends, Send, Vanish, SilencePasses, Output, PipeSpawned,
                    diskVars, memVars, historyVars
<1>3. CASE Adopt
  BY <1>3 DEF Adopt, AdoptsAsDone
<1>4. CASE TryStart
  <2>1. phase = "adopted" /\ ~done /\ ~hasStatus /\ phase' = "started"
    BY <1>4 DEF TryStart
  <2>2. done' \/ UNCHANGED <<done, hasStatus>>
    BY <1>4 DEF TryStart, Refuse
  <2> QED
    BY <2>1, <2>2
<1>5. CASE Deny
  BY <1>5 DEF Deny, StillWanted, Refuse, SetStatus, PlaceInv
<1>6. CASE Allow
  <2>1. CASE ~StillWanted
    BY <1>6, <2>1 DEF Allow
  <2>2. CASE StillWanted
    <3>1. phase = "started" /\ ~done /\ ~hasStatus /\ ~detached /\ handler = "none"
      BY <1>6, <2>2 DEF Allow, StillWanted, StageInv, LinksOK
    <3>2. phase' = "approved" /\ UNCHANGED <<dir, detached>>
      BY <1>6, <2>2 DEF Allow
    <3>3. CASE PtyUp \/ PipeUp
      <4>1. status' = Record("running", FALSE) /\ handler' = handler /\ detached = FALSE
        BY <3>1, <3>3 DEF PtyUp, PipeUp, SetStatus, FlagsOK
      <4> QED
        BY <3>1, <3>2, <4>1 DEF Record
    <3>4. CASE PipeThrows
      BY <3>1, <3>2, <3>4 DEF PipeThrows, Refuse
    <3>5. CASE handler' = "starting" /\ UNCHANGED <<status, hasStatus, done>>
      BY <3>1, <3>2, <3>5
    <3> QED
      BY <1>6, <2>2, <3>3, <3>4, <3>5 DEF Allow
  <2> QED
    BY <2>1, <2>2
<1>7. CASE PipeError
  BY <1>7 DEF PipeError, SetStatus, Record, PlaceInv, StageInv
<1>8. CASE KindUp
  <2>1. UNCHANGED <<phase, dir, done, detached>> /\ handler' # "starting" /\ handler = "starting"
    BY <1>8 DEF KindUp
  <2>2. phase # "unknown" \/ ~dir
    BY <2>1 DEF PlaceInv
  <2>3. CASE done
    BY <2>1, <2>2, <2>3
  <2>4. CASE ~done
    <3>1. phase \notin {"adopted", "started"} /\ detached = FALSE
      BY <2>1, <2>4 DEF StageInv, LinksOK, FlagsOK
    <3>2. status' = Record("running", FALSE)
      BY <1>8, <2>4 DEF KindUp, SetStatus
    <3> QED
      BY <2>1, <2>2, <3>1, <3>2 DEF Record
  <2> QED
    BY <2>3, <2>4
<1>9. CASE KindFails
  BY <1>9 DEF KindFails, Refuse, PlaceInv
<1>10. CASE ChildExits
  BY <1>10 DEF ChildExits, Late, SetStatus, Record, PlaceInv, StageInv
<1>11. CASE KindExits
  BY <1>11 DEF KindExits, SetStatus, Record, PlaceInv, StageInv
<1>12. CASE ConsumeData \/ ConsumeBeat \/ ConsumeDetach \/ MarkVanished
  <2>1. PICK d \in BOOLEAN : Mark(d)
    BY <1>12 DEF ConsumeData, ConsumeBeat, ConsumeDetach, MarkVanished
  <2>2. UNCHANGED <<dir, phase, hasStatus, done, handler>> /\ phase = "approved"
    BY <1>12 DEF ConsumeData, ConsumeBeat, ConsumeDetach, MarkVanished, Receive, Served
  <2>3. CASE ~hasStatus \/ done
    BY <2>2, <2>3
  <2>4. CASE hasStatus /\ ~done
    BY <2>1, <2>2, <2>4, MarkAgrees
  <2> QED
    BY <2>3, <2>4
<1>13. CASE ConsumeClose
  BY <1>13 DEF ConsumeClose, Receive, Served, CloseSession, PlaceInv
<1>14. CASE \E ok \in BOOLEAN : CleanupTimer(ok) \/ SweepTerminal(ok) \/ ReapEcho(ok)
  <2>1. PICK ok \in BOOLEAN : CleanupTimer(ok) \/ SweepTerminal(ok) \/ ReapEcho(ok)
    BY <1>14
  <2>2. UNCHANGED <<hasStatus, status, detached>> /\ RemoveDir(ok)
    BY <2>1 DEF CleanupTimer, SweepTerminal, ReapEcho, CloseAndRemove
  <2>3. done'
    BY <2>1 DEF CleanupTimer, SweepTerminal, ReapEcho, CloseAndRemove, CloseSession, StageInv
  <2> QED
    BY <2>2, <2>3 DEF RemoveDir
<1>15. CASE HostStop
  BY <1>15 DEF HostStop, CloseSession, diskVars, PlaceInv
<1>16. CASE Crash \/ HostStart
  BY <1>16 DEF Crash, HostStart, Forget
<1> QED
  BY <1>2, <1>3, <1>4, <1>5, <1>6, <1>7, <1>8, <1>9, <1>10, <1>11, <1>12, <1>13, <1>14,
     <1>15, <1>16 DEF Next, Decides, Spawns, Resolves, Consume

\* While a session runs, the marker in status.json is the host's own view of
\* its client (setDetached and setStatus write it in all the code's orders).
THEOREM SessionMarkerIsTrue == Spec => []MarkerIsTrue
<1>1. Init => MarkerInv
  BY DEF Init, Fresh, MarkerInv
<1>2. IInv /\ MarkerInv /\ [Next]_vars => MarkerInv'
  BY MarkerStep
<1>3. MarkerInv => MarkerIsTrue
  BY DEF MarkerInv, MarkerIsTrue, Served
<1> QED
  BY <1>1, <1>2, <1>3, SessionInv, PTL DEF Spec

=============================================================================
