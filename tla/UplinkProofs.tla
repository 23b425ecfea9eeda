---------------------------- MODULE UplinkProofs ----------------------------
(***************************************************************************)
(* The uplink's safety for every mode, retry budget, number of frames,     *)
(* every browser outcome and every failure of the host: types, no gap      *)
(* below the next chunk number, and the implementation of the FIFO         *)
(* channel.                                                                *)
(***************************************************************************)
EXTENDS Uplink, SequenceTheorems, WellFoundedInduction, TLAPS

\* Chunks are non-empty and cover the frames taken so far.
CutsInv ==
  /\ \A i \in 1..Len(cuts) : i <= cuts[i] /\ Before(i) < cuts[i] /\ cuts[i] <= sent
  /\ sent <= MaxSends + 1
  /\ ~closing => sent <= MaxSends

\* The number being committed is that of the newest chunk.
CommitInv ==
  /\ commit.phase # "idle" => outSeq = Len(cuts) /\ ~pumpError
  /\ commit.phase = "idle" /\ ~pumpError => outSeq = Len(cuts) + 1
  /\ outSeq \in {Len(cuts), Len(cuts) + 1}
  /\ commit.lane = "dir" /\ Mode = "auto" => commit.attempt = 0

\* There is no chunk before there is a lane.
ReadyInv == uplinkReady # "open" => cuts = <<>> /\ commit.phase = "idle"

\* Nothing on disk, and nothing in a listing, that was not begun.
DirInv == Present \subseteq 1..Len(cuts)
ScanInv ==
  /\ DOMAIN scan.names \subseteq 1..Len(cuts)
  /\ scan.phase # "idle" => nextInSeq \in DOMAIN scan.names

IInv == TypeOK /\ CutsInv /\ CommitInv /\ ReadyInv /\ DirInv /\ ScanInv /\ NoGap

\* The steps by which the lane opens or fails to.
Readying == Spawned \/ AskAttach \/ GrantRead \/ AttachDone \/ ReadyFails

-----------------------------------------------------------------------------
(* Lemmas about the operators *)

\* A chunk's frames are a sequence of naturals, as many as between its cuts.
LEMMA FramesOfType ==
  ASSUME TypeOK, CutsInv, NEW s \in 1..Len(cuts)
  PROVE  /\ FramesOf(s) \in Seq(Nat)
         /\ Len(FramesOf(s)) = cuts[s] - Before(s)
         /\ Before(s) \in Nat /\ cuts[s] \in Nat
         /\ \A i \in 1..Len(FramesOf(s)) : FramesOf(s)[i] = Before(s) + i
<1>1. Before(s) \in Nat /\ cuts[s] \in Nat /\ cuts[s] - Before(s) \in Nat
  BY SMTT(60) DEF TypeOK, CutsInv, Before
<1>2. FramesOf(s) \in [1..(cuts[s] - Before(s)) -> Nat]
  BY <1>1 DEF FramesOf
<1> QED
  BY <1>1, <1>2 DEF FramesOf

\* There are never more chunks than chunk numbers.
LEMMA ChunkBound ==
  ASSUME TypeOK, CutsInv
  PROVE  Len(cuts) \in Nat /\ Len(cuts) <= MaxSends + 1 /\ Taken \in Nat /\ Taken <= sent /\ Len(cuts) <= Taken
<1>1. Len(cuts) \in Nat /\ (cuts # <<>> => Len(cuts) \in 1..Len(cuts) /\ cuts[Len(cuts)] \in Nat)
  BY DEF TypeOK
<1>2. cuts = <<>> => Len(cuts) = 0
  OBVIOUS
<1> QED
  BY <1>1, <1>2, BoundsAssumption DEF TypeOK, CutsInv, Taken

\* The base of a non-empty directory is its smallest chunk number.
LEMMA BaseIsSmallest ==
  ASSUME TypeOK, Present # {}
  PROVE  Base \in Present /\ \A t \in Present : Base <= t
<1>1. Present \in SUBSET Nat
  <2>1. Seqs \subseteq Nat
    BY BoundsAssumption DEF Seqs
  <2>2. Present \subseteq Seqs
    BY DEF TypeOK, Present
  <2> QED
    BY <2>1, <2>2
<1>2. PICK s \in Present : \A t \in Present : ~(<<t, s>> \in OpToRel(<, Nat))
  BY <1>1, WFMin, NatLessThanWellFounded, Zenon
<1>3. \A t \in Present : ~(t < s)
  BY <1>1, <1>2 DEF OpToRel
<1>4. \E x \in Present : \A t \in Present : x <= t
  BY <1>1, <1>3
<1> QED
  BY <1>4 DEF Base

-----------------------------------------------------------------------------
(* The inductive invariant *)

\* Nothing is sent, on disk or consumed yet.
LEMMA InitEstablishesIInv == Init => IInv
<1> SUFFICES ASSUME Init PROVE IInv
  OBVIOUS
<1>1. [s \in {} |-> "file"] \in [{} -> Lanes]
  OBVIOUS
<1>2. NoScan.names \in Listings /\ DOMAIN NoScan.names = {}
  BY <1>1 DEF NoScan, Listings
<1>3. NoScan \in [phase : {"idle", "take", "taken"}, names : Listings]
  BY <1>2 DEF NoScan
<1>4. NoCommit \in [phase : {"idle", "try", "open"}, lane : Lanes, attempt : 0..MaxAttempts]
  BY AttemptsAssumption DEF NoCommit, Lanes
<1>5. TypeOK
  <2>1. <<>> \in Seq(Nat)
    OBVIOUS
  <2>2. files \in [Seqs -> {"none", "empty", "full"}]
    BY DEF Init
  <2>3. sent \in Nat /\ outSeq \in Nat \ {0} /\ nextInSeq \in Nat /\ faults \in Nat
    BY DEF Init
  <2>4. dirs \subseteq Seqs /\ acked \subseteq Seqs /\ cuts \in Seq(Nat) /\ delivered \in Seq(Nat)
    BY <2>1 DEF Init
  <2>5. pumpError \in BOOLEAN /\ closing \in BOOLEAN /\ closed \in BOOLEAN /\ midAttach \in BOOLEAN
        /\ uplinkReady \in {"init", "asked", "granted", "open", "failed", "refused"}
    BY DEF Init
  <2>6. commit \in [phase : {"idle", "try", "open"}, lane : Lanes, attempt : 0..MaxAttempts]
    BY <1>4 DEF Init
  <2>7. scan \in [phase : {"idle", "take", "taken"}, names : Listings]
    BY <1>3 DEF Init
  <2> QED
    BY <2>2, <2>3, <2>4, <2>5, <2>6, <2>7 DEF TypeOK
<1>6. CutsInv /\ CommitInv /\ ReadyInv /\ DirInv /\ ScanInv /\ NoGap
  BY <1>2, BoundsAssumption
  DEF Init, CutsInv, CommitInv, ReadyInv, DirInv, ScanInv, NoGap, Present, NoCommit, NoScan
<1> QED
  BY <1>5, <1>6 DEF IInv

\* The client's steps that touch neither a chunk nor the disk.
LEMMA QuietStepKeepsIInv ==
  ASSUME IInv, Send \/ Readying \/ PumpFails \/ Close \/ Teardown \/ UNCHANGED vars
  PROVE  IInv'
<1> USE BoundsAssumption DEF IInv, vars, clientVars, attachVars, dirVars, hostVars, history
<1>0. CASE Readying
  <2>1. /\ UNCHANGED <<sent, cuts, outSeq, commit, pumpError, closing, closed, midAttach,
                       dirVars, hostVars, history>>
        /\ uplinkReady' \in {"asked", "granted", "open", "failed", "refused"}
        /\ uplinkReady # "open"
    BY <1>0 DEF Readying, Spawned, AskAttach, GrantRead, AttachDone, ReadyFails, ReadyStep
  <2>2. TypeOK'
    BY <2>1 DEF TypeOK
  <2>3. CutsInv' /\ CommitInv' /\ ReadyInv' /\ DirInv' /\ ScanInv' /\ NoGap'
    BY <2>1 DEF CutsInv, Before, CommitInv, ReadyInv, DirInv, ScanInv, NoGap, Readable, Present
  <2> QED
    BY <2>2, <2>3
<1>1. CASE Send \/ PumpFails \/ Close \/ Teardown \/ UNCHANGED vars
  <2>1. TypeOK'
    <3>1. CASE Send
      BY <3>1 DEF TypeOK, Send
    <3>2. CASE Close
      BY <3>2 DEF TypeOK, Close, Holding
    <3>3. CASE Teardown
      BY <3>3 DEF TypeOK, Teardown
    <3>4. CASE PumpFails
      BY <3>4 DEF TypeOK, PumpFails
    <3>5. CASE UNCHANGED vars
      BY <3>5 DEF TypeOK
    <3> QED
      BY <1>1, <3>1, <3>2, <3>3, <3>4, <3>5
  <2>2. CutsInv'
    BY <1>1, SMTT(30) DEF TypeOK, CutsInv, Before, Send, PumpFails, Close, Teardown
  <2>3. CommitInv' /\ ReadyInv'
    BY <1>1 DEF TypeOK, CommitInv, ReadyInv, Send, PumpFails, Close, Teardown
  <2>4. DirInv' /\ ScanInv' /\ NoGap'
    BY <1>1 DEF DirInv, ScanInv, NoGap, Readable, Present, Send, PumpFails, Close, Teardown
  <2> QED
    BY <2>1, <2>2, <2>3, <2>4
<1> QED
  BY <1>0, <1>1

\* A new chunk gets the number after the last one.
LEMMA TakeBatchKeepsIInv == ASSUME IInv, TakeBatch PROVE IInv'
<1> USE BoundsAssumption, AttemptsAssumption DEF IInv, attachVars, dirVars, hostVars, history
<1>0. FirstLanes \subseteq Lanes
  BY ModeAssumption DEF FirstLanes, Lanes
<1>1. TypeOK'
  BY <1>0 DEF TypeOK, TakeBatch
<1>2. Len(cuts') = Len(cuts) + 1 /\ cuts'[Len(cuts) + 1] = sent /\ \A i \in 1..Len(cuts) : cuts'[i] = cuts[i]
  BY DEF TypeOK, TakeBatch
<1>3. CutsInv'
  <2>1. Taken < sent /\ Len(cuts) <= Taken /\ Taken \in Nat /\ Len(cuts) \in Nat
    BY ChunkBound DEF TakeBatch
  <2>2. \A i \in 1..Len(cuts) : Before(i)' = Before(i)
    BY <1>2, <2>1 DEF Before
  <2>3. \A i \in {Len(cuts) + 1} : Before(i)' = Taken
    <3>1. cuts = <<>> <=> Len(cuts) = 0
      BY DEF TypeOK
    <3> QED
      BY <1>2, <2>1, <3>1 DEF Before, Taken
  <2>4. \A i \in 1..Len(cuts') :
          i <= cuts'[i] /\ Before(i)' < cuts'[i] /\ cuts'[i] <= sent
    BY <1>2, <2>1, <2>2, <2>3, SMTT(30) DEF CutsInv, TypeOK
  <2> QED
    BY <2>4 DEF CutsInv, TakeBatch
<1>4. CommitInv' /\ ReadyInv'
  BY <1>2 DEF TypeOK, CommitInv, ReadyInv, TakeBatch
<1>5. DirInv' /\ ScanInv' /\ NoGap'
  BY <1>2 DEF TypeOK, DirInv, ScanInv, NoGap, Readable, Present, TakeBatch
<1> QED
  BY <1>1, <1>3, <1>4, <1>5

\* However a commit ends, the number advances only if it succeeded.
LEMMA CommitEnd ==
  ASSUME TypeOK, CommitInv, commit.phase # "idle", UNCHANGED cuts, CommitDone \/ CommitFailed
  PROVE  /\ commit' \in [phase : {"idle", "try", "open"}, lane : Lanes, attempt : 0..MaxAttempts]
         /\ outSeq' \in Nat \ {0} /\ pumpError' \in BOOLEAN
         /\ CommitInv'
         /\ outSeq' = IF CommitDone THEN outSeq + 1 ELSE outSeq
<1> DEFINE Commits == [phase : {"idle", "try", "open"}, lane : Lanes, attempt : 0..MaxAttempts]
<1>0. commit \in Commits /\ outSeq \in Nat \ {0} /\ pumpError \in BOOLEAN
  BY DEF TypeOK
<1> USE <1>0, AttemptsAssumption DEF CommitInv, Lanes
<1>1. CASE CommitDone
  BY <1>1 DEF CommitDone, NoCommit
<1>2. CASE CommitFailed
  <2>1. outSeq' = outSeq /\ ~CommitDone
    BY <1>2 DEF CommitFailed, CommitDone
  <2>2. CASE commit.lane = "dir" /\ Mode = "auto"
    <3>1. commit' = [phase |-> "try", lane |-> "file", attempt |-> 1] /\ pumpError' = pumpError
      BY <1>2, <2>2 DEF CommitFailed
    <3> QED
      BY <2>1, <3>1
  <2>3. CASE ~(commit.lane = "dir" /\ Mode = "auto") /\ commit.attempt + 1 < MaxAttempts /\ ~closed
    <3>1. commit' = [commit EXCEPT !.phase = "try", !.attempt = @ + 1] /\ pumpError' = pumpError
      BY <1>2, <2>3 DEF CommitFailed
    <3>2. commit' = [phase |-> "try", lane |-> commit.lane, attempt |-> commit.attempt + 1]
      BY <3>1
    <3>3. commit.attempt + 1 \in 0..MaxAttempts /\ commit.lane \in Lanes
      BY <2>3
    <3> QED
      BY <2>1, <2>3, <3>1, <3>2, <3>3
  <2>4. CASE ~(commit.lane = "dir" /\ Mode = "auto") /\ ~(commit.attempt + 1 < MaxAttempts /\ ~closed)
    <3>1. commit' = [phase |-> "idle", lane |-> "file", attempt |-> 0] /\ pumpError' = TRUE
      BY <1>2, <2>4 DEF CommitFailed, NoCommit
    <3> QED
      BY <2>1, <3>1
  <2> QED
    BY <2>2, <2>3, <2>4
<1> QED
  BY <1>1, <1>2

\* A browser commit adds to the directory, never under another number, and
\* what it reports as done is there to be read.
LEMMA CommitKeepsIInv == ASSUME IInv, DirCommit \/ FileOpen \/ FileClose PROVE IInv'
<1> USE DEF IInv, attachVars, hostVars, history
<1>1. outSeq \in 1..Len(cuts) /\ outSeq \in Seqs /\ outSeq = Len(cuts) /\ commit.phase # "idle"
  BY ChunkBound, BoundsAssumption, SMTT(30) DEF TypeOK, CommitInv, DirCommit, FileOpen, FileClose, Seqs
<1>2. UNCHANGED <<sent, cuts, closing, closed, uplinkReady, midAttach, nextInSeq, scan, delivered, acked, faults>>
  BY DEF DirCommit, FileOpen, FileClose
<1>3. CutsInv' /\ ScanInv' /\ ReadyInv'
  BY <1>1, <1>2 DEF CutsInv, ScanInv, ReadyInv, Before
<1>4. /\ dirs \subseteq dirs' /\ dirs' \subseteq dirs \cup {outSeq}
      /\ files' \in [Seqs -> {"none", "empty", "full"}]
      /\ \A s \in Seqs : files'[s] # "none" => files[s] # "none" \/ s = outSeq
      /\ \A s \in Seqs : files[s] = "full" => files'[s] = "full"
  BY <1>1 DEF TypeOK, DirCommit, FileOpen, FileClose
<1>5. /\ commit' \in [phase : {"idle", "try", "open"}, lane : Lanes, attempt : 0..MaxAttempts]
      /\ outSeq' \in Nat \ {0} /\ pumpError' \in BOOLEAN
      /\ CommitInv'
  <2>1. CASE DirCommit \/ FileClose
    BY <1>1, <1>2, <2>1, CommitEnd DEF DirCommit, FileClose
  <2>2. CASE FileOpen
    BY <1>2, <2>2 DEF FileOpen, TypeOK, CommitInv
  <2> QED
    BY <2>1, <2>2
<1>6. TypeOK'
  BY <1>1, <1>2, <1>4, <1>5 DEF TypeOK, DirCommit, FileOpen, FileClose
<1>7. DirInv'
  <2>1. \A s \in dirs' : s \in Present \/ s = outSeq
    BY <1>4 DEF Present
  <2>2. \A s \in Seqs : files'[s] # "none" => s \in Present \/ s = outSeq
    BY <1>4 DEF Present
  <2>3. \A s \in Present' : s \in Present \/ s = outSeq
    BY <2>1, <2>2 DEF Present
  <2> QED
    BY <1>1, <1>2, <2>3 DEF DirInv
<1>8. NoGap'
  <2>1. \A s \in Nat : Readable(s) /\ s \in Seqs => Readable(s)'
    BY <1>4 DEF Readable
  <2>2. outSeq' = outSeq \/ (outSeq' = outSeq + 1 /\ (outSeq \in dirs' \/ files'[outSeq] = "full"))
    BY <1>1, <1>2, CommitEnd DEF DirCommit, FileOpen, FileClose, TypeOK, CommitFailed
  <2>3. outSeq \in Nat /\ outSeq <= MaxSends + 1
    BY <1>1, BoundsAssumption DEF Seqs
  <2>4. \A s \in 1..outSeq : s \in Nat /\ s \in Seqs
    BY <2>3, BoundsAssumption DEF Seqs
  <2>5. \A s \in 1..(outSeq - 1) : s \in acked \/ Readable(s)'
    BY <2>1, <2>3, <2>4 DEF NoGap
  <2>7. \A s \in 1..(outSeq' - 1) : s \in 1..(outSeq - 1) \/ (s = outSeq /\ outSeq' = outSeq + 1)
    BY <2>2, <2>3
  <2> QED
    BY <1>2, <2>2, <2>3, <2>5, <2>7 DEF NoGap, Readable
<1> QED
  BY <1>3, <1>5, <1>6, <1>7, <1>8

\* Listing, waiting for a torn chunk, taking a chunk, failing to delete it
\* and restarting leave the directory and the client alone.
LEMMA ReadingKeepsIInv ==
  ASSUME IInv, ScanList \/ ScanTorn \/ ScanTake \/ ScanAckThrows \/ Restart
  PROVE  IInv'
<1> USE BoundsAssumption DEF IInv, clientVars, attachVars, dirVars, history
<1>1. UNCHANGED <<sent, cuts, outSeq, commit, pumpError, closing, closed, uplinkReady, midAttach,
                  dirs, files, acked>>
  BY DEF ScanList, ScanTorn, ScanTake, ScanAckThrows, Restart
<1>2. CutsInv' /\ CommitInv' /\ ReadyInv' /\ DirInv' /\ NoGap'
  BY <1>1 DEF CutsInv, CommitInv, ReadyInv, DirInv, NoGap, Before, Present, Readable
<1>3. Present \subseteq Seqs
  BY DEF TypeOK, Present
<1>4. NoScan.phase = "idle" /\ NoScan.names \in Listings /\ DOMAIN NoScan.names = {}
      /\ NoScan \in [phase : {"idle", "take", "taken"}, names : Listings]
  <2>1. [s \in {} |-> "file"] \in [{} -> Lanes]
    OBVIOUS
  <2> QED
    BY <2>1 DEF NoScan, Listings
<1>5. CASE ScanList
  <2>1. PICK names \in [Present -> Lanes] : scan' = [phase |-> "take", names |-> names]
    BY <1>5 DEF ScanList
  <2>2. names \in Listings
    BY <1>3 DEF Listings
  <2>3. nextInSeq' \in Present /\ UNCHANGED <<delivered, faults>>
    BY <1>5 DEF ScanList
  <2>4. ScanInv'
    BY <1>1, <2>1, <2>3 DEF ScanInv, DirInv
  <2>5. nextInSeq' \in Nat
    BY <1>3, <2>3 DEF Seqs
  <2>6. TypeOK'
    BY <1>1, <2>1, <2>2, <2>3, <2>5 DEF TypeOK
  <2> QED
    BY <1>2, <2>4, <2>6
<1>6. CASE ScanTorn \/ ScanAckThrows \/ Restart
  <2>1. scan' = NoScan /\ nextInSeq' \in Nat /\ faults' \in Nat /\ delivered' = delivered
    BY <1>6 DEF ScanTorn, ScanAckThrows, Restart, TypeOK
  <2>2. ScanInv'
    BY <1>1, <1>4, <2>1 DEF ScanInv
  <2>3. TypeOK'
    BY <1>1, <1>4, <2>1 DEF TypeOK
  <2> QED
    BY <1>2, <2>2, <2>3
<1>7. CASE ScanTake
  <2>1. nextInSeq \in 1..Len(cuts)
    BY <1>7 DEF ScanInv, ScanTake
  <2>2. delivered' \in Seq(Nat)
    BY <1>7, <2>1, FramesOfType DEF ScanTake, TypeOK
  <2>3. scan' = [phase |-> "taken", names |-> scan.names] /\ UNCHANGED <<nextInSeq, faults>>
    BY <1>7 DEF ScanTake, TypeOK
  <2>4. ScanInv'
    BY <1>1, <1>7, <2>3 DEF ScanInv, ScanTake
  <2>5. TypeOK'
    BY <1>1, <2>2, <2>3 DEF TypeOK
  <2> QED
    BY <1>2, <2>4, <2>5
<1> QED
  BY <1>5, <1>6, <1>7

\* Deleting a chunk makes it acknowledged, and no other chunk unreadable.
LEMMA AckKeepsIInv == ASSUME IInv, ScanAck PROVE IInv'
<1> USE BoundsAssumption DEF IInv, clientVars, attachVars
<1>1. nextInSeq \in 1..Len(cuts) /\ nextInSeq \in Seqs /\ nextInSeq \in Nat
  BY ChunkBound DEF ScanInv, ScanAck, TypeOK, Seqs
<1>2. UNCHANGED <<sent, cuts, outSeq, commit, pumpError, closing, closed, uplinkReady, midAttach,
                  delivered, faults>>
  BY DEF ScanAck
<1>3. CutsInv' /\ CommitInv' /\ ReadyInv'
  BY <1>2 DEF CutsInv, CommitInv, ReadyInv, Before
<1>4. /\ dirs' \subseteq dirs /\ files' \in [Seqs -> {"none", "empty", "full"}]
      /\ \A s \in Seqs : s # nextInSeq => files'[s] = files[s] /\ (s \in dirs => s \in dirs')
      /\ \A s \in Seqs : files'[s] # "none" => files[s] # "none"
  BY <1>1 DEF ScanAck, TypeOK
<1>5. DirInv'
  <2>1. Present' \subseteq Present
    BY <1>4 DEF Present
  <2> QED
    BY <1>2, <2>1 DEF DirInv
<1>6. ScanInv' /\ scan' \in [phase : {"idle", "take", "taken"}, names : Listings]
  <2>1. CASE nextInSeq + 1 \in DOMAIN scan.names
    <3>1. scan' = [phase |-> "take", names |-> scan.names] /\ nextInSeq' = nextInSeq + 1
      BY <2>1 DEF ScanAck, TypeOK
    <3> QED
      BY <1>2, <2>1, <3>1 DEF ScanInv, TypeOK
  <2>2. CASE nextInSeq + 1 \notin DOMAIN scan.names
    <3>1. scan' = NoScan
      BY <2>2 DEF ScanAck
    <3>2. [s \in {} |-> "file"] \in [{} -> Lanes]
      OBVIOUS
    <3> QED
      BY <3>1, <3>2 DEF ScanInv, NoScan, Listings
  <2> QED
    BY <2>1, <2>2
<1>7. acked' = acked \cup {nextInSeq} /\ nextInSeq' = nextInSeq + 1
  BY DEF ScanAck
<1>8. TypeOK'
  BY <1>1, <1>2, <1>4, <1>6, <1>7 DEF TypeOK
<1>9. NoGap'
  <2>1. \A s \in 1..(outSeq - 1) : s \in Seqs
    BY ChunkBound DEF CommitInv, TypeOK, Seqs
  <2>2. \A s \in Seqs : s # nextInSeq /\ Readable(s) => Readable(s)'
    BY <1>4 DEF Readable
  <2> QED
    BY <1>2, <1>7, <2>1, <2>2 DEF NoGap
<1> QED
  BY <1>3, <1>5, <1>6, <1>8, <1>9

\* Every step of either program keeps the invariant.
LEMMA StepKeepsIInv == ASSUME IInv, [Next]_vars PROVE IInv'
  BY QuietStepKeepsIInv, TakeBatchKeepsIInv, CommitKeepsIInv, ReadingKeepsIInv, AckKeepsIInv
  DEF Next, Readying

-----------------------------------------------------------------------------
(* The theorems that hold whatever fails *)

\* Types, the bound on chunk numbers and the retry budget.
THEOREM UplinkTypes == Spec => []TypeOK
<1>1. IInv /\ [Next]_vars => IInv'
  BY StepKeepsIInv
<1>2. IInv => TypeOK
  BY DEF IInv
<1> QED
  BY InitEstablishesIInv, <1>1, <1>2, PTL DEF Spec

\* Every chunk the client counts as committed is readable or was consumed,
\* through lane changes, retries, failed deletions and restarts.
THEOREM UplinkHasNoGap == Spec => []NoGap
<1>1. IInv /\ [Next]_vars => IInv'
  BY StepKeepsIInv
<1>2. IInv => NoGap
  BY DEF IInv
<1> QED
  BY InitEstablishesIInv, <1>1, <1>2, PTL DEF Spec

\* Once torn down, the client neither sends nor commits.
ClosedInv ==
  closed => closing /\ commit.phase = "idle" /\ (Taken = sent \/ pumpError \/ midAttach)

\* No step of either program wakes a closed client.
LEMMA StepKeepsClosed == ASSUME IInv, ClosedInv, [Next]_vars PROVE ClosedInv'
<1> USE DEF ClosedInv, Taken, clientVars, attachVars
<1>0. CASE Readying
  BY <1>0 DEF Readying, Spawned, AskAttach, GrantRead, AttachDone, ReadyFails, ReadyStep
<1>1. CASE Send \/ PumpFails \/ Teardown
  BY <1>1 DEF Send, PumpFails, Teardown
<1>6. CASE Close
  BY <1>6 DEF Close, Holding, IInv, ReadyInv, TypeOK
<1>2. CASE TakeBatch
  BY <1>2 DEF TakeBatch
<1>3. CASE DirCommit \/ FileOpen \/ FileClose
  BY <1>3 DEF DirCommit, FileOpen, FileClose
<1>4. CASE ScanList \/ ScanTorn \/ ScanTake \/ ScanAck \/ ScanAckThrows \/ Restart
  BY <1>4 DEF ScanList, ScanTorn, ScanTake, ScanAck, ScanAckThrows, Restart
<1>5. CASE UNCHANGED vars
  BY <1>5 DEF vars
<1> QED
  BY <1>0, <1>1, <1>2, <1>3, <1>4, <1>5, <1>6 DEF Next, Readying

\* close() and detach() leave nothing behind unless the pump gave up or the
\* client closed in the middle of its attach: all that was sent, the close
\* notification included, is on disk or consumed.
THEOREM UplinkClosesFlushed == Spec => []ClosedMeansFlushed
<1>1. Init => IInv /\ ClosedInv
  BY InitEstablishesIInv DEF Init, ClosedInv
<1>2. IInv /\ ClosedInv /\ [Next]_vars => IInv' /\ ClosedInv'
  BY StepKeepsIInv, StepKeepsClosed
<1>3. IInv /\ ClosedInv => ClosedMeansFlushed
  BY DEF IInv, ClosedInv, ClosedMeansFlushed, CommitInv, NoGap, TypeOK
<1> QED
  BY <1>1, <1>2, <1>3, PTL DEF Spec

-----------------------------------------------------------------------------
(* The channel *)

\* How far the host has come: the frames of the chunks before nextInSeq, and
\* those of nextInSeq itself between handing them on and deleting it.
Consumed == IF scan.phase = "taken" THEN cuts[nextInSeq] ELSE Before(nextInSeq)

\* Every frame up to n has been delivered at least once.
Given(n) == \A f \in 1..n : \E i \in 1..Len(delivered) : delivered[i] = f

\* A host that was never disturbed has delivered exactly those frames, and
\* its base was chunk 1.
SteadyInv ==
  /\ nextInSeq = 0 => acked = {} /\ delivered = <<>>
  /\ nextInSeq > 0 => Len(delivered) = Consumed
  /\ \A i \in 1..Len(delivered) : delivered[i] = i

\* Any host has delivered at least those, and whatever it has deleted.
HostInv ==
  /\ nextInSeq <= Len(cuts) + 1
  /\ nextInSeq > 0 => Given(Consumed)
  /\ \A s \in acked : s \in 1..Len(cuts) /\ Given(cuts[s])
  /\ \A i \in 1..Len(delivered) : delivered[i] \in 1..sent
  /\ Channel!InOrder(delivered)
  /\ faults = 0 => SteadyInv

\* The client's steps leave the host where it was.
LEMMA ClientKeepsHost ==
  ASSUME IInv, HostInv,
         \/ Send \/ Readying \/ PumpFails \/ TakeBatch \/ DirCommit \/ FileOpen \/ FileClose
         \/ Close \/ Teardown \/ UNCHANGED vars
  PROVE  HostInv' /\ (Channel!Send \/ UNCHANGED Channel!vars)
<1> USE DEF IInv, vars, clientVars, attachVars, dirVars, hostVars, history
<1>0. CASE Readying
  <2>1. UNCHANGED <<sent, cuts, nextInSeq, scan, delivered, acked, faults>>
    BY <1>0 DEF Readying, Spawned, AskAttach, GrantRead, AttachDone, ReadyFails, ReadyStep
  <2>2. \A n : Given(n)' <=> Given(n)
    BY <2>1 DEF Given
  <2>3. Consumed' = Consumed
    BY <2>1 DEF Consumed, Before
  <2>4. Channel!InOrder(delivered)' <=> Channel!InOrder(delivered)
    BY <2>1 DEF Channel!InOrder
  <2>5. HostInv'
    BY <2>1, <2>2, <2>3, <2>4 DEF HostInv, SteadyInv, Given
  <2> QED
    BY <2>1, <2>5 DEF Channel!vars
<1> SUFFICES ASSUME ~Readying PROVE HostInv' /\ (Channel!Send \/ UNCHANGED Channel!vars)
  BY <1>0
<1>1. UNCHANGED <<nextInSeq, scan, delivered, acked, faults>>
  BY DEF Send, PumpFails, TakeBatch, DirCommit, FileOpen, FileClose, Close, Teardown
<1>2. cuts' = cuts \/ cuts' = Append(cuts, sent)
  BY DEF Send, PumpFails, TakeBatch, DirCommit, FileOpen, FileClose, Close, Teardown
<1>3. Len(cuts) \in Nat /\ Len(cuts) <= Len(cuts') /\ \A i \in 1..Len(cuts) : cuts'[i] = cuts[i]
  <2>1. cuts \in Seq(Nat) /\ sent \in Nat
    BY DEF TypeOK
  <2> QED
    BY <1>2, <2>1, AppendProperties
<1>4. Len(cuts') \in Nat
  BY <1>2, <1>3 DEF TypeOK
<1>5. nextInSeq > 0 => Consumed' = Consumed
  BY <1>1, <1>3 DEF HostInv, ScanInv, TypeOK, Consumed, Before
<1>6. \A n : Given(n)' <=> Given(n)
  BY <1>1 DEF Given
<1>7. sent' = sent \/ (sent' \in Nat /\ sent' > sent)
  BY DEF TypeOK, Send, PumpFails, TakeBatch, DirCommit, FileOpen, FileClose, Close, Teardown
<1>8. \A s \in acked' : s \in 1..Len(cuts') /\ Given(cuts[s])'
  BY <1>1, <1>3, <1>4, <1>6 DEF HostInv
<1>9. \A i \in 1..Len(delivered') : delivered'[i] \in 1..sent'
  BY <1>1, <1>7 DEF HostInv, TypeOK
<1>10. nextInSeq' <= Len(cuts') + 1 /\ (nextInSeq' > 0 => Given(Consumed)')
  BY <1>1, <1>3, <1>4, <1>5 DEF HostInv, TypeOK, Given
<1>11. faults' = 0 => SteadyInv'
  BY <1>1, <1>5 DEF HostInv, SteadyInv, TypeOK
<1>12. Channel!InOrder(delivered)'
  BY <1>1 DEF HostInv, Channel!InOrder
<1>13. HostInv'
  BY <1>8, <1>9, <1>10, <1>11, <1>12 DEF HostInv
<1> QED
  BY <1>1, <1>7, <1>13 DEF Channel!Send, Channel!vars

\* Every chunk before the base of a listing has been deleted by a host: the
\* base skips nothing, also when a new host discovers it.
LEMMA BaseSkipsNothing ==
  ASSUME IInv, Present # {}
  PROVE  Base \in 1..Len(cuts) /\ \A s \in 1..(Base - 1) : s \in acked
<1> USE DEF IInv
<1>1. Base \in Present /\ Base \in 1..Len(cuts) /\ \A t \in Present : Base <= t
  BY BaseIsSmallest DEF DirInv
<1>2. Len(cuts) <= outSeq /\ Len(cuts) \in Nat /\ outSeq \in Nat
  BY DEF CommitInv, TypeOK
<1>3. SUFFICES ASSUME NEW s \in 1..(Base - 1), s \notin acked
               PROVE  FALSE
  BY <1>1
<1>4. s \in 1..(outSeq - 1) /\ s \in Seqs
  BY <1>1, <1>2, ChunkBound, BoundsAssumption DEF Seqs
<1>5. Readable(s)
  BY <1>3, <1>4 DEF NoGap
<1>6. s \in Present
  BY <1>4, <1>5 DEF Present, Readable
<1> QED
  BY <1>1, <1>6

\* E is D, which has all frames up to b, with the block F of the frames
\* b+1 .. c behind it; m bounds them all.
AddsBlock(D, F, E, b, c, m) ==
  /\ D \in Seq(Nat) /\ F \in Seq(Nat) /\ E = D \o F
  /\ b \in Nat /\ c \in Nat /\ m \in Nat /\ b < c /\ c <= m
  /\ Len(F) = c - b
  /\ \A i \in 1..Len(F) : F[i] = b + i
  /\ \A i \in 1..Len(D) : D[i] \in 1..m
  /\ Channel!InOrder(D)
  /\ \A f \in 1..b : \E j \in 1..Len(D) : D[j] = f

\* Then E is a delivery behind D that the channel allows, and has all up to c.
BlockAdded(D, E, b, c, m) ==
  /\ E \in Seq(Nat) /\ Len(E) > Len(D) /\ Len(E) = Len(D) + (c - b)
  /\ \A i \in 1..Len(D) : E[i] = D[i]
  /\ \A i \in 1..Len(E) : E[i] \in 1..m
  /\ Channel!InOrder(E)
  /\ \A f \in 1..c : \E j \in 1..Len(E) : E[j] = f
  /\ Len(D) = b /\ (\A k \in 1..b : D[k] = k) => \A k \in 1..Len(E) : E[k] = k

LEMMA AppendBlock ==
  ASSUME NEW D, NEW F, NEW E, NEW b, NEW c, NEW m, AddsBlock(D, F, E, b, c, m)
  PROVE  BlockAdded(D, E, b, c, m)
<1> USE DEF AddsBlock
<1>1. Len(D) \in Nat /\ Len(F) \in Nat
  OBVIOUS
<1>2. /\ E \in Seq(Nat) /\ Len(E) = Len(D) + (c - b)
      /\ \A i \in 1..Len(E) : E[i] = IF i <= Len(D) THEN D[i] ELSE F[i - Len(D)]
  <2>1. D \in Seq(Nat) /\ F \in Seq(Nat) /\ E = D \o F /\ Len(F) = c - b /\ b \in Nat /\ c \in Nat
    OBVIOUS
  <2> HIDE DEF AddsBlock
  <2>2. /\ E \in Seq(Nat) /\ Len(E) = Len(D) + Len(F)
        /\ \A i \in 1..(Len(D) + Len(F)) : E[i] = IF i <= Len(D) THEN D[i] ELSE F[i - Len(D)]
    BY <2>1, ConcatProperties, Zenon
  <2> QED
    BY <2>1, <2>2
<1>3. \A i \in 1..Len(D) : i \in 1..Len(E) /\ E[i] = D[i]
  BY <1>1, <1>2
<1>4. \A i \in (Len(D) + 1)..Len(E) : i \in 1..Len(E) /\ E[i] = b + (i - Len(D))
  <2> SUFFICES ASSUME NEW i \in (Len(D) + 1)..Len(E)
               PROVE  i \in 1..Len(E) /\ E[i] = b + (i - Len(D))
    OBVIOUS
  <2>1. i \in 1..Len(E) /\ ~(i <= Len(D)) /\ i - Len(D) \in 1..Len(F)
    BY <1>1, <1>2
  <2> QED
    BY <1>2, <2>1
<1>5. \A i \in 1..Len(E) : i \in 1..Len(D) \/ i \in (Len(D) + 1)..Len(E)
  BY <1>1, <1>2
<1>6. \A i \in 1..Len(E) : E[i] \in 1..m
  <2> SUFFICES ASSUME NEW i \in 1..Len(E) PROVE E[i] \in 1..m
    OBVIOUS
  <2>1. CASE i \in 1..Len(D)
    BY <1>3, <2>1
  <2>2. CASE i \in (Len(D) + 1)..Len(E)
    <3>1. E[i] = b + (i - Len(D))
      BY <1>4, <2>2
    <3> QED
      BY <1>1, <1>2, <2>2, <3>1, SMTT(30)
  <2> QED
    BY <1>5, <2>1, <2>2
<1>7. ASSUME NEW f \in 1..c, f > b
      PROVE  /\ Len(D) + (f - b) \in (Len(D) + 1)..Len(E)
             /\ E[Len(D) + (f - b)] = f
  <2>1. Len(D) + (f - b) \in (Len(D) + 1)..Len(E)
    BY <1>1, <1>2, <1>7
  <2>2. E[Len(D) + (f - b)] = b + ((Len(D) + (f - b)) - Len(D))
    BY <1>4, <2>1
  <2> QED
    BY <1>1, <2>1, <2>2
<1>8. Channel!InOrder(E)
  <2> SUFFICES ASSUME NEW i \in 1..Len(E), NEW f \in 1..(E[i] - 1)
               PROVE  \E j \in 1..(i - 1) : E[j] = f
    BY DEF Channel!InOrder
  <2>1. CASE i \in 1..Len(D)
    <3>1. f \in 1..(D[i] - 1)
      BY <1>3, <2>1
    <3>2. PICK j \in 1..(i - 1) : D[j] = f
      BY <2>1, <3>1 DEF Channel!InOrder
    <3>3. j \in 1..Len(D)
      BY <1>1, <2>1
    <3> QED
      BY <1>3, <3>2, <3>3
  <2>2. CASE i \in (Len(D) + 1)..Len(E)
    <3>1. E[i] = b + (i - Len(D))
      BY <1>4, <2>2
    <3>2. CASE f <= b
      <4>1. f \in 1..b
        BY <3>1, <3>2, <1>1, <1>2
      <4>2. PICK j \in 1..Len(D) : D[j] = f
        BY <4>1
      <4>3. j \in 1..(i - 1)
        BY <1>1, <1>2, <2>2
      <4> QED
        BY <1>3, <4>2, <4>3
    <3>3. CASE f > b
      <4>1. f \in 1..c /\ Len(D) + (f - b) \in 1..(i - 1)
        BY <1>1, <1>2, <2>2, <3>1, <3>3
      <4>2. E[Len(D) + (f - b)] = f
        BY <1>7, <3>3, <4>1
      <4> QED
        BY <4>1, <4>2
    <3>4. f <= b \/ f > b
      OBVIOUS
    <3> QED
      BY <3>2, <3>3, <3>4
  <2> QED
    BY <1>5, <2>1, <2>2
<1>9. \A f \in 1..c : \E j \in 1..Len(E) : E[j] = f
  <2> SUFFICES ASSUME NEW f \in 1..c PROVE \E j \in 1..Len(E) : E[j] = f
    OBVIOUS
  <2>1. CASE f \in 1..b
    <3>1. PICK j \in 1..Len(D) : D[j] = f
      BY <2>1
    <3> QED
      BY <1>3, <3>1
  <2>2. CASE f > b
    BY <1>4, <1>7, <2>2
  <2> QED
    BY <2>1, <2>2
<1>10. ASSUME Len(D) = b, \A k \in 1..b : D[k] = k
       PROVE  \A k \in 1..Len(E) : E[k] = k
  BY <1>2, <1>3, <1>4, <1>5, <1>10
<1>11. Len(E) > Len(D)
  BY <1>1, <1>2
<1> QED
  BY <1>2, <1>3, <1>6, <1>8, <1>9, <1>10, <1>11, Zenon DEF BlockAdded

\* Handing on a chunk adds its frames behind those of all chunks before it.
LEMMA TakeKeepsHost ==
  ASSUME IInv, HostInv, ScanTake
  PROVE  HostInv' /\ Channel!Deliver
<1> USE DEF IInv
<1>1. nextInSeq \in 1..Len(cuts) /\ scan.phase = "take"
  BY DEF ScanInv, ScanTake
<1>2. /\ FramesOf(nextInSeq) \in Seq(Nat)
      /\ Len(FramesOf(nextInSeq)) = cuts[nextInSeq] - Before(nextInSeq)
      /\ Before(nextInSeq) \in Nat /\ cuts[nextInSeq] \in Nat
      /\ \A i \in 1..Len(FramesOf(nextInSeq)) : FramesOf(nextInSeq)[i] = Before(nextInSeq) + i
  BY <1>1, FramesOfType
<1>3. Before(nextInSeq) < cuts[nextInSeq] /\ cuts[nextInSeq] <= sent
  BY <1>1 DEF CutsInv
<1>4. delivered' = delivered \o FramesOf(nextInSeq)
  BY DEF ScanTake
<1>5. scan'.phase = "taken" /\ UNCHANGED <<nextInSeq, sent, cuts, acked, faults>>
  BY DEF ScanTake, TypeOK, clientVars, history
<1>6. Consumed = Before(nextInSeq) /\ Consumed' = cuts[nextInSeq]
  BY <1>1, <1>5 DEF Consumed
<1>7. \A f \in 1..Before(nextInSeq) : \E j \in 1..Len(delivered) : delivered[j] = f
  <2>1. Given(Consumed)
    BY <1>1 DEF HostInv
  <2> QED
    BY <1>6, <2>1 DEF Given
<1>8. delivered \in Seq(Nat) /\ sent \in Nat
  BY DEF TypeOK
<1>9. /\ delivered' \in Seq(Nat) /\ Len(delivered') > Len(delivered)
      /\ Len(delivered') = Len(delivered) + (cuts[nextInSeq] - Before(nextInSeq))
      /\ \A i \in 1..Len(delivered) : delivered'[i] = delivered[i]
      /\ \A i \in 1..Len(delivered') : delivered'[i] \in 1..sent
      /\ Channel!InOrder(delivered')
      /\ \A f \in 1..cuts[nextInSeq] : \E j \in 1..Len(delivered') : delivered'[j] = f
      /\ Len(delivered) = Before(nextInSeq)
           /\ (\A k \in 1..Before(nextInSeq) : delivered[k] = k)
         => \A k \in 1..Len(delivered') : delivered'[k] = k
  <2>1. /\ \A i \in 1..Len(delivered) : delivered[i] \in 1..sent
        /\ Channel!InOrder(delivered)
    BY DEF HostInv
  <2>2. AddsBlock(delivered, FramesOf(nextInSeq), delivered', Before(nextInSeq),
                  cuts[nextInSeq], sent)
    BY <1>2, <1>3, <1>4, <1>7, <1>8, <2>1 DEF AddsBlock
  <2>3. BlockAdded(delivered, delivered', Before(nextInSeq), cuts[nextInSeq], sent)
    BY <2>2, AppendBlock
  <2> QED
    BY <2>3 DEF BlockAdded
<1>10. Given(cuts[nextInSeq])'
  BY <1>5, <1>9 DEF Given
<1>11. \A n : Given(n) => Given(n)'
  <2>1. \A i \in 1..Len(delivered) : i \in 1..Len(delivered') /\ delivered'[i] = delivered[i]
    BY <1>8, <1>9
  <2> QED
    BY <2>1 DEF Given
<1>12. \A s \in acked : Given(cuts[s])'
  BY <1>5, <1>11 DEF HostInv, Given
<1>13. faults = 0 => Len(delivered') = cuts[nextInSeq] /\ \A k \in 1..Len(delivered') : delivered'[k] = k
  <2> SUFFICES ASSUME faults = 0
               PROVE  Len(delivered') = cuts[nextInSeq]
                      /\ \A k \in 1..Len(delivered') : delivered'[k] = k
    OBVIOUS
  <2>1. Len(delivered) = Before(nextInSeq) /\ \A k \in 1..Len(delivered) : delivered[k] = k
    BY <1>1, <1>6 DEF HostInv, SteadyInv
  <2> QED
    BY <1>2, <1>9, <2>1
<1>14. faults' = 0 => SteadyInv'
  BY <1>1, <1>5, <1>6, <1>13 DEF SteadyInv
<1>15. nextInSeq' > 0 => Given(Consumed)'
  BY <1>5, <1>6, <1>10 DEF Given
<1>16. HostInv'
  BY <1>5, <1>9, <1>12, <1>14, <1>15 DEF HostInv, Channel!InOrder, Given
<1> QED
  BY <1>5, <1>9, <1>13, <1>16 DEF Channel!Deliver

\* The host's other steps deliver nothing; failing to delete a chunk and
\* restarting are what the channel calls a disturbance.
LEMMA ScanKeepsHost ==
  ASSUME IInv, HostInv, ScanList \/ ScanTorn \/ ScanAck \/ ScanAckThrows \/ Restart
  PROVE  HostInv' /\ (Channel!Disturb \/ UNCHANGED Channel!vars)
<1> USE DEF IInv
<1>1. UNCHANGED <<sent, cuts, delivered>> /\ faults \in Nat
  BY DEF ScanList, ScanTorn, ScanAck, ScanAckThrows, Restart, clientVars, TypeOK
<1>2. \A m : Given(m)' <=> Given(m)
  BY <1>1 DEF Given
<1>3. \A i \in 1..Len(delivered') : delivered'[i] \in 1..sent'
  BY <1>1 DEF HostInv
<1>4. Channel!InOrder(delivered)'
  BY <1>1 DEF HostInv, Channel!InOrder
<1>5. CASE ScanList
  <2>1. scan'.phase = "take" /\ scan.phase = "idle" /\ acked' = acked /\ faults' = faults
    BY <1>5 DEF ScanList, history
  <2>2. nextInSeq' \in 1..Len(cuts) /\ (nextInSeq > 0 => nextInSeq' = nextInSeq)
    BY <1>5 DEF ScanList, DirInv, TypeOK
  <2>3. Consumed' = Before(nextInSeq')
    BY <1>1, <2>1 DEF Consumed, Before
  <2>4. ASSUME nextInSeq > 0 PROVE HostInv'
    <3>1. Consumed' = Consumed /\ nextInSeq' = nextInSeq
      BY <2>1, <2>2, <2>3, <2>4 DEF Consumed
    <3>2. nextInSeq' > 0 => Given(Consumed)'
      BY <1>1, <2>4, <3>1 DEF HostInv, Given
    <3>3. faults' = 0 => SteadyInv'
      BY <1>1, <2>1, <2>4, <3>1 DEF HostInv, SteadyInv
    <3>4. \A s \in acked' : s \in 1..Len(cuts') /\ Given(cuts[s])'
      BY <1>1, <1>2, <2>1 DEF HostInv, Given
    <3>5. nextInSeq' <= Len(cuts') + 1
      BY <1>1, <3>1 DEF HostInv
    <3> QED
      BY <1>3, <1>4, <3>1, <3>2, <3>3, <3>4, <3>5 DEF HostInv
  <2>5. ASSUME nextInSeq = 0 PROVE HostInv'
    <3>1. nextInSeq' = Base /\ Base \in 1..Len(cuts) /\ \A s \in 1..(Base - 1) : s \in acked
      BY <1>5, <2>5, BaseSkipsNothing DEF ScanList
    <3>2. Given(Before(Base))
      <4>1. CASE Base = 1
        BY <4>1 DEF Before, Given
      <4>2. CASE Base # 1
        <5>1. Base - 1 \in acked /\ Before(Base) = cuts[Base - 1]
          BY <3>1, <4>2 DEF Before, TypeOK
        <5> QED
          BY <5>1 DEF HostInv
      <4> QED
        BY <4>1, <4>2
    <3>3. faults = 0 => Base = 1 /\ delivered = <<>>
      BY <2>5, <3>1 DEF HostInv, SteadyInv, TypeOK
    <3>4. faults' = 0 => SteadyInv'
      BY <1>1, <2>1, <2>3, <3>1, <3>3 DEF SteadyInv, Before
    <3>5. nextInSeq' > 0 => Given(Consumed)'
      BY <1>1, <1>2, <2>3, <3>1, <3>2 DEF Given
    <3>6. \A s \in acked' : s \in 1..Len(cuts') /\ Given(cuts[s])'
      BY <1>1, <1>2, <2>1 DEF HostInv, Given
    <3>7. nextInSeq' <= Len(cuts') + 1
      BY <1>1, <2>2 DEF TypeOK
    <3> QED
      BY <1>3, <1>4, <3>4, <3>5, <3>6, <3>7 DEF HostInv
  <2>6. HostInv'
    BY <2>4, <2>5 DEF TypeOK
  <2> QED
    BY <1>1, <2>1, <2>6 DEF Channel!vars
<1>6. CASE ScanTorn
  <2>1. scan'.phase = "idle" /\ scan.phase = "take" /\ UNCHANGED <<nextInSeq, acked, faults>>
    BY <1>6 DEF ScanTorn, NoScan, history
  <2>2. Consumed' = Consumed
    BY <1>1, <2>1 DEF Consumed, Before
  <2>3. HostInv'
    BY <1>1, <1>2, <1>3, <1>4, <2>1, <2>2 DEF HostInv, SteadyInv, Given
  <2> QED
    BY <1>1, <2>1, <2>3 DEF Channel!vars
<1>7. CASE ScanAck
  <2>1. nextInSeq \in 1..Len(cuts) /\ scan.phase = "taken" /\ nextInSeq' = nextInSeq + 1
        /\ acked' = acked \cup {nextInSeq} /\ faults' = faults
    BY <1>7 DEF ScanAck, ScanInv
  <2>2. scan'.phase # "taken"
    BY <1>7 DEF ScanAck, NoScan, TypeOK
  <2>3. Consumed' = cuts[nextInSeq] /\ Consumed = cuts[nextInSeq]
    BY <1>1, <2>1, <2>2 DEF Consumed, Before, TypeOK
  <2>4. Given(cuts[nextInSeq])
    BY <2>1, <2>3 DEF HostInv
  <2>5. nextInSeq' > 0 => Given(Consumed)'
    BY <1>1, <1>2, <2>3, <2>4 DEF Given
  <2>6. \A s \in acked' : s \in 1..Len(cuts) /\ Given(cuts[s])
    BY <2>1, <2>4 DEF HostInv
  <2>7. faults' = 0 => SteadyInv'
    BY <1>1, <2>1, <2>3 DEF HostInv, SteadyInv, TypeOK
  <2>8. HostInv'
    BY <1>1, <1>2, <1>3, <1>4, <2>1, <2>5, <2>6, <2>7 DEF HostInv, Given, TypeOK
  <2> QED
    BY <1>1, <2>1, <2>8 DEF Channel!vars
<1>8. CASE ScanAckThrows
  <2>1. nextInSeq \in 1..Len(cuts) /\ scan.phase = "taken" /\ UNCHANGED <<nextInSeq, acked>>
        /\ scan'.phase = "idle" /\ faults' = faults + 1
    BY <1>8 DEF ScanAckThrows, ScanInv, NoScan
  <2>2. Consumed = cuts[nextInSeq] /\ Consumed' = Before(nextInSeq)
    BY <1>1, <2>1 DEF Consumed, Before
  <2>3. Before(nextInSeq) \in Nat /\ cuts[nextInSeq] \in Nat /\ Before(nextInSeq) < cuts[nextInSeq]
    BY <2>1, FramesOfType DEF CutsInv
  <2>4. nextInSeq' > 0 => Given(Consumed)'
    BY <1>1, <1>2, <2>1, <2>2, <2>3 DEF HostInv, Given
  <2>5. HostInv'
    BY <1>1, <1>2, <1>3, <1>4, <2>1, <2>4 DEF HostInv, Given
  <2> QED
    BY <1>1, <2>1, <2>5 DEF Channel!vars, Channel!Disturb
<1>9. CASE Restart
  <2>1. nextInSeq' = 0 /\ acked' = acked /\ faults' = faults + 1
    BY <1>9 DEF Restart
  <2>2. HostInv'
    BY <1>1, <1>2, <1>3, <1>4, <2>1 DEF HostInv, Given, TypeOK
  <2> QED
    BY <1>1, <2>1, <2>2 DEF Channel!vars, Channel!Disturb
<1> QED
  BY <1>5, <1>6, <1>7, <1>8, <1>9

\* A step of the uplink is a step of the channel, or none.
LEMMA StepImplementsChannel ==
  ASSUME IInv, HostInv, [Next]_vars
  PROVE  HostInv' /\ [Channel!Next]_Channel!vars
  BY ClientKeepsHost, TakeKeepsHost, ScanKeepsHost DEF Next, Readying, Channel!Next

\* The uplink is a FIFO channel, whatever the browser does to its commits,
\* whichever lane each chunk takes, and however often the host restarts or
\* fails to delete: each frame once and in order while the host is steady,
\* and never one before its predecessors after that.
THEOREM UplinkIsAChannel == Spec => ImplementsChannel
<1>1. Init => IInv /\ HostInv /\ Channel!Init
  BY InitEstablishesIInv
  DEF Init, HostInv, SteadyInv, Channel!InOrder, Channel!Init
<1>2. IInv /\ HostInv /\ [Next]_vars => IInv' /\ HostInv' /\ [Channel!Next]_Channel!vars
  BY StepKeepsIInv, StepImplementsChannel
<1> QED
  BY <1>1, <1>2, PTL DEF ImplementsChannel, Spec, Channel!Spec
=============================================================================
