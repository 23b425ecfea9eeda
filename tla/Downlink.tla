------------------------------ MODULE Downlink ------------------------------
(***************************************************************************)
(* The host-to-client half of a session: Session.appendFrame writes frames *)
(* to the segmented log out.<gen>.log and bumps the stream map out.sig;    *)
(* FsioSession's wake loop drains segments, hops to the next one and acks  *)
(* cumulative bytes; acks let the host delete segments and resume a paused *)
(* process (packages/host/src/host-server.ts, packages/client/src/         *)
(* index.ts).  Attach adds readers: each starts at the head it finds in    *)
(* out.sig, and only the acks of the granted writer reach the host.        *)
(*                                                                         *)
(* The host is one thread, but a reader in another process sees the file   *)
(* system between any two of its operations, and its own loop awaits       *)
(* between reading out.sig and reading a segment.                          *)
(*                                                                         *)
(* A frame is its position in the stream; ends[f] is the cumulative byte   *)
(* count at its end, so bytes need no representation of their own.         *)
(***************************************************************************)
EXTENDS Integers, Sequences, FiniteSets

CONSTANTS
  Readers,       \* clients that may read the session
  Spawner,       \* the one that created it
  HasProc,       \* a shell's process, which can be paused (kinds have none)
  SegMax,        \* HostLimits.segMax
  AckWindow,     \* HostLimits.ackWindow
  AckResume,     \* HostLimits.ackResume
  Sizes,         \* bytes a frame may have
  MaxFrames,     \* bound: frames in the whole stream
  MaxControl,    \* bound: bytes of answers appended during one pause
  StaleReads,    \* whether a segment snapshot may go stale (FINDINGS F11)
  QuietTakeover  \* attach only after the old client vanished, host between appends

None == "none"

ASSUME ReadersAssumption == Spawner \in Readers
ASSUME SwitchAssumption ==
  HasProc \in BOOLEAN /\ StaleReads \in BOOLEAN /\ QuietTakeover \in BOOLEAN
ASSUME LimitsAssumption ==
  /\ SegMax \in Nat \ {0} /\ AckWindow \in Nat /\ AckResume \in Nat
  /\ AckResume <= AckWindow
ASSUME SizesAssumption == Sizes \subseteq Nat \ {0} /\ Sizes # {}
ASSUME BoundsAssumption == MaxFrames \in Nat /\ MaxControl \in Nat

VARIABLES
  \* the host's Session
  outGen, segBytes, prevFinal, outTotal, ackTotal, paused,
  doneSegs,    \* finished segments not deleted yet: [gen, endTotal]
  writing,     \* TRUE between the append and the out.sig bump
  \* the shared directory
  ends,        \* cumulative end of every frame ever appended
  segStart,    \* segStart[g + 1] is where segment g starts in the stream
  disk,        \* segments whose file exists
  sig,         \* the stream map out.sig, or NoSig
  \* the clients
  phase,       \* of the wake loop: "off" (no page), "idle" or "drain"
  snap,        \* the stream map a draining reader works from
  gen, offset, cum, lastAck,
  acks,        \* ack notifications sent and not yet consumed
  delivered,   \* frames handed to the reader, in order
  skipped,     \* history: the reader resynchronised past unread output
  \* the takeover
  asked,       \* attach requests the host has not decided
  writer,      \* the reader whose uplink the host consumes
  control      \* bytes of answers appended since the process was paused

hostVars   == <<outGen, segBytes, prevFinal, outTotal, ackTotal, paused, doneSegs, writing>>
diskVars   == <<ends, segStart, disk, sig>>
readerVars == <<phase, snap, gen, offset, cum, lastAck, acks, delivered, skipped>>
otherVars  == <<asked, writer, control>>
vars       == <<hostVars, diskVars, readerVars, otherVars>>

NoSig == [gen |-> -1, size |-> 0, prevFinal |-> 0, total |-> 0]

StartOf(g) == segStart[g + 1]
\* How far segment g reaches in the stream.
EndOf(g) == IF g = outGen THEN outTotal ELSE segStart[g + 2]
\* A reader's place in the stream.
Place(r) == StartOf(gen[r]) + offset[r]

Init ==
  /\ outGen = 0 /\ segBytes = 0 /\ prevFinal = 0 /\ outTotal = 0 /\ ackTotal = 0
  /\ paused = FALSE /\ doneSegs = {} /\ writing = FALSE
  /\ ends = <<>> /\ segStart = <<0>> /\ disk = {} /\ sig = NoSig
  /\ phase = [r \in Readers |-> IF r = Spawner THEN "idle" ELSE "off"]
  /\ snap = [r \in Readers |-> NoSig]
  /\ gen = [r \in Readers |-> 0] /\ offset = [r \in Readers |-> 0]
  /\ cum = [r \in Readers |-> 0] /\ lastAck = [r \in Readers |-> 0]
  /\ acks = [r \in Readers |-> <<>>] /\ delivered = [r \in Readers |-> <<>>]
  /\ skipped = [r \in Readers |-> FALSE]
  /\ asked = {} /\ writer = Spawner /\ control = 0

-----------------------------------------------------------------------------
(* The host *)

\* The write of appendFrame, with its byte counts.
AppendFrame(n) ==
  /\ ~writing
  /\ Len(ends) < MaxFrames
  /\ ends' = Append(ends, outTotal + n)
  /\ outTotal' = outTotal + n
  /\ segBytes' = segBytes + n
  /\ disk' = disk \cup {outGen}
  /\ writing' = TRUE
  /\ UNCHANGED <<outGen, prevFinal, ackTotal, paused, doneSegs, segStart, sig>>

\* Output of the process; a paused one delivers none.
AppendOutput ==
  /\ HasProc => ~paused
  /\ \E n \in Sizes : AppendFrame(n)
  /\ UNCHANGED <<readerVars, otherVars>>

\* Answers to requests are appended whether or not the process is paused.
AppendControl ==
  /\ \E n \in Sizes :
       /\ AppendFrame(n)
       /\ control' = IF paused THEN control + n ELSE control
  /\ control' <= MaxControl
  /\ UNCHANGED <<readerVars, asked, writer>>

\* Mutant: finished segments are deleted whether acked or not.
Unacked_DropAll(segs, t) == {}
\* gcSegments: what remains of the finished segments after an ack of t.
Unacked(segs, t) == {d \in segs : d.endTotal > t}

\* Mutant: resumes strictly below ackResume.
Window_Strict(total, acked) ==
  IF ~HasProc THEN paused
  ELSE IF ~paused THEN total - acked > AckWindow
       ELSE ~(total - acked < AckResume)
\* checkWindow: pause above ackWindow, resume at ackResume, nothing between.
Window(total, acked) ==
  IF ~HasProc THEN paused
  ELSE IF ~paused THEN total - acked > AckWindow
       ELSE ~(total - acked <= AckResume)

\* What counts against MaxControl begins with the next pause.
SincePaused == IF paused' THEN control ELSE 0

Full == segBytes >= SegMax

\* The rest of appendFrame: rotate on a frame boundary, delete what is
\* acked, bump out.sig, check the window.
Publish ==
  /\ writing
  /\ writing' = FALSE
  /\ IF Full
     THEN LET all  == doneSegs \cup {[gen |-> outGen, endTotal |-> outTotal]}
              kept == Unacked(all, ackTotal)
          IN /\ doneSegs' = kept
             /\ disk' = disk \ {d.gen : d \in all \ kept}
             /\ prevFinal' = segBytes
             /\ outGen' = outGen + 1
             /\ segBytes' = 0
             /\ segStart' = Append(segStart, outTotal)
     ELSE UNCHANGED <<doneSegs, disk, prevFinal, outGen, segBytes, segStart>>
  /\ sig' = [gen |-> outGen', size |-> segBytes', prevFinal |-> prevFinal', total |-> outTotal]
  /\ paused' = Window(outTotal, ackTotal)
  /\ control' = SincePaused
  /\ UNCHANGED <<outTotal, ackTotal, ends, readerVars, asked, writer>>

\* The "ack" notification of the current writer: take the maximum, delete,
\* check the window.
HostAck ==
  /\ ~writing
  /\ acks[writer] # <<>>
  /\ LET t == Head(acks[writer])
         kept == Unacked(doneSegs, ackTotal')
     IN /\ ackTotal' = IF t > ackTotal THEN t ELSE ackTotal
        /\ doneSegs' = kept
        /\ disk' = disk \ {d.gen : d \in doneSegs \ kept}
        /\ paused' = Window(outTotal, ackTotal')
  /\ control' = SincePaused
  /\ acks' = [acks EXCEPT ![writer] = Tail(@)]
  /\ UNCHANGED <<outGen, segBytes, prevFinal, outTotal, writing, ends, segStart, sig,
                 phase, snap, gen, offset, cum, lastAck, delivered, skipped, asked, writer>>

\* decideAttach's grant: the uplink moves to the new writer's lane, and the
\* answer is one more frame on the stream.
Grant(r) ==
  /\ r \in asked
  /\ AppendFrame(1)
  /\ asked' = asked \ {r}
  /\ writer' = r
  /\ UNCHANGED <<readerVars, control>>

-----------------------------------------------------------------------------
(* The clients *)

Beginning == [gen |-> 0, size |-> 0, total |-> 0]
\* Where an attacher finds the head of the stream: where out.sig has it, or at
\* the beginning when it cannot read one.
Heads ==
  {IF sig = NoSig THEN Beginning ELSE [gen |-> sig.gen, size |-> sig.size, total |-> sig.total]}
    \cup (IF StaleReads /\ ~QuietTakeover THEN {Beginning} ELSE {})

\* Mutant: the attacher's acks start at nothing consumed.
HeadTotal_Zero(head) == 0
\* The cumulative position of the head.
HeadTotal(head) == head.total

\* #initAttach: start at the head; everything before it is the previous
\* client's history.
Attach(r) ==
  /\ phase[r] = "off" /\ r # Spawner
  /\ QuietTakeover => ~writing /\ phase[writer] = "off"
  /\ \E head \in Heads :
       /\ gen'     = [gen EXCEPT ![r] = head.gen]
       /\ offset'  = [offset EXCEPT ![r] = head.size]
       /\ cum'     = [cum EXCEPT ![r] = HeadTotal(head)]
       /\ lastAck' = [lastAck EXCEPT ![r] = HeadTotal(head)]
  /\ phase' = [phase EXCEPT ![r] = "idle"]
  /\ asked' = asked \cup {r}
  /\ UNCHANGED <<snap, acks, delivered, skipped, hostVars, diskVars, writer, control>>

\* A page goes away without a word; what it had committed stays.
Vanish(r) ==
  /\ phase[r] \in {"idle", "drain"}
  /\ r = Spawner /\ Readers # {Spawner}
  /\ phase' = [phase EXCEPT ![r] = "off"]
  /\ snap' = [snap EXCEPT ![r] = NoSig]
  /\ UNCHANGED <<gen, offset, cum, lastAck, acks, delivered, skipped, hostVars, diskVars, otherVars>>

\* Mutant: takes a map older than the bytes already read for a fresh log.
Resync_StartOver(r) ==
  IF sig.gen > gen[r] + 1 THEN [gen |-> sig.gen, offset |-> 0]
  ELSE IF sig.gen = gen[r] /\ sig.size < offset[r] THEN [gen |-> gen[r], offset |-> 0]
  ELSE [gen |-> gen[r], offset |-> offset[r]]
\* More than a whole segment behind, a reader resynchronises at the current
\* one; the output between is lost.
Resync(r) ==
  IF sig.gen > gen[r] + 1 THEN [gen |-> sig.gen, offset |-> 0]
                          ELSE [gen |-> gen[r], offset |-> offset[r]]

\* #drainOutLog reads the stream map, once per wake.
ReadSig(r) ==
  /\ phase[r] = "idle"
  /\ sig # NoSig
  /\ phase' = [phase EXCEPT ![r] = "drain"]
  /\ snap' = [snap EXCEPT ![r] = sig]
  /\ gen' = [gen EXCEPT ![r] = Resync(r).gen]
  /\ offset' = [offset EXCEPT ![r] = Resync(r).offset]
  /\ skipped' = [skipped EXCEPT ![r] = @ \/ sig.gen > gen[r] + 1]
  /\ UNCHANGED <<cum, lastAck, acks, delivered, hostVars, diskVars, otherVars>>

\* The frames that end in (a, b], in order.
FramesIn(a, b) ==
  LET before == Cardinality({f \in 1..Len(ends) : ends[f] <= a})
      upto   == Cardinality({f \in 1..Len(ends) : ends[f] <= b})
  IN [i \in 1..(upto - before) |-> before + i]

\* What #drainSegment can read now: nothing if the file is gone or has not
\* grown, and nothing if the snapshot went stale under it.
Readable(r) ==
  IF gen[r] \in disk THEN {EndOf(gen[r]) - Place(r)} \cup (IF StaleReads THEN {0} ELSE {})
                     ELSE {0}

\* Mutant: hops as soon as the map names a later segment.
Finished_AtOnce(r, off) == TRUE
\* Mutant: waits for a byte past the end of the finished segment.
Finished_Never(r, off) == off > snap[r].prevFinal
\* The segment being read is finished and read to its end.
Finished(r, off) == off >= snap[r].prevFinal

\* #maybeAck acks the bytes consumed since the stream began.
AckValue(r, n) == cum[r] + n

\* One turn of #drainOutLog's loop: drain the segment, then hop if the map
\* says it is finished, else ack and go back to sleep.  due stands for the
\* 250 ms / 256 KB throttle.
Drain(r, due) ==
  /\ phase[r] = "drain"
  /\ \E n \in Readable(r) :
       LET off   == offset[r] + n
           hop   == gen[r] < snap[r].gen /\ Finished(r, off)
           ackIt == ~hop /\ due /\ cum[r] + n > lastAck[r]
       IN /\ delivered' = [delivered EXCEPT ![r] = @ \o FramesIn(Place(r), Place(r) + n)]
          /\ cum' = [cum EXCEPT ![r] = @ + n]
          /\ gen' = [gen EXCEPT ![r] = IF hop THEN @ + 1 ELSE @]
          /\ offset' = [offset EXCEPT ![r] = IF hop THEN 0 ELSE off]
          /\ phase' = [phase EXCEPT ![r] = IF hop THEN "drain" ELSE "idle"]
          /\ snap' = [snap EXCEPT ![r] = IF hop THEN @ ELSE NoSig]
          /\ acks' = [acks EXCEPT ![r] = IF ackIt THEN Append(@, AckValue(r, n)) ELSE @]
          /\ lastAck' = [lastAck EXCEPT ![r] = IF ackIt THEN cum[r] + n ELSE @]
  /\ UNCHANGED <<skipped, hostVars, diskVars, otherVars>>

-----------------------------------------------------------------------------
Read(r) == ReadSig(r) \/ \E due \in BOOLEAN : Drain(r, due)

Next ==
  \/ AppendOutput \/ AppendControl \/ Publish \/ HostAck
  \/ \E r \in Readers : Grant(r) \/ Attach(r) \/ Vanish(r) \/ Read(r)

Spec == Init /\ [][Next]_vars

\* A page that is open wakes again and again (observer, hot poll, safety
\* poll), further apart than the ack throttle, and a snapshot is not stale
\* for ever; the host finishes what it began and keeps scanning.
Progress(r) == Drain(r, TRUE) /\ (gen[r] \in disk /\ EndOf(gen[r]) > Place(r) => cum'[r] > cum[r])

FairSpec ==
  /\ Spec
  /\ WF_vars(Publish) /\ WF_vars(HostAck)
  /\ \A r \in Readers : /\ WF_vars(ReadSig(r)) /\ WF_vars(Read(r))
                        /\ SF_vars(Progress(r))
                        /\ WF_vars(Grant(r))

-----------------------------------------------------------------------------
(* Properties *)

TypeOK ==
  /\ outGen \in Nat /\ segBytes \in Nat /\ prevFinal \in Nat
  /\ outTotal \in Nat /\ ackTotal \in Nat
  /\ paused \in BOOLEAN /\ writing \in BOOLEAN
  /\ doneSegs \subseteq [gen : Nat, endTotal : Nat]
  /\ ends \in Seq(Nat) /\ segStart \in Seq(Nat) /\ disk \subseteq Nat
  /\ sig \in [gen : Nat, size : 0..(SegMax - 1), prevFinal : Nat, total : Nat] \cup {NoSig}
  /\ phase \in [Readers -> {"off", "idle", "drain"}]
  /\ snap \in [Readers -> [gen : Nat, size : Nat, prevFinal : Nat, total : Nat] \cup {NoSig}]
  /\ gen \in [Readers -> Nat] /\ offset \in [Readers -> Nat]
  /\ cum \in [Readers -> Nat] /\ lastAck \in [Readers -> Nat]
  /\ acks \in [Readers -> Seq(Nat)] /\ delivered \in [Readers -> Seq(Nat)]
  /\ skipped \in [Readers -> BOOLEAN]
  /\ asked \subseteq Readers /\ writer \in Readers /\ control \in Nat

\* No output is deleted before the client in charge has read it: every
\* segment from the writer's own on is still on disk.  Nor is it kept much
\* longer: disk peaks at two segments however much is written (D9).
SegmentsKept ==
  /\ \A g \in gen[writer]..outGen :
       g \in disk \/ EndOf(g) <= Place(writer) \/ EndOf(g) = StartOf(g)
  /\ Cardinality(disk) <= 2

\* The byte accounts of the two programs agree: what a reader believes it has
\* consumed, and acks, is its place in the stream until it resynchronises, and
\* the host never counts as acknowledged what its writer has not read.
HonestAccounts ==
  /\ \A r \in Readers : ~skipped[r] => cum[r] = Place(r)
  /\ ackTotal <= outTotal
  /\ \A i \in 1..Len(acks[writer]) : acks[writer][i] <= cum[writer]

\* Even a reader that lost output sees what it sees in stream order, once.
NeverTwice ==
  \A r \in Readers : \A i, j \in 1..Len(delivered[r]) : i < j => delivered[r][i] < delivered[r][j]

\* A process is paused exactly as the window says: a lost or late resume
\* would leave it stopped with nothing unread.
PauseMatchesWindow ==
  HasProc /\ ~writing => IF paused THEN outTotal - ackTotal > AckResume
                                   ELSE outTotal - ackTotal <= AckWindow

\* The spawning client's stream is a reliable channel.
Channel == INSTANCE FifoChannel
             WITH sent <- Len(ends), delivered <- delivered[Spawner], steady <- TRUE
ImplementsChannel == Channel!Spec

\* A paused process runs again as long as the client in charge is open.
PauseEnds == paused ~> (~paused \/ phase[writer] = "off")

\* Everything appended reaches an open client in charge.
CaughtUp ==
  \A f \in 1..MaxFrames :
    (Len(ends) >= f) ~> (phase[writer] = "off" \/ (Len(ends) >= f /\ Place(writer) >= ends[f]))
=============================================================================
