--------------------------- MODULE DownlinkProofs ---------------------------
(***************************************************************************)
(* The segmented log, for any sizes, limits, number of readers and any     *)
(* takeovers: the window decides the pause, the readers' byte accounts are *)
(* the host's, no output is shown twice, the client that spawned the       *)
(* session reads it as a channel, and no segment is deleted too soon or    *)
(* kept too long.                                                          *)
(***************************************************************************)
EXTENDS Downlink, FiniteSetTheorems, SequenceTheorems, TLAPS

Maps == [gen : Int, size : Nat, prevFinal : Nat, total : Nat]

\* The host's counters describe the log: where each segment starts, how long
\* the last finished one was, and what out.sig says of them.
LogInv ==
  /\ outGen \in Nat /\ segBytes \in Nat /\ prevFinal \in Nat /\ outTotal \in Nat
  /\ ends \in Seq(Nat) /\ segStart \in Seq(Nat) /\ Len(segStart) = outGen + 1
  /\ outTotal = StartOf(outGen) + segBytes /\ StartOf(0) = 0
  /\ \A g, h \in 0..outGen : g <= h => StartOf(g) <= StartOf(h)
  /\ outGen > 0 => StartOf(outGen) = StartOf(outGen - 1) + prevFinal
  /\ sig \in Maps
  /\ sig = NoSig \/ /\ sig.gen = outGen /\ sig.prevFinal = prevFinal
                    /\ sig.total = StartOf(outGen) + sig.size /\ sig.total <= outTotal

\* The readers' and the writer's variables.
ReaderTypes ==
  /\ phase \in [Readers -> {"off", "idle", "drain"}] /\ snap \in [Readers -> Maps]
  /\ gen \in [Readers -> Nat] /\ offset \in [Readers -> Nat] /\ cum \in [Readers -> Nat]
  /\ acks \in [Readers -> Seq(Nat)] /\ delivered \in [Readers -> Seq(Nat)]
  /\ skipped \in [Readers -> BOOLEAN]
  /\ ackTotal \in Nat /\ paused \in BOOLEAN /\ writing \in BOOLEAN
  /\ asked \subseteq Readers /\ writer \in Readers

LEMMA AppendFacts ==
  ASSUME NEW S, NEW s \in Seq(S), NEW e \in S
  PROVE  /\ Append(s, e) \in Seq(S) /\ Len(s) \in Nat /\ Len(Append(s, e)) = Len(s) + 1
         /\ \A i \in 1..Len(s) : Append(s, e)[i] = s[i]
         /\ Append(s, e)[Len(s) + 1] = e
         /\ \A i \in 1..Len(Append(s, e)) : i \in 1..Len(s) \/ i = Len(s) + 1
  OBVIOUS

LEMMA NothingOf == ASSUME NEW S PROVE <<>> \in Seq(S) /\ Len(<<>>) = 0
  OBVIOUS

-----------------------------------------------------------------------------
(* The log *)

LEMMA InitLog == Init => LogInv
<1> SUFFICES ASSUME Init PROVE LogInv
  OBVIOUS
<1>1. segStart \in Seq(Nat) /\ Len(segStart) = 1 /\ segStart[1] = 0 /\ ends \in Seq(Nat)
  <2>1. segStart = <<0>> /\ ends = <<>>
    BY DEF Init
  <2> QED
    BY <2>1
<1>2. NoSig \in Maps
  BY DEF NoSig, Maps
<1> QED
  BY <1>1, <1>2 DEF Init, LogInv, StartOf

LEMMA LogStays ==
  ASSUME LogInv, UNCHANGED <<outGen, segBytes, prevFinal, outTotal, ends, segStart, sig>>
  PROVE  LogInv' /\ \A g : StartOf(g)' = StartOf(g) /\ EndOf(g)' = EndOf(g)
<1>1. \A g : StartOf(g)' = StartOf(g) /\ EndOf(g)' = EndOf(g)
  BY DEF StartOf, EndOf
<1> QED
  BY <1>1 DEF LogInv, StartOf

LEMMA LogAppends ==
  ASSUME LogInv, NEW n \in Nat, AppendFrame(n)
  PROVE  /\ LogInv' /\ outTotal <= outTotal' /\ outGen' = outGen
         /\ \A g \in 0..outGen : StartOf(g)' = StartOf(g) /\ EndOf(g) <= EndOf(g)'
         /\ ends' = Append(ends, outTotal + n)
<1>1. /\ outTotal' = outTotal + n /\ segBytes' = segBytes + n
      /\ ends' = Append(ends, outTotal + n)
      /\ UNCHANGED <<outGen, prevFinal, segStart, sig>>
  BY DEF AppendFrame
<1>2. ends' \in Seq(Nat)
  BY <1>1, AppendFacts DEF LogInv
<1>3. \A g : StartOf(g)' = StartOf(g)
  BY <1>1 DEF StartOf
<1>4. \A g \in 0..outGen : g # outGen => segStart[g + 2] \in Nat
  BY DEF LogInv
<1>5. \A g \in 0..outGen : EndOf(g) <= EndOf(g)'
  BY <1>1, <1>4, SMTT(60) DEF LogInv, EndOf
<1>6. LogInv'
  <2>0. segStart[0 + 1] = 0
    BY DEF LogInv, StartOf
  <2>1. segStart[outGen + 1] \in Nat /\ (outGen > 0 => segStart[(outGen - 1) + 1] \in Nat)
    BY SMTT(60) DEF LogInv
  <2>2. outTotal' \in Nat /\ segBytes' \in Nat /\ outTotal' = segStart[outGen + 1] + segBytes'
    <3>1. outTotal \in Nat /\ segBytes \in Nat /\ outTotal = segStart[outGen + 1] + segBytes
      BY DEF LogInv, StartOf
    <3> QED
      BY <1>1, <2>1, <3>1
  <2>3. \A g, h \in 0..outGen : g <= h => segStart[g + 1] <= segStart[h + 1]
    BY DEF LogInv, StartOf
  <2>4. sig = NoSig \/ /\ sig.gen = outGen /\ sig.prevFinal = prevFinal
                       /\ sig.total = segStart[outGen + 1] + sig.size /\ sig.total <= outTotal'
    <3>1. sig.total \in Nat
      BY DEF LogInv, Maps
    <3> QED
      BY <1>1, <3>1, SMTT(60) DEF LogInv, StartOf
  <2> QED
    BY <1>1, <1>2, <2>0, <2>1, <2>2, <2>3, <2>4 DEF LogInv, StartOf
<1> QED
  BY <1>1, <1>3, <1>5, <1>6, SMTT(60) DEF LogInv

LEMMA LogPublishes ==
  ASSUME LogInv, Publish
  PROVE  /\ LogInv' /\ outTotal' = outTotal /\ outGen <= outGen' /\ ends' = ends
         /\ \A g \in 0..outGen : StartOf(g)' = StartOf(g) /\ EndOf(g)' = EndOf(g)
<1>1. UNCHANGED <<outTotal, ends>>
      /\ sig' = [gen |-> outGen', size |-> segBytes', prevFinal |-> prevFinal', total |-> outTotal]
  BY DEF Publish
<1>2. CASE Full
  <2>1. /\ prevFinal' = segBytes /\ outGen' = outGen + 1 /\ segBytes' = 0
        /\ segStart' = Append(segStart, outTotal)
    BY <1>2 DEF Publish
  <2>2. /\ segStart' \in Seq(Nat) /\ Len(segStart') = outGen' + 1
        /\ \A i \in 1..(outGen + 1) : segStart'[i] = segStart[i]
        /\ segStart'[outGen + 2] = outTotal
    BY <2>1, AppendFacts DEF LogInv
  <2>3. /\ \A g \in 0..outGen : segStart'[g + 1] = segStart[g + 1] /\ segStart[g + 1] \in Nat
        /\ \A g \in 0..outGen : g # outGen => segStart'[g + 2] = segStart[g + 2]
    <3>1. segStart \in Seq(Nat) /\ Len(segStart) = outGen + 1 /\ outGen \in Nat
      BY DEF LogInv
    <3> QED
      BY <2>2, <3>1, SMTT(60)
  <2>4. \A g \in 0..outGen : segStart[g + 1] <= outTotal
    <3>1. \A g \in 0..outGen : segStart[g + 1] <= segStart[outGen + 1]
      BY DEF LogInv, StartOf
    <3>2. segStart[outGen + 1] \in Nat /\ segStart[outGen + 1] <= outTotal
      BY <2>3 DEF LogInv, StartOf
    <3> QED
      BY <2>3, <3>1, <3>2 DEF LogInv
  <2>5. \A g, h \in 0..outGen' : g <= h => segStart'[g + 1] <= segStart'[h + 1]
    <3>1. SUFFICES ASSUME NEW g \in 0..outGen', NEW h \in 0..outGen', g <= h
                   PROVE  segStart'[g + 1] <= segStart'[h + 1]
      OBVIOUS
    <3>2. CASE h \in 0..outGen
      BY <2>3, <3>1, <3>2, SMTT(60) DEF LogInv, StartOf
    <3>3. CASE h = outGen + 1
      <4>1. segStart'[h + 1] = outTotal
        BY <2>2, <3>3 DEF LogInv
      <4> QED
        BY <2>1, <2>3, <2>4, <3>1, <3>3, <4>1, SMTT(60) DEF LogInv
    <3> QED
      BY <2>1, <3>2, <3>3 DEF LogInv
  <2>6. outTotal = segStart'[outGen' + 1] /\ outTotal = segStart'[(outGen' - 1) + 1] + segBytes
    BY <2>1, <2>2, <2>3 DEF LogInv, StartOf
  <2>7. sig' \in Maps
    BY <1>1, <2>1 DEF LogInv, Maps
  <2>8. /\ sig'.gen = outGen' /\ sig'.prevFinal = prevFinal'
        /\ sig'.total = segStart'[outGen' + 1] + sig'.size /\ sig'.total <= outTotal
    BY <1>1, <2>1, <2>6 DEF LogInv
  <2>9. segStart'[0 + 1] = 0
    <3>1. 0 \in 0..outGen /\ segStart[0 + 1] = 0
      BY DEF LogInv, StartOf
    <3> QED
      BY <2>3, <3>1
  <2>10. LogInv'
    <3>1. outTotal \in Nat /\ segBytes \in Nat /\ outGen \in Nat /\ ends \in Seq(Nat)
      BY DEF LogInv
    <3>2. outGen' \in Nat /\ segBytes' = 0 /\ prevFinal' = segBytes
      BY <2>1, <3>1
    <3>3. outTotal' \in Nat /\ segBytes' \in Nat /\ prevFinal' \in Nat /\ ends' \in Seq(Nat)
      BY <1>1, <3>1, <3>2
    <3>4. outTotal' = segStart'[outGen' + 1] + segBytes'
      BY <1>1, <2>6, <3>1, <3>2
    <3>5. segStart'[outGen' + 1] = segStart'[(outGen' - 1) + 1] + prevFinal'
      BY <2>6, <3>2, Zenon
    <3>6. sig'.total <= outTotal'
      BY <1>1, <2>8
    <3> QED
      BY <2>2, <2>5, <2>7, <2>8, <2>9, <3>2, <3>3, <3>4, <3>5, <3>6 DEF LogInv, StartOf
  <2>11. \A g \in 0..outGen : EndOf(g)' = EndOf(g)
    BY <2>1, <2>2, <2>3 DEF LogInv, EndOf
  <2>12. \A g \in 0..outGen : StartOf(g)' = StartOf(g)
    BY <2>3 DEF StartOf
  <2> QED
    BY <1>1, <2>1, <2>10, <2>11, <2>12 DEF LogInv
<1>3. CASE ~Full
  <2>1. UNCHANGED <<outGen, segBytes, prevFinal, segStart>>
    BY <1>3 DEF Publish
  <2>2. sig' \in Maps
    BY <1>1, <2>1 DEF LogInv, Maps
  <2>3. /\ sig'.gen = outGen /\ sig'.prevFinal = prevFinal
        /\ sig'.total = segStart[outGen + 1] + sig'.size /\ sig'.total <= outTotal
    BY <1>1, <2>1 DEF LogInv, StartOf
  <2>4. LogInv'
    BY <1>1, <2>1, <2>2, <2>3 DEF LogInv, StartOf
  <2> QED
    BY <1>1, <2>1, <2>4 DEF LogInv, StartOf, EndOf
<1> QED
  BY <1>2, <1>3

-----------------------------------------------------------------------------
(* The readers *)

\* A reader's place is in the log; it is what the reader has counted, unless
\* it resynchronised; while it drains, the map it works from is at most one
\* segment ahead and tells how long its own is; and its acks are of what it
\* has counted.
Kept(r) ==
  /\ gen[r] <= outGen /\ Place(r) <= EndOf(gen[r])
  /\ cum[r] <= Place(r) /\ (~skipped[r] => cum[r] = Place(r))
  /\ phase[r] = "drain" =>
       /\ snap[r].gen <= outGen /\ snap[r].gen <= gen[r] + 1
       /\ snap[r].gen = gen[r] + 1 => StartOf(gen[r] + 1) = StartOf(gen[r]) + snap[r].prevFinal
  /\ phase[r] = "off" /\ r # Spawner => delivered[r] = <<>> /\ acks[r] = <<>>
  /\ \A i \in 1..Len(acks[r]) : acks[r][i] <= cum[r]

AccountsInv == ackTotal <= outTotal /\ \A r \in Readers : Kept(r)

LEMMA InitReaders == Init => ReaderTypes /\ AccountsInv
<1> SUFFICES ASSUME Init PROVE ReaderTypes /\ AccountsInv
  OBVIOUS
<1>1. NoSig \in Maps
  BY DEF NoSig, Maps
<1>2. ReaderTypes
  BY <1>1, NothingOf, ReadersAssumption DEF Init, ReaderTypes
<1>3. AccountsInv
  <2>1. segStart[1] = 0
    BY DEF Init
  <2> QED
    BY <2>1, NothingOf DEF Init, AccountsInv, Kept, Place, StartOf, EndOf
<1> QED
  BY <1>2, <1>3

\* Where a segment starts and ends, and where a reader can be.
LEMMA LogBounds ==
  ASSUME LogInv, NEW g \in 0..outGen
  PROVE  /\ StartOf(g) \in Nat /\ EndOf(g) \in Nat /\ StartOf(g) <= EndOf(g) /\ EndOf(g) <= outTotal
         /\ \A h \in 0..outGen : g < h => EndOf(g) = StartOf(g + 1) /\ EndOf(g) <= StartOf(h)
<1>1. outGen \in Nat /\ outTotal \in Nat /\ \A h \in 0..outGen : StartOf(h) \in Nat
  BY SMTT(60) DEF LogInv, StartOf
<1>2. StartOf(outGen) <= outTotal
  BY <1>1 DEF LogInv
<1>3. \A h, k \in 0..outGen : h <= k => StartOf(h) <= StartOf(k)
  BY DEF LogInv
<1>4. CASE g = outGen
  BY <1>1, <1>2, <1>4 DEF EndOf
<1>5. CASE g < outGen
  <2>1. g + 1 \in 0..outGen /\ outGen \in 0..outGen /\ g <= g + 1 /\ g + 1 <= outGen
    BY <1>1, <1>5
  <2>2. EndOf(g) = StartOf(g + 1)
    BY <1>1, <1>5 DEF EndOf, StartOf
  <2>3. StartOf(g) <= StartOf(g + 1) /\ StartOf(g + 1) <= StartOf(outGen)
    BY <1>3, <2>1
  <2>4. \A h \in 0..outGen : g < h => StartOf(g + 1) <= StartOf(h)
    BY <1>1, <1>3, <2>1
  <2> QED
    BY <1>1, <1>2, <1>5, <2>1, <2>2, <2>3, <2>4
<1> QED
  BY <1>1, <1>4, <1>5

\* The log grows, and a reader's own variables stay, but for its page's
\* closing and the host's taking an ack.
LogGrows ==
  /\ outGen <= outGen'
  /\ \A g \in 0..outGen : StartOf(g)' = StartOf(g) /\ EndOf(g) <= EndOf(g)' /\ EndOf(g)' \in Nat
  /\ ends' = ends \/ \E e \in Nat : ends' = Append(ends, e)

Still(r) ==
  /\ gen'[r] = gen[r] /\ offset'[r] = offset[r] /\ cum'[r] = cum[r] /\ skipped'[r] = skipped[r]
  /\ phase'[r] = phase[r] \/ (phase'[r] # "drain" /\ r = Spawner)
  /\ snap'[r] = snap[r] \/ phase'[r] # "drain"
  /\ delivered'[r] = delivered[r]
  /\ acks'[r] = acks[r] \/ (acks[r] # <<>> /\ acks'[r] = Tail(acks[r]))

LEMMA KeptStays ==
  ASSUME LogInv, ReaderTypes, NEW r \in Readers, Kept(r), outGen' \in Nat, LogGrows, Still(r)
  PROVE  Kept(r)'
<1> USE DEF LogGrows, Still
<1>1. gen[r] \in 0..outGen /\ outGen \in Nat /\ offset[r] \in Nat
  BY DEF LogInv, ReaderTypes, Kept
<1>2. \A g \in 0..outGen : segStart'[g + 1] = segStart[g + 1] /\ segStart[g + 1] \in Nat
  <2>1. \A g \in 0..outGen : StartOf(g)' = StartOf(g)
    OBVIOUS
  <2>2. segStart \in Seq(Nat) /\ Len(segStart) = outGen + 1 /\ outGen \in Nat
    BY DEF LogInv
  <2> QED
    BY <2>1, <2>2, SMTT(60) DEF StartOf
<1>3. Place(r)' = Place(r) /\ Place(r) \in Nat
  BY <1>1, <1>2, SMTT(60) DEF Place, StartOf
<1>4. Place(r) <= EndOf(gen[r])'
  <2>1. EndOf(gen[r])' \in Nat /\ EndOf(gen[r]) \in Nat
    BY <1>1, LogBounds DEF EndOf
  <2>2. EndOf(gen[r]) <= EndOf(gen[r])'
    BY <1>1 DEF EndOf
  <2> QED
    BY <1>3, <2>1, <2>2 DEF Kept
<1>5. (phase[r] = "drain")' =>
        /\ snap'[r].gen <= outGen' /\ snap'[r].gen <= gen'[r] + 1
        /\ snap'[r].gen = gen'[r] + 1 => segStart'[gen'[r] + 2] = segStart'[gen'[r] + 1] + snap'[r].prevFinal
  <2>1. SUFFICES ASSUME phase'[r] = "drain" PROVE
        /\ snap[r].gen <= outGen' /\ snap[r].gen <= gen[r] + 1
        /\ snap[r].gen = gen[r] + 1 => segStart'[gen[r] + 2] = segStart'[gen[r] + 1] + snap[r].prevFinal
    OBVIOUS
  <2>2. phase[r] = "drain" /\ snap[r].gen \in Int
    BY <2>1 DEF ReaderTypes, Maps
  <2>3. /\ snap[r].gen <= outGen /\ snap[r].gen <= gen[r] + 1
        /\ snap[r].gen = gen[r] + 1 =>
             gen[r] + 1 \in 0..outGen /\ segStart[(gen[r] + 1) + 1] = segStart[gen[r] + 1] + snap[r].prevFinal
    BY <1>1, <2>2 DEF Kept, StartOf
  <2>4. snap[r].gen = gen[r] + 1 => segStart'[(gen[r] + 1) + 1] = segStart[(gen[r] + 1) + 1]
    BY <1>2, <2>3
  <2> QED
    BY <1>1, <1>2, <2>2, <2>3, <2>4, SMTT(60)
<1>6. \A i \in 1..Len(acks'[r]) : acks'[r][i] <= cum[r]
  <2>1. acks[r] \in Seq(Nat)
    BY DEF ReaderTypes
  <2>2. CASE acks'[r] = acks[r]
    BY <2>2 DEF Kept
  <2>3. CASE acks[r] # <<>> /\ acks'[r] = Tail(acks[r])
    <3>1. \A i \in 1..Len(acks'[r]) : i + 1 \in 1..Len(acks[r]) /\ acks'[r][i] = acks[r][i + 1]
      BY <2>1, <2>3
    <3> QED
      BY <3>1 DEF Kept
  <2> QED
    BY <2>2, <2>3
<1>7. phase'[r] = "off" /\ r # Spawner => delivered'[r] = <<>> /\ acks'[r] = <<>>
  BY DEF Kept
<1>8. (gen[r] + 1) + 1 = gen[r] + 2
  BY <1>1
<1> QED
  BY <1>1, <1>3, <1>4, <1>5, <1>6, <1>7, <1>8 DEF Kept, StartOf, EndOf

-----------------------------------------------------------------------------
(* Frames *)

\* The frames of a log that end by a place.
CountIn(s, a) == Cardinality({f \in 1..Len(s) : s[f] <= a})

LEMMA CountFacts ==
  ASSUME NEW s \in Seq(Nat), NEW a \in Nat, NEW b \in Nat, a <= b
  PROVE  CountIn(s, a) \in Nat /\ CountIn(s, b) \in Nat /\ CountIn(s, a) <= CountIn(s, b)
<1> DEFINE A == {f \in 1..Len(s) : s[f] <= a}
           B == {f \in 1..Len(s) : s[f] <= b}
<1>1. IsFiniteSet(1..Len(s))
  BY FS_Interval
<1>2. A \subseteq 1..Len(s) /\ B \subseteq 1..Len(s) /\ A \subseteq B
  OBVIOUS
<1>3. IsFiniteSet(A) /\ IsFiniteSet(B)
  BY <1>1, <1>2, FS_Subset
<1>4. Cardinality(A) \in Nat /\ Cardinality(B) \in Nat /\ Cardinality(A) <= Cardinality(B)
  BY <1>2, <1>3, FS_Subset, FS_CardinalityType
<1> QED
  BY <1>4 DEF CountIn

LEMMA CountGrows ==
  ASSUME NEW s \in Seq(Nat), NEW e \in Nat, NEW a \in Nat
  PROVE  CountIn(s, a) <= CountIn(Append(s, e), a)
<1> DEFINE t == Append(s, e)
           A == {f \in 1..Len(s) : s[f] <= a}
           B == {f \in 1..Len(t) : t[f] <= a}
<1>1. /\ Len(t) = Len(s) + 1 /\ Len(s) \in Nat /\ \A i \in 1..Len(s) : t[i] = s[i]
  BY AppendFacts
<1> HIDE DEF t
<1>2. IsFiniteSet(1..Len(t))
  BY <1>1, FS_Interval
<1>3. A \subseteq B /\ B \subseteq 1..Len(t)
  BY <1>1
<1>4. IsFiniteSet(B)
  BY <1>2, <1>3, FS_Subset
<1>5. Cardinality(A) <= Cardinality(B)
  BY <1>3, <1>4, FS_Subset
<1> QED
  BY <1>5 DEF CountIn, t

LEMMA FramesInFacts ==
  ASSUME ends \in Seq(Nat), NEW a \in Nat, NEW b \in Nat, a <= b
  PROVE  /\ FramesIn(a, b) \in Seq(Nat)
         /\ Len(FramesIn(a, b)) = CountIn(ends, b) - CountIn(ends, a)
         /\ \A i \in 1..Len(FramesIn(a, b)) : FramesIn(a, b)[i] = CountIn(ends, a) + i
<1> DEFINE lo == CountIn(ends, a)
           hi == CountIn(ends, b)
<1>1. lo \in Nat /\ hi \in Nat /\ lo <= hi
  BY CountFacts
<1>2. FramesIn(a, b) = [i \in 1..(hi - lo) |-> lo + i]
  BY DEF FramesIn, CountIn
<1> HIDE DEF lo, hi
<1>3. /\ [i \in 1..(hi - lo) |-> lo + i] \in Seq(Nat)
      /\ Len([i \in 1..(hi - lo) |-> lo + i]) = hi - lo
  <2>1. hi - lo \in Nat
    BY <1>1
  <2>2. [i \in 1..(hi - lo) |-> lo + i] \in [1..(hi - lo) -> Nat]
    BY <1>1
  <2> QED
    BY <2>1, <2>2, SMTT(60)
<1> QED
  BY <1>1, <1>2, <1>3 DEF lo, hi

-----------------------------------------------------------------------------
(* The readers' steps *)

\* One turn of the loop takes a reader to where it has read, hop or no hop.
LEMMA DrainMoves ==
  ASSUME LogInv, ReaderTypes, NEW r \in Readers, Kept(r), NEW due \in BOOLEAN, Drain(r, due)
  PROVE  \E n \in Nat :
           /\ Place(r) + n <= EndOf(gen[r]) /\ Place(r) \in Nat
           /\ delivered' = [delivered EXCEPT ![r] = @ \o FramesIn(Place(r), Place(r) + n)]
           /\ cum' = [cum EXCEPT ![r] = @ + n]
           /\ acks' = acks \/ acks' = [acks EXCEPT ![r] = Append(@, cum[r] + n)]
           /\ \E g \in 0..outGen, off \in Nat :
                /\ gen' = [gen EXCEPT ![r] = g] /\ offset' = [offset EXCEPT ![r] = off]
                /\ StartOf(g) + off = Place(r) + n /\ StartOf(g) + off <= EndOf(g)
                /\ \/ /\ phase' = [phase EXCEPT ![r] = "drain"] /\ snap' = snap
                      /\ snap[r].gen <= outGen /\ snap[r].gen = g
                   \/ phase' = [phase EXCEPT ![r] = "idle"] /\ snap' = [snap EXCEPT ![r] = NoSig]
<1>1. /\ gen[r] \in 0..outGen /\ offset[r] \in Nat /\ cum[r] \in Nat /\ outGen \in Nat
      /\ phase[r] = "drain" /\ snap[r] \in Maps
  BY DEF ReaderTypes, LogInv, Kept, Drain
<1>2. /\ StartOf(gen[r]) \in Nat /\ EndOf(gen[r]) \in Nat
      /\ \A h \in 0..outGen : gen[r] < h => EndOf(gen[r]) = StartOf(gen[r] + 1)
  BY <1>1, LogBounds
<1>3. Place(r) = StartOf(gen[r]) + offset[r] /\ Place(r) \in Nat /\ Place(r) <= EndOf(gen[r])
  BY <1>1, <1>2 DEF Place, Kept
<1>4. PICK n \in Readable(r) :
        LET off   == offset[r] + n
            hop   == gen[r] < snap[r].gen /\ Finished(r, off)
            ackIt == ~hop /\ due /\ cum[r] + n > lastAck[r]
        IN /\ delivered' = [delivered EXCEPT ![r] = @ \o FramesIn(Place(r), Place(r) + n)]
           /\ cum' = [cum EXCEPT ![r] = @ + n]
           /\ gen' = [gen EXCEPT ![r] = IF hop THEN @ + 1 ELSE @]
           /\ offset' = [offset EXCEPT ![r] = IF hop THEN 0 ELSE off]
           /\ phase' = [phase EXCEPT ![r] = IF hop THEN "drain" ELSE "idle"]
           /\ snap' = [snap EXCEPT ![r] = IF hop THEN @ ELSE NoSig]
           /\ acks' = [acks EXCEPT ![r] = IF ackIt THEN Append(@, AckValue(r, n)) ELSE @]
  BY Zenon DEF Drain
<1>5. n \in Nat /\ Place(r) + n <= EndOf(gen[r])
  BY <1>2, <1>3 DEF Readable
<1> DEFINE off == offset[r] + n
           hop == gen[r] < snap[r].gen /\ Finished(r, off)
<1>6. acks' = acks \/ acks' = [acks EXCEPT ![r] = Append(@, cum[r] + n)]
  BY <1>4 DEF AckValue, ReaderTypes
<1>7. CASE hop
  <2>1. snap[r].gen = gen[r] + 1 /\ snap[r].gen \in 0..outGen
    BY <1>1, <1>7 DEF Kept, Maps
  <2>2. StartOf(gen[r] + 1) = StartOf(gen[r]) + snap[r].prevFinal
    BY <1>1, <2>1 DEF Kept
  <2>3. off >= snap[r].prevFinal /\ snap[r].prevFinal \in Nat
    BY <1>1, <1>7 DEF Finished, Maps
  <2>4. EndOf(gen[r]) = StartOf(gen[r] + 1)
    BY <1>1, <1>2, <2>1
  <2>5. StartOf(gen[r] + 1) = Place(r) + n
    BY <1>1, <1>2, <1>3, <1>5, <2>2, <2>3, <2>4
  <2>6. StartOf(gen[r] + 1) <= EndOf(gen[r] + 1) /\ StartOf(gen[r] + 1) \in Nat
    BY <2>1, LogBounds
  <2>7. /\ gen' = [gen EXCEPT ![r] = gen[r] + 1] /\ offset' = [offset EXCEPT ![r] = 0]
        /\ phase' = [phase EXCEPT ![r] = "drain"] /\ snap' = snap
    BY <1>4, <1>7 DEF ReaderTypes
  <2>8. \E g \in 0..outGen, o \in Nat :
          /\ gen' = [gen EXCEPT ![r] = g] /\ offset' = [offset EXCEPT ![r] = o]
          /\ StartOf(g) + o = Place(r) + n /\ StartOf(g) + o <= EndOf(g)
          /\ \/ /\ phase' = [phase EXCEPT ![r] = "drain"] /\ snap' = snap
                /\ snap[r].gen <= outGen /\ snap[r].gen = g
             \/ phase' = [phase EXCEPT ![r] = "idle"] /\ snap' = [snap EXCEPT ![r] = NoSig]
    <3> DEFINE g == gen[r] + 1
    <3>1. g \in 0..outGen /\ snap[r].gen = g /\ snap[r].gen <= outGen
      BY <1>1, <2>1
    <3>2. StartOf(g) + 0 = Place(r) + n /\ StartOf(g) + 0 <= EndOf(g)
      BY <2>5, <2>6
    <3> HIDE DEF g
    <3>3. gen' = [gen EXCEPT ![r] = g]
      BY <2>7 DEF g
    <3> QED
      BY <2>7, <3>1, <3>2, <3>3
  <2> QED
    BY <1>3, <1>4, <1>5, <1>6, <2>8
<1>8. CASE ~hop
  <2>1. /\ gen' = [gen EXCEPT ![r] = gen[r]] /\ offset' = [offset EXCEPT ![r] = off]
        /\ phase' = [phase EXCEPT ![r] = "idle"] /\ snap' = [snap EXCEPT ![r] = NoSig]
    BY <1>4, <1>8
  <2>2. off \in Nat /\ StartOf(gen[r]) + off = Place(r) + n
    BY <1>1, <1>2, <1>3, <1>5
  <2> QED
    BY <1>1, <1>3, <1>4, <1>5, <1>6, <2>1, <2>2
<1> QED
  BY <1>7, <1>8

\* One turn of the loop adds what it read to the account.
LEMMA DrainCounts ==
  ASSUME LogInv, ReaderTypes, NEW r \in Readers, Kept(r), NEW due \in BOOLEAN, Drain(r, due)
  PROVE  \E n \in Nat : cum' = [cum EXCEPT ![r] = @ + n]
<1>1. gen[r] \in 0..outGen /\ offset[r] \in Nat /\ Place(r) <= EndOf(gen[r])
  BY DEF ReaderTypes, LogInv, Kept
<1>2. StartOf(gen[r]) \in Nat /\ EndOf(gen[r]) \in Nat
  BY <1>1, LogBounds
<1>3. Place(r) \in Nat
  BY <1>1, <1>2 DEF Place
<1>4. Readable(r) \subseteq Nat
  BY <1>1, <1>2, <1>3 DEF Readable
<1>5. \E n \in Readable(r) : cum' = [cum EXCEPT ![r] = @ + n]
  BY Zenon DEF Drain
<1> QED
  BY <1>4, <1>5

\* What a reader was shown lies before its place, and is in order.
Shown(r) ==
  /\ \A i \in 1..Len(delivered[r]) : delivered[r][i] <= CountIn(ends, Place(r))
  /\ \A i, j \in 1..Len(delivered[r]) : i < j => delivered[r][i] < delivered[r][j]

ShownInv == \A r \in Readers : Shown(r)

LEMMA InitShown == Init => ShownInv
  BY NothingOf DEF Init, ShownInv, Shown

LEMMA ShownStays ==
  ASSUME LogInv, NEW r \in Readers, delivered[r] \in Seq(Nat), Shown(r), delivered'[r] = delivered[r],
         Place(r) \in Nat, Place(r)' \in Nat, Place(r) <= Place(r)',
         ends' = ends \/ \E e \in Nat : ends' = Append(ends, e)
  PROVE  Shown(r)'
<1>1. ends \in Seq(Nat)
  BY DEF LogInv
<1>2. ends' \in Seq(Nat)
  BY <1>1, AppendFacts
<1>3. CountIn(ends, Place(r)) <= CountIn(ends', Place(r)) /\ CountIn(ends, Place(r)) \in Nat
  <2>1. CountIn(ends, Place(r)) \in Nat /\ Place(r) <= Place(r)
    BY <1>1, CountFacts
  <2>2. CASE ends' = ends
    BY <2>1, <2>2
  <2>3. CASE \E e \in Nat : ends' = Append(ends, e)
    BY <1>1, <2>1, <2>3, CountGrows
  <2> QED
    BY <2>1, <2>2, <2>3
<1>4. /\ CountIn(ends', Place(r)) <= CountIn(ends', Place(r)')
      /\ CountIn(ends', Place(r)) \in Nat /\ CountIn(ends', Place(r)') \in Nat
  BY <1>2, CountFacts
<1> DEFINE lo == CountIn(ends, Place(r))
           mid == CountIn(ends', Place(r))
           hi == CountIn(ends', Place(r)')
<1>5. lo <= hi /\ lo \in Nat /\ hi \in Nat
  BY <1>3, <1>4
<1>6. \A i \in 1..Len(delivered[r]) : delivered[r][i] <= hi
  <2>1. \A i \in 1..Len(delivered[r]) : delivered[r][i] <= lo /\ delivered[r][i] \in Nat
    BY DEF Shown
  <2> HIDE DEF lo, hi
  <2> QED
    BY <1>5, <2>1
<1> QED
  BY <1>6 DEF Shown

LEMMA DrainStep ==
  ASSUME LogInv, ReaderTypes, NEW r \in Readers, Kept(r), Shown(r),
         NEW due \in BOOLEAN, Drain(r, due)
  PROVE  ReaderTypes' /\ Kept(r)' /\ Shown(r)'
<1> DEFINE to(n) == Place(r) + n
<1>0. UNCHANGED <<outGen, outTotal, ends, segStart, skipped, ackTotal, paused, writing, asked, writer>>
  BY DEF Drain, hostVars, diskVars, otherVars
<1>1. PICK n \in Nat :
        /\ Place(r) + n <= EndOf(gen[r]) /\ Place(r) \in Nat
        /\ delivered' = [delivered EXCEPT ![r] = @ \o FramesIn(Place(r), Place(r) + n)]
        /\ cum' = [cum EXCEPT ![r] = @ + n]
        /\ acks' = acks \/ acks' = [acks EXCEPT ![r] = Append(@, cum[r] + n)]
        /\ \E g \in 0..outGen, off \in Nat :
             /\ gen' = [gen EXCEPT ![r] = g] /\ offset' = [offset EXCEPT ![r] = off]
             /\ StartOf(g) + off = Place(r) + n /\ StartOf(g) + off <= EndOf(g)
             /\ \/ /\ phase' = [phase EXCEPT ![r] = "drain"] /\ snap' = snap
                   /\ snap[r].gen <= outGen /\ snap[r].gen = g
                \/ phase' = [phase EXCEPT ![r] = "idle"] /\ snap' = [snap EXCEPT ![r] = NoSig]
  BY DrainMoves
<1>2. PICK g \in 0..outGen, off \in Nat :
        /\ gen' = [gen EXCEPT ![r] = g] /\ offset' = [offset EXCEPT ![r] = off]
        /\ StartOf(g) + off = Place(r) + n /\ StartOf(g) + off <= EndOf(g)
        /\ \/ /\ phase' = [phase EXCEPT ![r] = "drain"] /\ snap' = snap
              /\ snap[r].gen <= outGen /\ snap[r].gen = g
           \/ phase' = [phase EXCEPT ![r] = "idle"] /\ snap' = [snap EXCEPT ![r] = NoSig]
  BY <1>1
<1>n. n \in Nat /\ g \in Nat
  BY <1>1, <1>2 DEF LogInv
<1> DEFINE more == FramesIn(Place(r), Place(r) + n)
           lo   == CountIn(ends, Place(r))
           hi   == CountIn(ends, Place(r) + n)
<1>3. /\ more \in Seq(Nat) /\ Len(more) = hi - lo /\ \A i \in 1..Len(more) : more[i] = lo + i
      /\ lo \in Nat /\ hi \in Nat /\ lo <= hi
  <2>1. ends \in Seq(Nat) /\ Place(r) \in Nat /\ Place(r) + n \in Nat /\ Place(r) <= Place(r) + n
    BY <1>1, SMTT(60) DEF LogInv
  <2> QED
    BY <2>1, FramesInFacts, CountFacts
<1> HIDE DEF more, lo, hi
<1>4. /\ delivered' = [delivered EXCEPT ![r] = @ \o more] /\ cum[r] \in Nat
      /\ delivered[r] \in Seq(Nat) /\ acks[r] \in Seq(Nat)
  BY <1>1 DEF more, ReaderTypes
<1>5. /\ delivered[r] \o more \in Seq(Nat) /\ Len(delivered[r] \o more) = Len(delivered[r]) + Len(more)
      /\ \A i \in 1..(Len(delivered[r]) + Len(more)) :
           (delivered[r] \o more)[i] = IF i <= Len(delivered[r]) THEN delivered[r][i]
                                                                 ELSE more[i - Len(delivered[r])]
  BY <1>3, <1>4, ConcatProperties, Zenon
<1>6. delivered' \in [Readers -> Seq(Nat)] /\ delivered'[r] = delivered[r] \o more
  BY <1>4, <1>5 DEF ReaderTypes
<1>7. acks' \in [Readers -> Seq(Nat)] /\ \A i \in 1..Len(acks'[r]) : acks'[r][i] <= cum[r] + n
  <2>1. \A i \in 1..Len(acks[r]) : acks[r][i] <= cum[r] /\ acks[r][i] \in Nat
    BY <1>4 DEF Kept
  <2>2. CASE acks' = acks
    <3>1. \A i \in 1..Len(acks[r]) : acks[r][i] <= cum[r] + n
      BY <1>1, <1>4, <2>1, SMTT(30)
    <3> QED
      BY <2>2, <3>1 DEF ReaderTypes
  <2>3. CASE acks' = [acks EXCEPT ![r] = Append(@, cum[r] + n)]
    <3>1. cum[r] + n \in Nat
      BY <1>n, <1>4
    <3>2. /\ Append(acks[r], cum[r] + n) \in Seq(Nat)
          /\ \A i \in 1..Len(acks[r]) : Append(acks[r], cum[r] + n)[i] = acks[r][i]
          /\ Append(acks[r], cum[r] + n)[Len(acks[r]) + 1] = cum[r] + n
          /\ \A i \in 1..Len(Append(acks[r], cum[r] + n)) : i \in 1..Len(acks[r]) \/ i = Len(acks[r]) + 1
      BY <1>4, <3>1, AppendFacts
    <3>3. acks'[r] = Append(acks[r], cum[r] + n)
      BY <2>3 DEF ReaderTypes
    <3>4. ASSUME NEW i \in 1..Len(acks'[r]) PROVE acks'[r][i] <= cum[r] + n
      <4>1. i \in 1..Len(acks[r]) \/ i = Len(acks[r]) + 1
        BY <3>2, <3>3
      <4>2. CASE i \in 1..Len(acks[r])
        <5>1. acks'[r][i] = acks[r][i] /\ acks[r][i] <= cum[r] /\ acks[r][i] \in Nat
          BY <2>1, <3>2, <3>3, <4>2
        <5> QED
          BY <1>n, <1>4, <5>1
      <4>3. CASE i = Len(acks[r]) + 1
        BY <3>1, <3>2, <3>3, <4>3
      <4> QED
        BY <4>1, <4>2, <4>3
    <3> QED
      BY <2>3, <3>2, <3>4 DEF ReaderTypes
  <2> QED
    BY <1>1, <2>2, <2>3
<1>8. /\ gen'[r] = g /\ offset'[r] = off /\ cum'[r] = cum[r] + n /\ skipped'[r] = skipped[r]
      /\ \/ phase'[r] = "drain" /\ snap'[r] = snap[r]
         \/ phase'[r] = "idle"
  BY <1>0, <1>1, <1>2 DEF ReaderTypes
<1>9. ReaderTypes'
  <2>1. gen' \in [Readers -> Nat] /\ offset' \in [Readers -> Nat] /\ cum' \in [Readers -> Nat]
    <3>1. cum[r] + n \in Nat /\ g \in Nat
      BY <1>n, <1>4
    <3>2. cum' = [cum EXCEPT ![r] = cum[r] + n]
      BY <1>1
    <3> QED
      BY <1>2, <3>1, <3>2 DEF ReaderTypes
  <2>2. NoSig \in Maps
    BY DEF NoSig, Maps
  <2>3. phase' \in [Readers -> {"off", "idle", "drain"}] /\ snap' \in [Readers -> Maps]
    BY <1>2, <2>2, ZenonT(60) DEF ReaderTypes
  <2> QED
    BY <1>0, <1>6, <1>7, <2>1, <2>3 DEF ReaderTypes
<1>10. Place(r)' = Place(r) + n
  BY <1>0, <1>2, <1>8 DEF Place, StartOf
<1>11. Kept(r)'
  <2>1. g <= outGen /\ Place(r) + n <= EndOf(g)
    BY <1>2
  <2>2. EndOf(gen[r])' = EndOf(g)
    BY <1>0, <1>8 DEF EndOf
  <2>3. cum[r] + n <= Place(r) + n /\ (~skipped[r] => cum[r] + n = Place(r) + n)
    BY <1>1, <1>4 DEF Kept
  <2>4. phase'[r] = "drain" => snap'[r].gen <= outGen /\ snap'[r].gen = g
    <3>1. CASE phase' = [phase EXCEPT ![r] = "drain"] /\ snap' = snap /\ snap[r].gen <= outGen
               /\ snap[r].gen = g
      BY <3>1
    <3>2. CASE phase' = [phase EXCEPT ![r] = "idle"]
      BY <3>2 DEF ReaderTypes
    <3> QED
      BY <1>2, <3>1, <3>2
  <2>5. phase'[r] # "off" /\ g \in Nat /\ ~(g = g + 1) /\ g <= g + 1
    BY <1>8, <2>1 DEF LogInv
  <2>6. (gen[r] <= outGen /\ Place(r) <= EndOf(gen[r]))'
    BY <1>0, <1>8, <1>10, <2>1, <2>2
  <2>7. (cum[r] <= Place(r) /\ (~skipped[r] => cum[r] = Place(r)))'
    BY <1>8, <1>10, <2>3
  <2>8. (\A i \in 1..Len(acks[r]) : acks[r][i] <= cum[r])'
    BY <1>7, <1>8
  <2> QED
    BY <1>0, <1>8, <2>4, <2>5, <2>6, <2>7, <2>8 DEF Kept
<1>12. Shown(r)'
  <2> DEFINE d == delivered[r]
             e == delivered'[r]
  <2>1. \A i \in 1..Len(d) : d[i] \in Nat /\ d[i] <= lo
    BY <1>4 DEF Shown, lo
  <2>2. \A i, j \in 1..Len(d) : i < j => d[i] < d[j]
    BY DEF Shown
  <2>3. /\ e = d \o more /\ Len(e) = Len(d) + Len(more) /\ Len(d) \in Nat /\ Len(more) \in Nat
        /\ \A i \in 1..Len(e) : e[i] = IF i <= Len(d) THEN d[i] ELSE more[i - Len(d)]
    BY <1>3, <1>4, <1>5, <1>6
  <2> HIDE DEF d, e
  <2>4. \A i \in 1..Len(e) : \/ i \in 1..Len(d) /\ e[i] = d[i]
                             \/ i > Len(d) /\ e[i] = lo + (i - Len(d)) /\ e[i] <= hi
    <3> SUFFICES ASSUME NEW i \in 1..Len(e)
                 PROVE  \/ i \in 1..Len(d) /\ e[i] = d[i]
                        \/ i > Len(d) /\ e[i] = lo + (i - Len(d)) /\ e[i] <= hi
      OBVIOUS
    <3>1. CASE i <= Len(d)
      BY <2>3, <3>1
    <3>2. CASE i > Len(d)
      <4>1. i - Len(d) \in 1..Len(more)
        BY <2>3, <3>2
      <4> QED
        BY <1>3, <2>3, <3>2, <4>1
    <3> QED
      BY <2>3, <3>1, <3>2
  <2>5. \A i \in 1..Len(e) : e[i] <= hi
    BY <1>3, <2>1, <2>4
  <2>6. \A i, j \in 1..Len(e) : i < j => e[i] < e[j]
    <3> SUFFICES ASSUME NEW i \in 1..Len(e), NEW j \in 1..Len(e), i < j PROVE e[i] < e[j]
      OBVIOUS
    <3>1. CASE j \in 1..Len(d) /\ e[j] = d[j]
      <4>1. i \in 1..Len(d) /\ e[i] = d[i]
        BY <2>3, <2>4, <3>1
      <4> QED
        BY <2>2, <3>1, <4>1
    <3>2. CASE j > Len(d) /\ e[j] = lo + (j - Len(d))
      <4>1. e[j] > lo
        BY <1>3, <2>3, <3>2
      <4>2. CASE i \in 1..Len(d) /\ e[i] = d[i]
        BY <1>3, <2>1, <2>3, <3>2, <4>1, <4>2, SMTT(60)
      <4>3. CASE i > Len(d) /\ e[i] = lo + (i - Len(d))
        BY <1>3, <2>3, <3>2, <4>3
      <4> QED
        BY <2>4, <4>2, <4>3
    <3> QED
      BY <2>4, <3>1, <3>2
  <2>7. CountIn(ends', Place(r)') = hi
    BY <1>0, <1>10 DEF hi
  <2> QED
    BY <2>5, <2>6, <2>7 DEF Shown, e
<1> QED
  BY <1>9, <1>11, <1>12

\* Reading the map keeps a reader where it is or takes it to the current
\* segment, past everything it had counted.
LEMMA ReadSigStep ==
  ASSUME LogInv, ReaderTypes, NEW r \in Readers, Kept(r), Shown(r), ReadSig(r)
  PROVE  ReaderTypes' /\ Kept(r)' /\ Shown(r)'
<1>1. /\ UNCHANGED <<outGen, outTotal, ends, segStart, sig, cum, acks, delivered>>
      /\ UNCHANGED <<ackTotal, paused, writing, asked, writer>>
      /\ phase' = [phase EXCEPT ![r] = "drain"] /\ snap' = [snap EXCEPT ![r] = sig]
      /\ phase[r] = "idle" /\ sig # NoSig
  BY DEF ReadSig, hostVars, diskVars, otherVars
<1>2. /\ gen[r] \in 0..outGen /\ outGen \in Nat /\ offset[r] \in Nat /\ cum[r] \in Nat
      /\ sig \in Maps /\ sig.gen = outGen /\ sig.prevFinal = prevFinal
      /\ skipped[r] \in BOOLEAN /\ delivered[r] \in Seq(Nat)
  BY <1>1 DEF LogInv, ReaderTypes, Kept
<1>3. StartOf(gen[r]) \in Nat /\ EndOf(gen[r]) \in Nat /\ Place(r) \in Nat
  BY <1>2, LogBounds, SMTT(60) DEF Place
<1>4. ReaderTypes'
  <2>1. Resync(r).gen \in Nat /\ Resync(r).offset \in Nat
    BY <1>2 DEF Resync
  <2>2. /\ gen' \in [Readers -> Nat] /\ offset' \in [Readers -> Nat]
        /\ skipped' \in [Readers -> BOOLEAN]
    <3>1. gen' = [gen EXCEPT ![r] = Resync(r).gen] /\ offset' = [offset EXCEPT ![r] = Resync(r).offset]
      BY DEF ReadSig
    <3>2. \E b \in BOOLEAN : skipped' = [skipped EXCEPT ![r] = b]
      BY <1>2 DEF ReadSig, ReaderTypes
    <3> QED
      BY <2>1, <3>1, <3>2 DEF ReaderTypes
  <2> QED
    BY <1>1, <1>2, <2>2 DEF ReaderTypes
<1>5. /\ phase'[r] = "drain" /\ snap'[r] = sig /\ cum'[r] = cum[r]
      /\ acks'[r] = acks[r] /\ delivered'[r] = delivered[r]
  BY <1>1 DEF ReaderTypes
<1>6. CASE outGen > gen[r] + 1
  <2>1. gen'[r] = outGen /\ offset'[r] = 0 /\ skipped'[r]
    <3>1. sig.gen > gen[r] + 1
      BY <1>2, <1>6
    <3> QED
      BY <1>2, <3>1 DEF ReadSig, Resync, ReaderTypes
  <2>2. /\ StartOf(outGen) \in Nat /\ StartOf(outGen) <= EndOf(outGen)
        /\ EndOf(gen[r]) <= StartOf(outGen)
    BY <1>2, <1>6, LogBounds
  <2>3. Place(r)' = StartOf(outGen)
    BY <1>1, <2>1, <2>2 DEF Place, StartOf
  <2>4. Place(r) <= StartOf(outGen) /\ cum[r] <= StartOf(outGen)
    BY <1>2, <1>3, <2>2 DEF Kept
  <2>5. (gen[r] <= outGen /\ Place(r) <= EndOf(gen[r]))'
    <3>1. EndOf(gen[r])' = EndOf(outGen)
      BY <1>1, <2>1 DEF EndOf
    <3> QED
      BY <1>1, <1>2, <2>1, <2>2, <2>3, <3>1
  <2>6. Kept(r)'
    <3>1. (cum[r] <= Place(r) /\ (~skipped[r] => cum[r] = Place(r)))'
      BY <1>5, <2>1, <2>3, <2>4
    <3>2. snap'[r].gen <= outGen' /\ snap'[r].gen <= gen'[r] + 1 /\ snap'[r].gen # gen'[r] + 1
      BY <1>1, <1>2, <1>5, <2>1
    <3>3. (\A i \in 1..Len(acks[r]) : acks[r][i] <= cum[r])'
      BY <1>5 DEF Kept
    <3> QED
      BY <1>5, <2>5, <3>1, <3>2, <3>3 DEF Kept
  <2> QED
    BY <1>1, <1>2, <1>3, <1>4, <1>5, <2>2, <2>3, <2>4, <2>6, ShownStays
<1>7. CASE ~(outGen > gen[r] + 1)
  <2>1. gen'[r] = gen[r] /\ offset'[r] = offset[r] /\ skipped'[r] = skipped[r]
    <3>1. ~(sig.gen > gen[r] + 1)
      BY <1>2, <1>7
    <3> QED
      BY <1>2, <3>1 DEF ReadSig, Resync, ReaderTypes
  <2>2. Place(r)' = Place(r) /\ EndOf(gen[r])' = EndOf(gen[r])
    BY <1>1, <2>1 DEF Place, StartOf, EndOf
  <2>3. (gen[r] <= outGen /\ Place(r) <= EndOf(gen[r]))'
    BY <1>1, <2>1, <2>2 DEF Kept
  <2>4. (cum[r] <= Place(r) /\ (~skipped[r] => cum[r] = Place(r)))'
    BY <1>5, <2>1, <2>2 DEF Kept
  <2>5. /\ snap'[r].gen <= outGen' /\ snap'[r].gen <= gen'[r] + 1
    BY <1>1, <1>2, <1>5, <1>7, <2>1
  <2>6. snap'[r].gen = gen'[r] + 1 =>
          segStart'[(gen'[r] + 1) + 1] = segStart'[gen'[r] + 1] + snap'[r].prevFinal
    <3>1. SUFFICES ASSUME outGen = gen[r] + 1
                   PROVE  segStart[outGen + 1] = segStart[gen[r] + 1] + prevFinal
      BY <1>1, <1>2, <1>5, <2>1
    <3>2. outGen > 0 /\ outGen - 1 = gen[r]
      <4>1. gen[r] \in Nat
        BY <1>2
      <4> QED
        BY <3>1, <4>1
    <3> QED
      BY <3>2 DEF LogInv, StartOf
  <2>7. (\A i \in 1..Len(acks[r]) : acks[r][i] <= cum[r])'
    BY <1>5 DEF Kept
  <2>8. Kept(r)'
    BY <1>5, <2>3, <2>4, <2>5, <2>6, <2>7 DEF Kept, StartOf
  <2>9. Place(r) <= Place(r)'
    BY <1>3, <2>2
  <2> QED
    BY <1>1, <1>2, <1>3, <1>4, <1>5, <2>2, <2>8, <2>9, ShownStays
<1> QED
  BY <1>6, <1>7

\* Whatever head an attacher finds is a place in the log.
LEMMA HeadsAreInTheLog ==
  ASSUME LogInv, NEW head \in Heads
  PROVE  /\ head.gen \in 0..outGen /\ head.size \in Nat /\ head.total \in Nat
         /\ StartOf(head.gen) + head.size = head.total /\ head.total <= EndOf(head.gen)
<1>1. outGen \in Nat /\ outTotal \in Nat /\ StartOf(0) = 0
  BY DEF LogInv
<1>2. CASE head = Beginning
  <2>1. head.gen = 0 /\ head.size = 0 /\ head.total = 0
    BY <1>2 DEF Beginning
  <2>2. 0 \in 0..outGen /\ EndOf(0) \in Nat
    BY <1>1, LogBounds
  <2> QED
    BY <1>1, <2>1, <2>2
<1>3. CASE sig # NoSig /\ head = [gen |-> sig.gen, size |-> sig.size, total |-> sig.total]
  <2>1. head.gen = sig.gen /\ head.size = sig.size /\ head.total = sig.total
    BY <1>3
  <2>2. sig.gen = outGen /\ sig.total = StartOf(outGen) + sig.size /\ sig.total <= outTotal
    BY <1>3 DEF LogInv
  <2>3. sig.size \in Nat /\ sig.total \in Nat
    BY DEF LogInv, Maps
  <2> QED
    BY <1>1, <2>1, <2>2, <2>3 DEF EndOf
<1> QED
  BY <1>2, <1>3 DEF Heads

\* An attacher starts at the head that it found, having counted it.
LEMMA AttachStep ==
  ASSUME LogInv, ReaderTypes, NEW r \in Readers, Kept(r), Shown(r), Attach(r)
  PROVE  ReaderTypes' /\ Kept(r)' /\ Shown(r)'
<1>1. /\ UNCHANGED <<outGen, outTotal, ends, segStart, snap, acks, delivered, skipped>>
      /\ UNCHANGED <<ackTotal, paused, writing, writer>>
      /\ phase' = [phase EXCEPT ![r] = "idle"] /\ phase[r] = "off" /\ r # Spawner
      /\ asked' = asked \cup {r}
  BY DEF Attach, hostVars, diskVars
<1>2. PICK head \in Heads :
        /\ gen' = [gen EXCEPT ![r] = head.gen] /\ offset' = [offset EXCEPT ![r] = head.size]
        /\ cum' = [cum EXCEPT ![r] = head.total]
  BY DEF Attach, HeadTotal
<1>3. /\ head.gen \in 0..outGen /\ head.size \in Nat /\ head.total \in Nat
      /\ StartOf(head.gen) + head.size = head.total /\ head.total <= EndOf(head.gen)
  BY HeadsAreInTheLog
<1>4. ReaderTypes'
  BY <1>1, <1>2, <1>3, SMTT(60) DEF ReaderTypes
<1>5. /\ gen'[r] = head.gen /\ offset'[r] = head.size /\ cum'[r] = head.total /\ phase'[r] = "idle"
      /\ delivered'[r] = <<>> /\ acks'[r] = <<>>
  BY <1>1, <1>2 DEF ReaderTypes, Kept
<1>6. Place(r)' = head.total /\ EndOf(gen[r])' = EndOf(head.gen)
  BY <1>1, <1>3, <1>5 DEF Place, StartOf, EndOf
<1>7. Len(<<>>) = 0
  OBVIOUS
<1>8. Kept(r)'
  BY <1>1, <1>3, <1>5, <1>6, <1>7 DEF Kept
<1> QED
  BY <1>4, <1>5, <1>7, <1>8 DEF Shown

-----------------------------------------------------------------------------
(* Every step *)

AllInv == LogInv /\ ReaderTypes /\ AccountsInv /\ ShownInv

\* A reader in the log has a place.
LEMMA PlaceIsNat ==
  ASSUME LogInv, ReaderTypes, NEW r \in Readers, Kept(r)
  PROVE  Place(r) \in Nat /\ cum[r] \in Nat /\ cum[r] <= outTotal
<1>1. gen[r] \in 0..outGen
  BY DEF LogInv, ReaderTypes, Kept
<1>2. StartOf(gen[r]) \in Nat /\ EndOf(gen[r]) \in Nat /\ EndOf(gen[r]) <= outTotal
  BY <1>1, LogBounds
<1>3. Place(r) \in Nat /\ cum[r] \in Nat /\ outTotal \in Nat
  <2>1. offset[r] \in Nat /\ cum[r] \in Nat /\ outTotal \in Nat
    BY DEF ReaderTypes, LogInv
  <2> QED
    BY <1>2, <2>1 DEF Place
<1> QED
  BY <1>2, <1>3 DEF Kept

\* A reader that is left alone stays where it is.
LEMMA ReaderStays ==
  ASSUME AllInv, NEW r \in Readers, LogInv', LogGrows, Still(r)
  PROVE  Kept(r)' /\ Shown(r)'
<1>1. Kept(r) /\ Shown(r) /\ outGen' \in Nat /\ delivered[r] \in Seq(Nat) /\ offset[r] \in Nat
  BY DEF AllInv, AccountsInv, ShownInv, LogInv, ReaderTypes
<1>2. Kept(r)'
  BY <1>1, KeptStays DEF AllInv
<1>3. gen[r] \in 0..outGen
  BY <1>1 DEF AllInv, LogInv, ReaderTypes, Kept
<1>4. segStart'[gen[r] + 1] = segStart[gen[r] + 1]
  BY <1>3 DEF StartOf, LogGrows
<1>5. Place(r)' = Place(r) /\ Place(r) \in Nat
  BY <1>1, <1>4, PlaceIsNat DEF Place, StartOf, AllInv, Still
<1>6. Place(r) <= Place(r)'
  BY <1>5
<1> QED
  BY <1>1, <1>2, <1>5, <1>6, ShownStays DEF AllInv, LogGrows, Still

\* A step of one reader.
LEMMA OneReader ==
  ASSUME AllInv, NEW r \in Readers, ReaderTypes', Kept(r)', Shown(r)',
         UNCHANGED <<outGen, segBytes, prevFinal, outTotal, ends, segStart, sig, ackTotal>>,
         \A d \in Readers : d # r =>
           /\ gen'[d] = gen[d] /\ offset'[d] = offset[d] /\ cum'[d] = cum[d]
           /\ skipped'[d] = skipped[d] /\ phase'[d] = phase[d] /\ snap'[d] = snap[d]
           /\ delivered'[d] = delivered[d] /\ acks'[d] = acks[d]
  PROVE  AllInv'
<1>1. LogInv' /\ \A g : StartOf(g)' = StartOf(g) /\ EndOf(g)' = EndOf(g)
  BY LogStays DEF AllInv
<1>2. LogGrows
  BY <1>1, LogBounds DEF AllInv, LogInv, LogGrows
<1>3. ASSUME NEW d \in Readers, d # r PROVE Kept(d)' /\ Shown(d)'
  <2>1. Still(d)
    BY <1>3 DEF Still
  <2> QED
    BY <1>1, <1>2, <2>1, ReaderStays
<1> QED
  BY <1>1, <1>3 DEF AllInv, AccountsInv, ShownInv

\* A step of the host.
LEMMA HostAlone ==
  ASSUME AllInv, LogInv', outGen <= outGen',
         \A g \in 0..outGen : StartOf(g)' = StartOf(g) /\ EndOf(g) <= EndOf(g)',
         ends' = ends \/ \E e \in Nat : ends' = Append(ends, e),
         ackTotal' \in Nat, ackTotal' <= outTotal', paused' \in BOOLEAN, writing' \in BOOLEAN,
         asked' \subseteq Readers, writer' \in Readers,
         UNCHANGED <<phase, snap, gen, offset, cum, delivered, skipped>>,
         \/ acks' = acks
         \/ acks[writer] # <<>> /\ acks' = [acks EXCEPT ![writer] = Tail(@)]
  PROVE  AllInv'
<1>1. \A r \in Readers : acks'[r] = acks[r] \/ (acks[r] # <<>> /\ acks'[r] = Tail(acks[r]))
  BY DEF AllInv, ReaderTypes
<1>2. acks' \in [Readers -> Seq(Nat)]
  <2>1. acks[writer] \in Seq(Nat)
    BY DEF AllInv, ReaderTypes
  <2>2. acks[writer] # <<>> => Tail(acks[writer]) \in Seq(Nat)
    BY <2>1
  <2> QED
    BY <2>2 DEF AllInv, ReaderTypes
<1>3. ReaderTypes'
  BY <1>2 DEF AllInv, ReaderTypes
<1>4. \A g \in 0..outGen : EndOf(g)' \in Nat
  <2>1. outGen' \in Nat /\ outTotal' \in Nat /\ Len(segStart') = outGen' + 1 /\ segStart' \in Seq(Nat)
        /\ outGen \in Nat
    BY DEF AllInv, LogInv
  <2>2. ASSUME NEW g \in 0..outGen, g # outGen' PROVE g + 2 \in 1..Len(segStart')
    <3> DEFINE top == outGen'
    <3>1. g \in Nat /\ top \in Nat /\ g <= top /\ g # top /\ Len(segStart') = top + 1
      BY <2>1, <2>2
    <3> HIDE DEF top
    <3> QED
      BY <3>1
  <2>3. \A i \in 1..Len(segStart') : segStart'[i] \in Nat
    <3>1. segStart' \in Seq(Nat)
      BY <2>1
    <3> QED
      BY ElementOfSeq, <3>1
  <2>4. ASSUME NEW g \in 0..outGen PROVE EndOf(g)' \in Nat
    BY <2>1, <2>2, <2>3 DEF EndOf
  <2> QED
    BY <2>4
<1>5. ASSUME NEW r \in Readers PROVE Kept(r)' /\ Shown(r)'
  <2>1. LogGrows
    BY <1>4 DEF LogGrows
  <2>2. Still(r)
    BY <1>1 DEF Still
  <2> QED
    BY <2>1, <2>2, ReaderStays
<1> QED
  BY <1>3, <1>5 DEF AllInv, AccountsInv, ShownInv

LEMMA WindowIsBoolean ==
  ASSUME paused \in BOOLEAN, NEW t, NEW a
  PROVE  Window(t, a) \in BOOLEAN
<1>1. CASE ~HasProc
  BY <1>1, Zenon DEF Window
<1>2. CASE HasProc /\ paused
  BY <1>2, Zenon DEF Window
<1>3. CASE HasProc /\ ~paused
  <2>1. Window(t, a) = (t - a > AckWindow)
    BY <1>3, Zenon DEF Window
  <2> QED
    BY <2>1
<1> QED
  BY <1>1, <1>2, <1>3

LEMMA AllStep == ASSUME AllInv, [Next]_vars PROVE AllInv'
<1>0. /\ LogInv /\ ReaderTypes /\ AccountsInv /\ ShownInv
      /\ \A r \in Readers : Kept(r) /\ Shown(r)
  BY DEF AllInv, AccountsInv, ShownInv
<1>1. ASSUME NEW n \in Nat, AppendFrame(n), UNCHANGED readerVars, asked' \subseteq Readers, writer' \in Readers
      PROVE  AllInv'
  <2>1. /\ LogInv' /\ outTotal <= outTotal' /\ outGen' = outGen
        /\ \A g \in 0..outGen : StartOf(g)' = StartOf(g) /\ EndOf(g) <= EndOf(g)'
        /\ ends' = Append(ends, outTotal + n)
    BY <1>0, <1>1, LogAppends
  <2>2. outGen <= outGen' /\ outTotal + n \in Nat /\ outTotal' \in Nat /\ outTotal \in Nat
    BY <1>0, <2>1 DEF LogInv
  <2>3. /\ UNCHANGED <<phase, snap, gen, offset, cum, delivered, skipped, acks, ackTotal, paused>>
        /\ writing' = TRUE
    BY <1>1 DEF readerVars, AppendFrame
  <2>4. /\ ackTotal \in Nat /\ ackTotal <= outTotal'
        /\ ackTotal' \in Nat /\ paused' \in BOOLEAN /\ writing' \in BOOLEAN
    BY <1>0, <2>1, <2>2, <2>3 DEF ReaderTypes, AccountsInv
  <2> QED
    BY <1>1, <2>1, <2>2, <2>3, <2>4, HostAlone
<1>2. CASE AppendOutput
  <2>1. PICK n \in Sizes : AppendFrame(n)
    BY <1>2 DEF AppendOutput
  <2>2. n \in Nat /\ UNCHANGED readerVars /\ asked' \subseteq Readers /\ writer' \in Readers
    BY <1>0, <1>2, SizesAssumption DEF AppendOutput, otherVars, ReaderTypes
  <2> QED
    BY <1>1, <2>1, <2>2
<1>3. CASE AppendControl
  <2>1. PICK n \in Sizes : AppendFrame(n)
    BY <1>3 DEF AppendControl
  <2>2. n \in Nat /\ UNCHANGED readerVars /\ asked' \subseteq Readers /\ writer' \in Readers
    BY <1>0, <1>3, SizesAssumption DEF AppendControl, ReaderTypes
  <2> QED
    BY <1>1, <2>1, <2>2
<1>4. ASSUME NEW r \in Readers, Grant(r) PROVE AllInv'
  <2>1. AppendFrame(1) /\ UNCHANGED readerVars /\ asked' \subseteq Readers /\ writer' \in Readers
    BY <1>0, <1>4 DEF Grant, ReaderTypes
  <2> QED
    BY <1>1, <2>1
<1>5. CASE Publish
  <2>1. /\ LogInv' /\ outTotal' = outTotal /\ outGen <= outGen' /\ ends' = ends
        /\ \A g \in 0..outGen : StartOf(g)' = StartOf(g) /\ EndOf(g)' = EndOf(g)
    BY <1>0, <1>5, LogPublishes
  <2>2. \A g \in 0..outGen : EndOf(g) <= EndOf(g)'
    BY <1>0, <2>1, LogBounds
  <2>3. /\ UNCHANGED <<phase, snap, gen, offset, cum, delivered, skipped, acks, ackTotal, asked, writer>>
        /\ writing' = FALSE
    BY <1>5 DEF Publish, readerVars, otherVars
  <2>4. paused' \in BOOLEAN
    <3>1. paused' = Window(outTotal, ackTotal)
      BY <1>5 DEF Publish
    <3>2. Window(outTotal, ackTotal) \in BOOLEAN
      BY <1>0, WindowIsBoolean, Zenon DEF ReaderTypes
    <3> QED
      BY <3>1, <3>2
  <2>5. /\ ackTotal' \in Nat /\ ackTotal' <= outTotal'
        /\ asked' \subseteq Readers /\ writer' \in Readers /\ writing' \in BOOLEAN
    BY <1>0, <2>1, <2>3 DEF ReaderTypes, AccountsInv
  <2> QED
    BY <2>1, <2>2, <2>3, <2>4, <2>5, HostAlone
<1>6. CASE HostAck
  <2>1. /\ UNCHANGED <<outGen, segBytes, prevFinal, outTotal, writing, ends, segStart, sig,
                       phase, snap, gen, offset, cum, delivered, skipped, asked, writer>>
        /\ acks[writer] # <<>> /\ acks' = [acks EXCEPT ![writer] = Tail(@)]
        /\ ackTotal' \in {Head(acks[writer]), ackTotal} /\ paused' = Window(outTotal, ackTotal')
    BY <1>6 DEF HostAck, otherVars
  <2>2. LogInv' /\ \A g : StartOf(g)' = StartOf(g) /\ EndOf(g)' = EndOf(g)
    BY <1>0, <2>1, LogStays
  <2>3. \A g \in 0..outGen : EndOf(g) <= EndOf(g)'
    BY <1>0, <2>2, LogBounds
  <2>4. Head(acks[writer]) \in Nat /\ Head(acks[writer]) <= outTotal
    <3>1. writer \in Readers /\ acks[writer] \in Seq(Nat)
      BY <1>0 DEF ReaderTypes
    <3>2. 1 \in 1..Len(acks[writer]) /\ Head(acks[writer]) = acks[writer][1] /\ acks[writer][1] \in Nat
      BY <2>1, <3>1
    <3>3. acks[writer][1] <= cum[writer]
      BY <1>0, <3>1, <3>2 DEF Kept
    <3>4. cum[writer] \in Nat /\ cum[writer] <= outTotal /\ outTotal \in Nat
      BY <1>0, <3>1, PlaceIsNat DEF LogInv
    <3> QED
      BY <3>2, <3>3, <3>4
  <2>5. ackTotal' \in Nat /\ ackTotal' <= outTotal'
    BY <1>0, <2>1, <2>4 DEF ReaderTypes, AccountsInv
  <2>6. paused' \in BOOLEAN
    <3>1. Window(outTotal, ackTotal') \in BOOLEAN
      BY <1>0, WindowIsBoolean, Zenon DEF ReaderTypes
    <3> QED
      BY <2>1, <3>1
  <2>7. asked' \subseteq Readers /\ writer' \in Readers /\ writing' \in BOOLEAN /\ outGen <= outGen'
    BY <1>0, <2>1 DEF ReaderTypes, LogInv
  <2> QED
    BY <2>1, <2>2, <2>3, <2>5, <2>6, <2>7, HostAlone
<1>7. ASSUME NEW r \in Readers, Attach(r) PROVE AllInv'
  <2>1. ReaderTypes' /\ Kept(r)' /\ Shown(r)'
    BY <1>0, <1>7, AttachStep
  <2>2. UNCHANGED <<outGen, segBytes, prevFinal, outTotal, ends, segStart, sig, ackTotal>>
    BY <1>7 DEF Attach, hostVars, diskVars
  <2>3. /\ phase' = [phase EXCEPT ![r] = "idle"] /\ UNCHANGED <<snap, acks, delivered, skipped>>
        /\ \E head \in Heads : /\ gen' = [gen EXCEPT ![r] = head.gen]
                               /\ offset' = [offset EXCEPT ![r] = head.size]
                               /\ cum' = [cum EXCEPT ![r] = head.total]
    BY <1>7 DEF Attach, HeadTotal
  <2> QED
    BY <1>0, <2>1, <2>2, <2>3, OneReader DEF ReaderTypes
<1>8. ASSUME NEW r \in Readers, Vanish(r) PROVE AllInv'
  <2>1. /\ UNCHANGED <<outGen, segBytes, prevFinal, outTotal, ends, segStart, sig, ackTotal, paused,
                       writing, asked, writer, gen, offset, cum, acks, delivered, skipped>>
        /\ phase' = [phase EXCEPT ![r] = "off"] /\ snap' = [snap EXCEPT ![r] = NoSig] /\ r = Spawner
    BY <1>8 DEF Vanish, hostVars, diskVars, otherVars
  <2>2. LogInv' /\ \A g : StartOf(g)' = StartOf(g) /\ EndOf(g)' = EndOf(g)
    BY <1>0, <2>1, LogStays
  <2>3. LogGrows
    BY <1>0, <2>1, <2>2, LogBounds DEF LogGrows, LogInv
  <2>4. ReaderTypes'
    <3>1. NoSig \in Maps
      BY DEF NoSig, Maps
    <3> QED
      BY <1>0, <2>1, <3>1 DEF ReaderTypes
  <2>5. ASSUME NEW d \in Readers PROVE Kept(d)' /\ Shown(d)'
    <3>1. Still(d)
      BY <1>0, <2>1 DEF Still, ReaderTypes
    <3> QED
      BY <2>2, <2>3, <3>1, ReaderStays
  <2> QED
    BY <1>0, <2>1, <2>2, <2>4, <2>5 DEF AllInv, AccountsInv, ShownInv
<1>9. ASSUME NEW r \in Readers, ReadSig(r) PROVE AllInv'
  <2>1. ReaderTypes' /\ Kept(r)' /\ Shown(r)'
    BY <1>0, <1>9, ReadSigStep
  <2>2. UNCHANGED <<outGen, segBytes, prevFinal, outTotal, ends, segStart, sig, ackTotal>>
    BY <1>9 DEF ReadSig, hostVars, diskVars
  <2>3. /\ phase' = [phase EXCEPT ![r] = "drain"] /\ snap' = [snap EXCEPT ![r] = sig]
        /\ gen' = [gen EXCEPT ![r] = Resync(r).gen] /\ offset' = [offset EXCEPT ![r] = Resync(r).offset]
        /\ \A d \in Readers : d # r => skipped'[d] = skipped[d]
        /\ UNCHANGED <<cum, acks, delivered>>
    BY <1>0, <1>9 DEF ReadSig, ReaderTypes
  <2> QED
    BY <1>0, <2>1, <2>2, <2>3, OneReader DEF ReaderTypes
<1>10. ASSUME NEW r \in Readers, NEW due \in BOOLEAN, Drain(r, due) PROVE AllInv'
  <2>1. ReaderTypes' /\ Kept(r)' /\ Shown(r)'
    BY <1>0, <1>10, DrainStep
  <2>2. UNCHANGED <<outGen, segBytes, prevFinal, outTotal, ends, segStart, sig, ackTotal>>
    BY <1>10 DEF Drain, hostVars, diskVars
  <2>3. \A d \in Readers : d # r =>
          /\ gen'[d] = gen[d] /\ offset'[d] = offset[d] /\ cum'[d] = cum[d]
          /\ skipped'[d] = skipped[d] /\ phase'[d] = phase[d] /\ snap'[d] = snap[d]
          /\ delivered'[d] = delivered[d] /\ acks'[d] = acks[d]
    BY <1>0, <1>10 DEF Drain, ReaderTypes
  <2> QED
    BY <2>1, <2>2, <2>3, OneReader
<1>11. CASE UNCHANGED vars
  <2>1. /\ UNCHANGED <<outGen, segBytes, prevFinal, outTotal, ends, segStart, sig, ackTotal, paused,
                       writing, asked, writer, gen, offset, cum, acks, delivered, skipped, phase, snap>>
    BY <1>11 DEF vars, hostVars, diskVars, readerVars, otherVars
  <2>2. LogInv' /\ \A g : StartOf(g)' = StartOf(g) /\ EndOf(g)' = EndOf(g)
    BY <1>0, <2>1, LogStays
  <2>3. LogGrows
    BY <1>0, <2>1, <2>2, LogBounds DEF LogGrows, LogInv
  <2>4. ReaderTypes'
    BY <1>0, <2>1 DEF ReaderTypes
  <2>5. ASSUME NEW d \in Readers PROVE Kept(d)' /\ Shown(d)'
    <3>1. Still(d)
      BY <2>1 DEF Still
    <3> QED
      BY <2>2, <2>3, <3>1, ReaderStays
  <2> QED
    BY <1>0, <2>1, <2>2, <2>4, <2>5 DEF AllInv, AccountsInv, ShownInv
<1> QED
  BY <1>2, <1>3, <1>4, <1>5, <1>6, <1>7, <1>8, <1>9, <1>10, <1>11 DEF Next, Read

-----------------------------------------------------------------------------
(* The theorems *)

LEMMA InitAll == Init => AllInv
  BY InitLog, InitReaders, InitShown DEF AllInv

LEMMA DownlinkInvariant == Spec => []AllInv
  BY InitAll, AllStep, PTL DEF Spec

\* What a reader counts and acks is its place in the stream until it
\* resynchronises, across segment hops, stale snapshots and takeovers, and the
\* host never counts as acknowledged what was not written or not read
\* (#drainOutLog, #initAttach, Session's "ack").
THEOREM AccountsStayHonest == Spec => []HonestAccounts
<1>1. AllInv => HonestAccounts
  BY DEF AllInv, AccountsInv, Kept, HonestAccounts, ReaderTypes
<1> QED
  BY <1>1, DownlinkInvariant, PTL

\* No reader is shown a frame twice or out of order, whatever it lost
\* (#drainOutLog's resynchronisation).
THEOREM NothingIsShownTwice == Spec => []NeverTwice
<1>1. AllInv => NeverTwice
  BY DEF AllInv, ShownInv, Shown, NeverTwice
<1> QED
  BY <1>1, DownlinkInvariant, PTL

\* A process is paused exactly when its window says so, for any window and
\* resume level (checkWindow after every append and every ack).
THEOREM PausedByTheWindow == Spec => []PauseMatchesWindow
<1>1. Init => PauseMatchesWindow
  BY LimitsAssumption DEF Init, PauseMatchesWindow
<1>2. ASSUME AllInv, AllInv', PauseMatchesWindow, [Next]_vars PROVE PauseMatchesWindow'
  <2>1. ASSUME NEW n, AppendFrame(n) PROVE PauseMatchesWindow'
    BY <2>1 DEF AppendFrame, PauseMatchesWindow
  <2>2. outTotal' \in Nat /\ ackTotal' \in Nat /\ paused \in BOOLEAN
    BY <1>2 DEF AllInv, LogInv, ReaderTypes
  <2>3. ASSUME HasProc, paused' = Window(outTotal', ackTotal') PROVE PauseMatchesWindow'
    <3> DEFINE d == outTotal' - ackTotal'
    <3>1. d \in Int /\ AckWindow \in Nat /\ AckResume \in Nat /\ AckResume <= AckWindow
      BY <2>2, LimitsAssumption
    <3>2. CASE paused
      <4>1. paused' = ~(d <= AckResume)
        BY <2>3, <3>2, Zenon DEF Window
      <4>2. CASE d <= AckResume
        <5>1. ~paused'
          BY <4>1, <4>2, Zenon
        <5>2. d <= AckWindow
          BY <3>1, <4>2
        <5> QED
          BY <5>1, <5>2, Zenon DEF PauseMatchesWindow
      <4>3. CASE ~(d <= AckResume)
        <5>1. paused'
          BY <4>1, <4>3, Zenon
        <5>2. d > AckResume
          BY <3>1, <4>3
        <5> QED
          BY <5>1, <5>2, Zenon DEF PauseMatchesWindow
      <4> QED
        BY <4>2, <4>3
    <3>3. CASE ~paused
      <4>1. paused' = (d > AckWindow)
        BY <2>3, <3>3, Zenon DEF Window
      <4>2. CASE d > AckWindow
        <5>1. paused'
          BY <4>1, <4>2, Zenon
        <5>2. d > AckResume
          BY <3>1, <4>2
        <5> QED
          BY <5>1, <5>2, Zenon DEF PauseMatchesWindow
      <4>3. CASE ~(d > AckWindow)
        <5>1. ~paused'
          BY <4>1, <4>3, Zenon
        <5>2. d <= AckWindow
          BY <3>1, <4>3
        <5> QED
          BY <5>1, <5>2, Zenon DEF PauseMatchesWindow
      <4> QED
        BY <4>2, <4>3
    <3> QED
      BY <3>2, <3>3
  <2>4. CASE Publish
    <3>1. paused' = Window(outTotal', ackTotal')
      BY <2>4 DEF Publish
    <3> QED
      BY <2>3, <3>1 DEF PauseMatchesWindow
  <2>5. CASE HostAck
    <3>1. paused' = Window(outTotal', ackTotal')
      BY <2>5 DEF HostAck
    <3> QED
      BY <2>3, <3>1 DEF PauseMatchesWindow
  <2>6. CASE AppendOutput \/ AppendControl \/ \E r \in Readers : Grant(r)
    BY <2>1, <2>6 DEF AppendOutput, AppendControl, Grant
  <2>7. CASE UNCHANGED hostVars
    <3>1. paused' = paused /\ writing' = writing /\ outTotal' = outTotal /\ ackTotal' = ackTotal
      BY <2>7 DEF hostVars
    <3> QED
      BY <1>2, <3>1, Zenon DEF PauseMatchesWindow
  <2>8. ASSUME NEW r \in Readers, Attach(r) \/ Vanish(r) \/ Read(r) PROVE PauseMatchesWindow'
    BY <2>7, <2>8 DEF Attach, Vanish, Read, ReadSig, Drain
  <2> QED
    BY <1>2, <2>4, <2>5, <2>6, <2>7, <2>8 DEF Next, vars
<1> QED
  BY <1>1, <1>2, DownlinkInvariant, PTL DEF Spec

-----------------------------------------------------------------------------
(* The channel *)

\* A process under flow control, whose window, largest frame and the answers
\* written during one pause together fit a segment (4 MiB of 8 for the window
\* by default), and no client attaches before the last one is gone.
Windowed ==
  /\ HasProc /\ QuietTakeover
  /\ \A n \in Sizes : AckWindow + n + MaxControl < SegMax

\* The answers counted are those of the pause that lasts.
AnswersInv == control \in Nat /\ control <= MaxControl /\ (~paused => control = 0)

\* A reader has been shown every frame before its place.
AllShown(r) ==
  /\ Len(delivered[r]) = CountIn(ends, Place(r))
  /\ \A i \in 1..Len(delivered[r]) : delivered[r][i] = i

\* As long as its page is open the spawning client is in charge, and never
\* falls behind by more than a segment.
InCharge ==
  /\ writer = Spawner /\ asked = {} /\ ~skipped[Spawner]
  /\ ackTotal <= cum[Spawner] /\ outGen <= gen[Spawner] + 1
  /\ writing \/ paused => \E n \in Sizes : outTotal <= ackTotal + AckWindow + n + control
  /\ AllShown(Spawner)

SpawnInv == AnswersInv /\ (phase[Spawner] # "off" => InCharge)

LEMMA InitSpawn == Init => SpawnInv
<1> SUFFICES ASSUME Init PROVE SpawnInv
  OBVIOUS
<1>1. Spawner \in Readers /\ ends = <<>> /\ delivered[Spawner] = <<>> /\ Len(<<>>) = 0
  BY ReadersAssumption DEF Init
<1>2. CountIn(ends, Place(Spawner)) = 0
  <2>1. {f \in 1..Len(ends) : ends[f] <= Place(Spawner)} = {}
    BY <1>1
  <2> QED
    BY <2>1, FS_EmptySet DEF CountIn
<1>3. AllShown(Spawner)
  BY <1>1, <1>2 DEF AllShown
<1> QED
  BY <1>1, <1>3, BoundsAssumption, ~FALSE DEF Init, SpawnInv, AnswersInv, InCharge

LEMMA CountSame ==
  ASSUME NEW s \in Seq(Nat), NEW e \in Nat, NEW a \in Nat, e > a
  PROVE  CountIn(Append(s, e), a) = CountIn(s, a)
<1> DEFINE t == Append(s, e)
           A == {f \in 1..Len(s) : s[f] <= a}
           B == {f \in 1..Len(t) : t[f] <= a}
<1>1. /\ Len(t) = Len(s) + 1 /\ Len(s) \in Nat /\ \A i \in 1..Len(s) : t[i] = s[i]
      /\ t[Len(s) + 1] = e /\ \A i \in 1..Len(t) : i \in 1..Len(s) \/ i = Len(s) + 1
  BY AppendFacts
<1> HIDE DEF t
<1>2. A = B
  BY <1>1
<1> QED
  BY <1>2 DEF CountIn, t

LEMMA CountBounded ==
  ASSUME NEW s \in Seq(Nat), NEW a \in Nat
  PROVE  CountIn(s, a) \in Nat /\ CountIn(s, a) <= Len(s)
<1> DEFINE A == {f \in 1..Len(s) : s[f] <= a}
<1>1. Len(s) \in Nat /\ IsFiniteSet(1..Len(s)) /\ Cardinality(1..Len(s)) = Len(s)
  <2>1. Len(s) \in Nat
    OBVIOUS
  <2>2. 1 \in Int /\ Len(s) \in Int
    BY <2>1
  <2>3. IsFiniteSet(1..Len(s)) /\ Cardinality(1..Len(s)) = IF 1 > Len(s) THEN 0 ELSE Len(s) - 1 + 1
    BY <2>2, FS_Interval, Zenon
  <2> QED
    BY <2>1, <2>3
<1>2. A \subseteq 1..Len(s)
  OBVIOUS
<1>3. IsFiniteSet(A) /\ Cardinality(A) <= Cardinality(1..Len(s))
  BY <1>1, <1>2, FS_Subset
<1>4. Cardinality(A) \in Nat
  BY <1>3, FS_CardinalityType
<1> QED
  BY <1>1, <1>3, <1>4 DEF CountIn

LEMMA AllShownStays ==
  ASSUME LogInv, NEW r \in Readers, AllShown(r), delivered'[r] = delivered[r],
         Place(r) \in Nat, Place(r)' = Place(r),
         ends' = ends \/ \E e \in Nat : e > Place(r) /\ ends' = Append(ends, e)
  PROVE  AllShown(r)'
<1>1. ends \in Seq(Nat)
  BY DEF LogInv
<1>2. CountIn(ends', Place(r)) = CountIn(ends, Place(r))
  <2>1. CASE ends' = ends
    BY <2>1
  <2>2. CASE \E e \in Nat : e > Place(r) /\ ends' = Append(ends, e)
    BY <1>1, <2>2, CountSame
  <2> QED
    BY <2>1, <2>2
<1> QED
  BY <1>2 DEF AllShown

\* The frames 1..k, the frames after lo up to hi, and a sequence that continues
\* another.
FramesTo(s, k) == s \in Seq(Nat) /\ Len(s) = k /\ \A i \in 1..Len(s) : s[i] = i
FramesAfter(s, lo, hi) ==
  s \in Seq(Nat) /\ Len(s) = hi - lo /\ \A i \in 1..Len(s) : s[i] = lo + i
ContinuesFrom(s, t) ==
  \/ s = t
  \/ Len(s) > Len(t) /\ \A i \in 1..Len(t) : s[i] = t[i]

LEMMA ConcatCounts ==
  ASSUME NEW d, NEW more, NEW lo \in Nat, NEW hi \in Nat, lo <= hi,
         FramesTo(d, lo), FramesAfter(more, lo, hi)
  PROVE  FramesTo(d \o more, hi) /\ ContinuesFrom(d \o more, d)
<1>0. /\ d \in Seq(Nat) /\ Len(d) = lo /\ \A i \in 1..Len(d) : d[i] = i
      /\ more \in Seq(Nat) /\ Len(more) = hi - lo /\ \A i \in 1..Len(more) : more[i] = lo + i
  BY DEF FramesTo, FramesAfter
<1>1. /\ d \o more \in Seq(Nat) /\ Len(d \o more) = Len(d) + Len(more)
      /\ \A i \in 1..(Len(d) + Len(more)) :
           (d \o more)[i] = IF i <= Len(d) THEN d[i] ELSE more[i - Len(d)]
  BY <1>0, ConcatProperties, Zenon
<1> DEFINE e == d \o more
<1>2. e \in Seq(Nat) /\ Len(e) = hi /\ Len(d) + Len(more) = hi
  BY <1>0, <1>1
<1>3. \A i \in 1..hi : e[i] = IF i <= lo THEN d[i] ELSE more[i - lo]
  BY <1>0, <1>1, <1>2
<1> HIDE DEF e
<1>4. ASSUME NEW i \in 1..hi PROVE e[i] = i
  <2>1. CASE i <= lo
    BY <1>0, <1>3, <2>1
  <2>2. CASE ~(i <= lo)
    <3>1. i - lo \in 1..Len(more) /\ lo + (i - lo) = i
      BY <1>0, <2>2
    <3> QED
      BY <1>0, <1>3, <2>2, <3>1
  <2> QED
    BY <2>1, <2>2
<1>5. \A i \in 1..Len(d) : e[i] = d[i]
  BY <1>0, <1>4
<1>6. CASE hi = lo
  <2>1. e = d
    BY <1>0, <1>2, <1>5, <1>6
  <2> QED
    BY <1>2, <1>4, <2>1 DEF e, FramesTo, ContinuesFrom
<1>7. CASE hi > lo
  <2>1. Len(e) > Len(d)
    BY <1>0, <1>2, <1>7
  <2> QED
    BY <1>2, <1>4, <1>5, <2>1 DEF e, FramesTo, ContinuesFrom
<1> QED
  BY <1>6, <1>7

\* What a turn of the loop reads continues what was shown.
LEMMA DrainShows ==
  ASSUME LogInv, ReaderTypes, NEW r \in Readers, Kept(r), AllShown(r),
         NEW due \in BOOLEAN, Drain(r, due)
  PROVE  /\ AllShown(r)' /\ delivered'[r] \in Seq(Nat)
         /\ Len(delivered'[r]) <= Len(ends)
         /\ \/ delivered'[r] = delivered[r]
            \/ /\ Len(delivered'[r]) > Len(delivered[r])
               /\ \A i \in 1..Len(delivered[r]) : delivered'[r][i] = delivered[r][i]
<1>0. UNCHANGED <<ends, segStart>>
  BY DEF Drain, diskVars
<1>1. PICK n \in Nat :
        /\ Place(r) + n <= EndOf(gen[r]) /\ Place(r) \in Nat
        /\ delivered' = [delivered EXCEPT ![r] = @ \o FramesIn(Place(r), Place(r) + n)]
        /\ \E g \in 0..outGen, off \in Nat :
             /\ gen' = [gen EXCEPT ![r] = g] /\ offset' = [offset EXCEPT ![r] = off]
             /\ StartOf(g) + off = Place(r) + n
  BY DrainMoves
<1>2. Place(r)' = Place(r) + n
  <2>1. PICK g \in 0..outGen, off \in Nat :
          /\ gen' = [gen EXCEPT ![r] = g] /\ offset' = [offset EXCEPT ![r] = off]
          /\ StartOf(g) + off = Place(r) + n
    BY <1>1
  <2>2. gen'[r] = g /\ offset'[r] = off
    BY <2>1 DEF ReaderTypes
  <2> QED
    BY <1>0, <2>1, <2>2 DEF Place, StartOf
<1> DEFINE more == FramesIn(Place(r), Place(r) + n)
           lo   == CountIn(ends, Place(r))
           hi   == CountIn(ends, Place(r) + n)
<1>3. /\ more \in Seq(Nat) /\ Len(more) = hi - lo /\ \A i \in 1..Len(more) : more[i] = lo + i
      /\ lo \in Nat /\ hi \in Nat /\ lo <= hi /\ hi <= Len(ends)
  <2>1. ends \in Seq(Nat) /\ Place(r) \in Nat /\ Place(r) + n \in Nat /\ Place(r) <= Place(r) + n
    BY <1>1, SMTT(60) DEF LogInv
  <2> QED
    BY <2>1, FramesInFacts, CountFacts, CountBounded
<1>4. (CountIn(ends, Place(r)))' = hi
  BY <1>0, <1>2
<1>5. /\ delivered[r] \in Seq(Nat) /\ Len(delivered[r]) = lo
      /\ \A i \in 1..Len(delivered[r]) : delivered[r][i] = i
  BY DEF AllShown, ReaderTypes
<1>6. delivered'[r] = delivered[r] \o more
  BY <1>1 DEF ReaderTypes
<1> HIDE DEF more, lo, hi
<1>f. FramesTo(delivered[r], lo) /\ FramesAfter(more, lo, hi)
  BY <1>3, <1>5 DEF FramesTo, FramesAfter
<1>g. FramesTo(delivered'[r], hi) /\ ContinuesFrom(delivered'[r], delivered[r])
  <2>1. lo \in Nat /\ hi \in Nat /\ lo <= hi
    BY <1>3
  <2>2. FramesTo(delivered[r] \o more, hi) /\ ContinuesFrom(delivered[r] \o more, delivered[r])
    BY <1>f, <2>1, ConcatCounts
  <2> QED
    BY <1>6, <2>2
<1>7. /\ delivered'[r] \in Seq(Nat) /\ Len(delivered'[r]) = hi
      /\ \A i \in 1..Len(delivered'[r]) : delivered'[r][i] = i
      /\ \/ delivered'[r] = delivered[r]
         \/ /\ Len(delivered'[r]) > Len(delivered[r])
            /\ \A i \in 1..Len(delivered[r]) : delivered'[r][i] = delivered[r][i]
  BY <1>g DEF FramesTo, ContinuesFrom
<1>8. AllShown(r)'
  BY <1>4, <1>7 DEF AllShown
<1> QED
  BY <1>3, <1>7, <1>8, <1>0

\* A step of the host or of another page leaves what the spawner was shown.
LEMMA ShownOfOthers ==
  ASSUME LogInv, ReaderTypes, Kept(Spawner), AllShown(Spawner), NEW n \in Nat \ {0},
         UNCHANGED <<gen[Spawner], offset[Spawner], delivered[Spawner]>>,
         ends' = ends \/ ends' = Append(ends, outTotal + n),
         \A g \in 0..outGen : StartOf(g)' = StartOf(g)
  PROVE  AllShown(Spawner)'
<1>1. Spawner \in Readers
  BY ReadersAssumption
<1>2. /\ gen[Spawner] \in 0..outGen /\ outTotal \in Nat /\ Place(Spawner) \in Nat
      /\ Place(Spawner) <= EndOf(gen[Spawner])
  <2>1. gen[Spawner] \in 0..outGen /\ Place(Spawner) <= EndOf(gen[Spawner])
    BY <1>1 DEF LogInv, ReaderTypes, Kept
  <2>2. Place(Spawner) \in Nat
    BY <1>1, PlaceIsNat
  <2> QED
    BY <2>1, <2>2 DEF LogInv
<1>3. EndOf(gen[Spawner]) \in Nat /\ EndOf(gen[Spawner]) <= outTotal
  BY <1>2, LogBounds
<1>4. segStart'[gen[Spawner] + 1] = segStart[gen[Spawner] + 1]
  BY <1>2 DEF StartOf
<1>5. Place(Spawner)' = Place(Spawner)
  BY <1>4 DEF Place, StartOf
<1>6. outTotal + n \in Nat /\ outTotal + n > Place(Spawner)
  BY <1>2, <1>3
<1> QED
  BY <1>1, <1>2, <1>5, <1>6, AllShownStays

\* A process runs only if what is not acknowledged fits the window.
LEMMA WindowOpens ==
  ASSUME HasProc, paused \in BOOLEAN, NEW t \in Nat, NEW a \in Nat, ~Window(t, a)
  PROVE  t - a <= AckWindow
<1>1. AckWindow \in Nat /\ AckResume \in Nat /\ AckResume <= AckWindow
  BY LimitsAssumption
<1>2. CASE paused
  <2>1. t - a <= AckResume
    BY <1>2, Zenon DEF Window
  <2> QED
    BY <1>1, <2>1
<1>3. CASE ~paused
  <2>1. ~(t - a > AckWindow)
    BY <1>3, Zenon DEF Window
  <2> QED
    BY <1>1, <2>1
<1> QED
  BY <1>2, <1>3

\* What fits still fits after more of both, or after an ack.
LEMMA StillFits ==
  ASSUME NEW o \in Nat, NEW a \in Nat, NEW w \in Nat, NEW c \in Nat, NEW n \in Nat, NEW h \in Nat,
         NEW b \in Nat, a <= b, o <= a + w + n + c + h
  PROVE  o <= b + w + n + c + h
  OBVIOUS

LEMMA AnswersStep ==
  ASSUME AllInv, AllInv', AnswersInv, [Next]_vars
  PROVE  AnswersInv'
<1>0. paused \in BOOLEAN /\ paused' \in BOOLEAN /\ MaxControl \in Nat /\ control \in Nat
  BY BoundsAssumption DEF AllInv, ReaderTypes, AnswersInv
<1>1. CASE UNCHANGED <<paused, control>>
  BY <1>1 DEF AnswersInv
<1>2. CASE AppendControl
  <2>1. PICK n \in Sizes : AppendFrame(n) /\ control' = IF paused THEN control + n ELSE control
    BY <1>2 DEF AppendControl
  <2>2. paused' = paused /\ control' <= MaxControl /\ n \in Nat
    BY <1>2, <2>1, SizesAssumption DEF AppendControl, AppendFrame
  <2> QED
    BY <1>0, <2>1, <2>2 DEF AnswersInv
<1>3. CASE Publish \/ HostAck
  <2>1. control' = IF paused' THEN control ELSE 0
    BY <1>3 DEF Publish, HostAck, SincePaused
  <2> QED
    BY <1>0, <2>1 DEF AnswersInv
<1>4. CASE AppendOutput
  BY <1>1, <1>4 DEF AppendOutput, AppendFrame, otherVars
<1>5. ASSUME NEW r \in Readers, Grant(r) \/ Attach(r) \/ Vanish(r) \/ Read(r)
      PROVE  UNCHANGED <<paused, control>>
  BY <1>5 DEF Grant, AppendFrame, Attach, Vanish, Read, ReadSig, Drain, hostVars, otherVars
<1> QED
  BY <1>1, <1>2, <1>3, <1>4, <1>5 DEF Next, vars, hostVars, otherVars

LEMMA SpawnStep ==
  ASSUME Windowed, AllInv, AllInv', PauseMatchesWindow, SpawnInv, [Next]_vars
  PROVE  SpawnInv'
<1> DEFINE s == Spawner
<1>0. /\ LogInv /\ ReaderTypes /\ \A r \in Readers : Kept(r)
      /\ s \in Readers /\ AnswersInv' /\ (phase[s] # "off" => InCharge)
  BY ReadersAssumption, AnswersStep DEF AllInv, AccountsInv, SpawnInv
<1>1. /\ outGen \in Nat /\ outTotal \in Nat /\ segBytes \in Nat /\ ackTotal \in Nat
      /\ gen[s] \in 0..outGen /\ cum[s] \in Nat /\ paused \in BOOLEAN
  BY <1>0 DEF LogInv, ReaderTypes, Kept
<1>2. /\ SegMax \in Nat /\ AckWindow \in Nat /\ Sizes \subseteq Nat \ {0} /\ MaxControl \in Nat
      /\ control \in Nat /\ control <= MaxControl /\ (~paused => control = 0)
      /\ control' \in Nat
  BY <1>0, LimitsAssumption, SizesAssumption, BoundsAssumption DEF SpawnInv, AnswersInv
<1>3. /\ Place(s) \in Nat /\ cum[s] <= Place(s) /\ Place(s) <= EndOf(gen[s])
  BY <1>0, PlaceIsNat DEF Kept
<1>4. CASE AppendOutput
  <2>1. PICK n \in Sizes : AppendFrame(n)
    BY <1>4 DEF AppendOutput
  <2>2. n \in Nat \ {0}
    BY <1>2
  <2>3. /\ UNCHANGED <<phase, gen, offset, cum, skipped, delivered, writer, asked, control, ackTotal, outGen>>
        /\ outTotal' = outTotal + n /\ ends' = Append(ends, outTotal + n)
    BY <1>4, <2>1 DEF AppendOutput, AppendFrame, readerVars, otherVars
  <2>4. \A g \in 0..outGen : StartOf(g)' = StartOf(g)
    BY <1>0, <2>1, <2>2, LogAppends
  <2>5. outTotal - ackTotal <= AckWindow
    <3>1. HasProc /\ ~writing /\ ~paused
      BY <1>4, <2>1, Zenon DEF Windowed, AppendOutput, AppendFrame
    <3> QED
      BY <3>1, Zenon DEF PauseMatchesWindow
  <2>6. outTotal' <= ackTotal' + AckWindow + n + control'
    BY <1>1, <1>2, <2>2, <2>3, <2>5
  <2>7. ASSUME phase'[s] # "off" PROVE InCharge'
    <3>1. InCharge
      BY <1>0, <2>3, <2>7
    <3>2. AllShown(s)'
      BY <1>0, <2>2, <2>3, <2>4, <3>1, ShownOfOthers DEF InCharge
    <3> QED
      BY <2>3, <2>6, <3>1, <3>2 DEF InCharge
  <2> QED
    BY <1>0, <2>7 DEF SpawnInv
<1>5. CASE AppendControl
  <2>1. PICK n \in Sizes : AppendFrame(n) /\ control' = IF paused THEN control + n ELSE control
    BY <1>5 DEF AppendControl
  <2>2. n \in Nat \ {0}
    BY <1>2
  <2>3. /\ UNCHANGED <<phase, gen, offset, cum, skipped, delivered, writer, asked, ackTotal, outGen, paused>>
        /\ outTotal' = outTotal + n /\ ends' = Append(ends, outTotal + n) /\ ~writing
    BY <1>5, <2>1 DEF AppendControl, AppendFrame, readerVars
  <2>4. \A g \in 0..outGen : StartOf(g)' = StartOf(g)
    BY <1>0, <2>1, <2>2, LogAppends
  <2>5. ASSUME phase'[s] # "off" PROVE InCharge'
    <3>1. InCharge
      BY <1>0, <2>3, <2>5
    <3>2. AllShown(s)'
      BY <1>0, <2>2, <2>3, <2>4, <3>1, ShownOfOthers DEF InCharge
    <3>3. \E m \in Sizes : outTotal' <= ackTotal' + AckWindow + m + control'
      <4>1. CASE paused
        <5>1. PICK m \in Sizes : outTotal <= ackTotal + AckWindow + m + control
          BY <3>1, <4>1 DEF InCharge
        <5>2. m \in Nat /\ n \in Nat /\ outTotal + n <= ackTotal + AckWindow + m + (control + n)
          BY <1>1, <1>2, <5>1
        <5>3. outTotal' <= ackTotal' + AckWindow + m + control'
          BY <2>1, <2>3, <4>1, <5>2
        <5> QED
          BY <5>3
      <4>2. CASE ~paused
        <5>1. outTotal - ackTotal <= AckWindow
          BY <2>3, <4>2, Zenon DEF PauseMatchesWindow, Windowed
        <5>2. control = 0 /\ control' = 0
          BY <1>2, <2>1, <4>2
        <5>3. outTotal + n <= ackTotal + AckWindow + n + 0
          BY <1>1, <1>2, <2>2, <5>1
        <5>4. outTotal' <= ackTotal' + AckWindow + n + control'
          BY <2>3, <5>2, <5>3
        <5> QED
          BY <2>1, <5>4
      <4> QED
        BY <4>1, <4>2
    <3> QED
      BY <2>3, <3>1, <3>2, <3>3 DEF InCharge
  <2> QED
    BY <1>0, <2>5 DEF SpawnInv
<1>6. ASSUME NEW r \in Readers, Grant(r) PROVE SpawnInv'
  <2>1. r \in asked /\ phase' = phase
    BY <1>6 DEF Grant, readerVars
  <2>2. phase[s] = "off"
    BY <1>0, <2>1 DEF InCharge
  <2> QED
    BY <1>0, <2>1, <2>2 DEF SpawnInv
<1>7. CASE Publish
  <2>1. /\ UNCHANGED <<phase, gen, offset, cum, skipped, delivered, writer, asked,
                       ackTotal, outTotal, ends>>
        /\ writing /\ ~writing' /\ (outGen' = outGen \/ (Full /\ outGen' = outGen + 1))
        /\ (paused' => control' = control)
    BY <1>7 DEF Publish, readerVars, SincePaused
  <2>2. \A g \in 0..outGen : StartOf(g)' = StartOf(g)
    BY <1>0, <1>7, LogPublishes
  <2>3. ASSUME phase'[s] # "off" PROVE InCharge'
    <3>1. InCharge
      BY <1>0, <2>1, <2>3
    <3>2. AllShown(s)'
      BY <1>0, <2>1, <2>2, <3>1, ShownOfOthers, 1 \in Nat \ {0} DEF InCharge
    <3>3. outGen' <= gen[s] + 1
      <4>1. CASE outGen' = outGen
        BY <3>1, <4>1 DEF InCharge
      <4>2. CASE Full /\ outGen' = outGen + 1
        <5>1. PICK n \in Sizes : outTotal <= ackTotal + AckWindow + n + control
          BY <2>1, <3>1 DEF InCharge
        <5>2. segBytes >= SegMax /\ AckWindow + n + MaxControl < SegMax /\ n \in Nat
          BY <1>2, <4>2 DEF Full, Windowed
        <5>3. outTotal < ackTotal + segBytes
          BY <1>1, <1>2, <5>1, <5>2
        <5>4. ackTotal <= cum[s] /\ outGen <= gen[s] + 1
          BY <3>1 DEF InCharge
        <5>5. CASE outGen = gen[s] + 1
          <6>1. EndOf(gen[s]) <= StartOf(outGen) /\ EndOf(gen[s]) \in Nat
            BY <1>0, <1>1, <5>5, LogBounds
          <6>2. outTotal = StartOf(outGen) + segBytes /\ StartOf(outGen) \in Nat
            BY <1>0 DEF LogInv, StartOf
          <6>3. ackTotal <= StartOf(outGen)
            BY <1>1, <1>3, <5>4, <6>1, <6>2
          <6> QED
            BY <1>1, <5>3, <6>2, <6>3
        <5>6. CASE outGen <= gen[s]
          BY <1>1, <4>2, <5>6
        <5> QED
          BY <1>1, <5>4, <5>5, <5>6
      <4> QED
        BY <2>1, <4>1, <4>2
    <3>4. ASSUME paused'
          PROVE  \E n \in Sizes : outTotal' <= ackTotal' + AckWindow + n + control'
      BY <2>1, <3>1, <3>4 DEF InCharge
    <3> QED
      BY <2>1, <3>1, <3>2, <3>3, <3>4 DEF InCharge
  <2> QED
    BY <1>0, <2>1, <2>3 DEF SpawnInv
<1>8. CASE HostAck
  <2>1. /\ UNCHANGED <<phase, gen, offset, cum, skipped, delivered, writer, asked,
                       outTotal, outGen, ends, segStart, writing>>
        /\ ~writing /\ acks[writer] # <<>>
        /\ ackTotal' = IF Head(acks[writer]) > ackTotal THEN Head(acks[writer]) ELSE ackTotal
        /\ paused' = Window(outTotal, ackTotal') /\ (paused' => control' = control)
    BY <1>8 DEF HostAck, SincePaused
  <2>2. \A g \in 0..outGen : StartOf(g)' = StartOf(g)
    BY <2>1 DEF StartOf
  <2>3. ackTotal' \in Nat /\ ackTotal <= ackTotal'
    <3>1. ackTotal' \in Nat
      BY DEF AllInv, ReaderTypes
    <3> QED
      BY <1>1, <2>1, <3>1
  <2>4. ASSUME phase'[s] # "off" PROVE InCharge'
    <3>1. InCharge
      BY <1>0, <2>1, <2>4
    <3>2. AllShown(s)'
      BY <1>0, <2>1, <2>2, <3>1, ShownOfOthers, 1 \in Nat \ {0} DEF InCharge
    <3>3. ackTotal' <= cum[s]
      <4>1. writer = s /\ ackTotal <= cum[s]
        BY <3>1 DEF InCharge
      <4>2. acks[s] \in Seq(Nat) /\ acks[s] # <<>>
        BY <1>0, <2>1, <4>1 DEF ReaderTypes
      <4>3. 1 \in 1..Len(acks[s]) /\ Head(acks[s]) = acks[s][1]
        BY <4>2
      <4>4. acks[s][1] <= cum[s]
        BY <1>0, <4>3 DEF Kept
      <4> QED
        BY <2>1, <4>1, <4>3, <4>4
    <3>4. ASSUME paused'
          PROVE  \E n \in Sizes : outTotal' <= ackTotal' + AckWindow + n + control'
      <4>1. paused
        <5>1. SUFFICES ASSUME ~paused PROVE FALSE
          OBVIOUS
        <5>2. outTotal - ackTotal <= AckWindow
          BY <2>1, <5>1, Zenon DEF PauseMatchesWindow, Windowed
        <5>3. outTotal - ackTotal' > AckWindow
          BY <2>1, <3>4, <5>1, Zenon DEF Window, Windowed
        <5>4. PICK a \in Nat : a = ackTotal'
          BY <2>3
        <5>5. ackTotal <= a /\ outTotal - a > AckWindow
          BY <2>3, <5>3, <5>4, Zenon
        <5> QED
          BY <1>1, <1>2, <5>2, <5>5
      <4>2. PICK n \in Sizes : outTotal <= ackTotal + AckWindow + n + control
        BY <3>1, <4>1 DEF InCharge
      <4>3. PICK a \in Nat : a = ackTotal'
        BY <2>3
      <4>4. n \in Nat /\ ackTotal <= a
        BY <1>2, <2>3, <4>3
      <4>5. outTotal <= a + AckWindow + n + control
        BY <1>1, <1>2, <4>2, <4>4
      <4> QED
        BY <2>1, <3>4, <4>3, <4>5
    <3> QED
      BY <2>1, <3>1, <3>2, <3>3, <3>4 DEF InCharge
  <2> QED
    BY <1>0, <2>1, <2>4 DEF SpawnInv
<1>9. ASSUME NEW r \in Readers, Attach(r) PROVE SpawnInv'
  <2>1. /\ phase[writer] = "off" /\ r # s
        /\ phase' = [phase EXCEPT ![r] = "idle"]
    BY <1>9 DEF Attach, Windowed
  <2>2. phase[s] = "off"
    BY <1>0, <2>1 DEF InCharge
  <2>3. phase'[s] = "off"
    BY <1>0, <2>1, <2>2 DEF ReaderTypes
  <2> QED
    BY <1>0, <2>1, <2>3 DEF SpawnInv
<1>10. ASSUME NEW r \in Readers, Vanish(r) PROVE SpawnInv'
  <2>1. phase'[s] = "off"
    BY <1>0, <1>10 DEF Vanish, ReaderTypes
  <2> QED
    BY <1>0, <2>1 DEF SpawnInv
<1>11. ASSUME NEW r \in Readers, ReadSig(r) PROVE SpawnInv'
  <2>1. /\ UNCHANGED <<cum, delivered, writer, asked, control, ackTotal, outTotal, outGen, ends, segStart, writing, paused>>
        /\ phase[r] = "idle" /\ sig # NoSig
        /\ phase' = [phase EXCEPT ![r] = "drain"]
        /\ gen' = [gen EXCEPT ![r] = Resync(r).gen] /\ offset' = [offset EXCEPT ![r] = Resync(r).offset]
    BY <1>11 DEF ReadSig, hostVars, diskVars, otherVars
  <2>2. ASSUME phase'[s] # "off" PROVE InCharge'
    <3>1. InCharge
      BY <1>0, <2>1, <2>2 DEF ReaderTypes
    <3>2. UNCHANGED <<gen[s], offset[s], skipped[s]>>
      <4>1. CASE r = s
        <5>1. sig.gen = outGen
          BY <1>0, <2>1 DEF LogInv
        <5>2. ~(sig.gen > gen[s] + 1)
          BY <1>1, <3>1, <5>1 DEF InCharge
        <5>3. Resync(s) = [gen |-> gen[s], offset |-> offset[s]]
          BY <5>2 DEF Resync
        <5>4. skipped'[s] = (skipped[s] \/ sig.gen > gen[s] + 1) /\ skipped[s] \in BOOLEAN
          BY <1>0, <1>11, <4>1 DEF ReadSig, ReaderTypes
        <5>5. skipped'[s] = skipped[s]
          BY <5>2, <5>4
        <5> QED
          BY <1>0, <2>1, <4>1, <5>3, <5>5 DEF ReaderTypes
      <4>2. CASE r # s
        BY <1>0, <1>11, <4>2 DEF ReadSig, ReaderTypes
      <4> QED
        BY <4>1, <4>2
    <3>3. \A g \in 0..outGen : StartOf(g)' = StartOf(g)
      BY <2>1 DEF StartOf
    <3>4. AllShown(s)'
      BY <1>0, <2>1, <3>1, <3>2, <3>3, ShownOfOthers, 1 \in Nat \ {0} DEF InCharge
    <3> QED
      BY <2>1, <3>1, <3>2, <3>4 DEF InCharge
  <2> QED
    BY <1>0, <2>1, <2>2 DEF SpawnInv
<1>12. ASSUME NEW r \in Readers, NEW due \in BOOLEAN, Drain(r, due) PROVE SpawnInv'
  <2>1. /\ UNCHANGED <<skipped, writer, asked, control, ackTotal, outTotal, outGen, ends, segStart, writing, paused>>
        /\ phase[r] = "drain"
    BY <1>12 DEF Drain, hostVars, diskVars, otherVars
  <2>2. ASSUME phase'[s] # "off" PROVE InCharge'
    <3>1. InCharge
      BY <1>0, <1>12, <2>1, <2>2 DEF Drain, ReaderTypes
    <3>2. CASE r = s
      <4>1. AllShown(s)'
        BY <1>0, <1>12, <3>1, <3>2, DrainShows DEF InCharge
      <4>2. PICK n \in Nat : cum' = [cum EXCEPT ![s] = @ + n]
        BY <1>0, <1>12, <3>2, DrainCounts
      <4>3. ackTotal <= cum'[s]
        BY <1>0, <1>1, <3>1, <4>2 DEF InCharge, ReaderTypes
      <4>4. outGen <= gen'[s] + 1
        <5>1. gen'[s] = gen[s] \/ gen'[s] = gen[s] + 1
          BY <1>0, <1>12, <3>2 DEF Drain, ReaderTypes
        <5> QED
          BY <1>1, <3>1, <5>1 DEF InCharge
      <4> QED
        BY <2>1, <3>1, <4>1, <4>3, <4>4 DEF InCharge
    <3>3. CASE r # s
      <4>1. UNCHANGED <<gen[s], offset[s], cum[s], delivered[s]>>
        BY <1>0, <1>12, <3>3 DEF Drain, ReaderTypes
      <4>2. \A g \in 0..outGen : StartOf(g)' = StartOf(g)
        BY <2>1 DEF StartOf
      <4>3. AllShown(s)'
        BY <1>0, <2>1, <3>1, <4>1, <4>2, ShownOfOthers, 1 \in Nat \ {0} DEF InCharge
      <4> QED
        BY <2>1, <3>1, <4>1, <4>3 DEF InCharge
    <3> QED
      BY <3>2, <3>3
  <2> QED
    BY <1>0, <2>1, <2>2 DEF SpawnInv
<1>13. CASE UNCHANGED vars
  BY <1>13 DEF vars, hostVars, diskVars, readerVars, otherVars, SpawnInv, AnswersInv, InCharge, AllShown, Place, StartOf, CountIn
<1> QED
  BY <1>4, <1>5, <1>6, <1>7, <1>8, <1>9, <1>10, <1>11, <1>12, <1>13 DEF Next, Read

\* Each step is one of the channel, or none.
LEMMA ChannelStep ==
  ASSUME AllInv, AllInv', SpawnInv, [Next]_vars
  PROVE  [Channel!Next]_Channel!vars
<1> DEFINE s == Spawner
<1>0. /\ LogInv /\ ReaderTypes /\ Kept(s) /\ s \in Readers /\ ends \in Seq(Nat)
      /\ \A r \in Readers : delivered[r] \in Seq(Nat)
  BY ReadersAssumption DEF AllInv, AccountsInv, LogInv, ReaderTypes
<1>1. ASSUME NEW e, ends' = Append(ends, e), delivered' = delivered PROVE Channel!Send
  <2>1. ends' \in Seq(Nat)
    BY DEF AllInv, LogInv
  <2>2. Len(ends') = Len(ends) + 1 /\ Len(ends) \in Nat
    BY <1>0, <1>1
  <2> QED
    BY <1>1, <2>2 DEF Channel!Send
<1>2. ASSUME ends' = ends, delivered'[s] = delivered[s] PROVE UNCHANGED Channel!vars
  BY <1>2 DEF Channel!vars
<1>3. CASE AppendOutput \/ AppendControl \/ \E r \in Readers : Grant(r)
  <2>1. PICK n : AppendFrame(n)
    BY <1>3 DEF AppendOutput, AppendControl, Grant
  <2>2. delivered' = delivered /\ ends' = Append(ends, outTotal + n)
    BY <1>3, <2>1 DEF AppendOutput, AppendControl, Grant, AppendFrame, readerVars
  <2> QED
    BY <1>1, <2>2 DEF Channel!Next
<1>4. CASE Publish \/ HostAck
  <2>1. ends' = ends /\ delivered' = delivered
    BY <1>4 DEF Publish, HostAck, readerVars
  <2> QED
    BY <1>2, <2>1
<1>5. ASSUME NEW r \in Readers, Attach(r) \/ Vanish(r) \/ ReadSig(r) PROVE UNCHANGED Channel!vars
  <2>1. ends' = ends /\ delivered' = delivered
    BY <1>5 DEF Attach, Vanish, ReadSig, diskVars
  <2> QED
    BY <1>2, <2>1
<1>6. ASSUME NEW r \in Readers, NEW due \in BOOLEAN, Drain(r, due) PROVE [Channel!Next]_Channel!vars
  <2>1. ends' = ends /\ phase[r] = "drain"
    BY <1>6 DEF Drain, diskVars
  <2>2. CASE r # s
    <3>1. delivered'[s] = delivered[s]
      BY <1>0, <1>6, <2>2 DEF Drain, ReaderTypes
    <3> QED
      BY <1>2, <2>1, <3>1
  <2>3. CASE r = s
    <3> DEFINE d == delivered[s]
               e == delivered'[s]
    <3>1. AllShown(s)
      BY <2>1, <2>3 DEF SpawnInv, InCharge
    <3>2. /\ AllShown(s)' /\ e \in Seq(Nat) /\ Len(e) <= Len(ends)
          /\ \/ e = d
             \/ /\ Len(e) > Len(d)
                /\ \A i \in 1..Len(d) : e[i] = d[i]
      BY <1>0, <1>6, <2>3, <3>1, DrainShows
    <3>3. \A i \in 1..Len(e) : e[i] = i
      BY <3>2 DEF AllShown
    <3>4. CASE e = d
      BY <1>2, <2>1, <3>4
    <3>5. CASE Len(e) > Len(d) /\ \A i \in 1..Len(d) : e[i] = d[i]
      <4>1. \A i \in 1..Len(e) : e[i] \in 1..Len(ends)
        BY <1>0, <3>2, <3>3
      <4>2. Channel!InOrder(e)
        <5>1. SUFFICES ASSUME NEW i \in 1..Len(e), NEW f \in 1..(e[i] - 1)
                       PROVE  \E j \in 1..(i - 1) : e[j] = f
          BY DEF Channel!InOrder
        <5>2. f \in 1..(i - 1) /\ f \in 1..Len(e)
          BY <3>2, <3>3, <5>1
        <5> QED
          BY <3>3, <5>2
      <4> QED
        BY <2>1, <3>2, <3>3, <3>5, <4>1, <4>2 DEF Channel!Deliver, Channel!Next
    <3> QED
      BY <3>2, <3>4, <3>5
  <2> QED
    BY <2>2, <2>3
<1>7. CASE UNCHANGED vars
  BY <1>2, <1>7 DEF vars, diskVars, readerVars
<1> QED
  BY <1>3, <1>4, <1>5, <1>6, <1>7 DEF Next, Read

\* The spawning client's stream is a reliable channel, for any sizes and any
\* readers that follow once its page has gone, if the ack window, one frame and
\* the answers written during one pause (which bypass flow control) fit a
\* segment: no frame is lost, repeated or reordered, across rotations, hops,
\* stale reads and deletions (appendFrame, gcSegments, checkWindow,
\* #drainOutLog).
THEOREM DownlinkIsAChannel == ASSUME Windowed PROVE Spec => ImplementsChannel
<1>1. Init => AllInv /\ SpawnInv /\ Channel!Init
  <2> SUFFICES ASSUME Init PROVE Channel!Init
    BY InitAll, InitSpawn
  <2>1. Spawner \in Readers /\ ends = <<>> /\ delivered[Spawner] = <<>> /\ Len(<<>>) = 0
    BY ReadersAssumption DEF Init
  <2> QED
    BY <2>1 DEF Channel!Init
<1>2. AllInv /\ [Next]_vars => AllInv'
  BY AllStep
<1>3. AllInv /\ AllInv' /\ PauseMatchesWindow /\ SpawnInv /\ [Next]_vars => SpawnInv'
  BY SpawnStep
<1>4. AllInv /\ AllInv' /\ SpawnInv /\ [Next]_vars => [Channel!Next]_Channel!vars
  BY ChannelStep
<1> QED
  BY <1>1, <1>2, <1>3, <1>4, PausedByTheWindow, PTL DEF Spec, ImplementsChannel, Channel!Spec
-----------------------------------------------------------------------------
(* The segments kept *)

\* The finished segments a client may still have to read.
Waiting == {g \in 0..(outGen - 1) : EndOf(g) > ackTotal}

\* The host's list of finished segments and the files on disk are exactly what
\* is not acknowledged, plus the segment being written; a finished segment is
\* a full one; and between appends out.sig, if there is one, names the head.
DiskInv ==
  /\ doneSegs = {[gen |-> g, endTotal |-> EndOf(g)] : g \in Waiting}
  /\ disk = Waiting \cup {g \in {outGen} : segBytes > 0}
  /\ \A g \in 0..(outGen - 1) : StartOf(g) + SegMax <= EndOf(g)
  /\ ~writing => (IF sig = NoSig THEN 0 ELSE sig.total) = outTotal

LEMMA InitDisk == Init => DiskInv
<1> SUFFICES ASSUME Init PROVE DiskInv
  OBVIOUS
<1>1. outGen = 0 /\ segBytes = 0 /\ doneSegs = {} /\ disk = {} /\ sig = NoSig /\ outTotal = 0
  BY DEF Init
<1>2. 0..(outGen - 1) = {} /\ Waiting = {}
  BY <1>1 DEF Waiting
<1> QED
  BY <1>1, <1>2 DEF DiskInv

\* The ends of the finished segments stay where they are.
LEMMA FinishedStay ==
  ASSUME LogInv, outGen' = outGen, UNCHANGED segStart
  PROVE  /\ \A g \in 0..(outGen - 1) : EndOf(g)' = EndOf(g) /\ StartOf(g)' = StartOf(g) /\ EndOf(g) \in Nat
         /\ ackTotal' = ackTotal => Waiting' = Waiting
<1>1. outGen \in Nat /\ outGen' = outGen /\ segStart' = segStart
  BY DEF LogInv
<1>2. \A g \in 0..(outGen - 1) : g # outGen /\ g \in 0..outGen
  BY <1>1
<1>3. \A g \in 0..(outGen - 1) : EndOf(g)' = EndOf(g) /\ StartOf(g)' = StartOf(g) /\ EndOf(g) \in Nat
  BY <1>1, <1>2, LogBounds DEF EndOf, StartOf
<1>4. ackTotal' = ackTotal => Waiting' = Waiting
  BY <1>1, <1>3 DEF Waiting
<1> QED
  BY <1>3, <1>4

\* What gcSegments leaves of a list of finished segments, and deletes.
Listed(S) == {[gen |-> g, endTotal |-> EndOf(g)] : g \in S}

LEMMA Collected ==
  ASSUME NEW S, NEW t
  PROVE  /\ Unacked(Listed(S), t) = Listed({g \in S : EndOf(g) > t})
         /\ {d.gen : d \in Listed(S) \ Unacked(Listed(S), t)} = {g \in S : ~(EndOf(g) > t)}
<1>1. Unacked(Listed(S), t) = Listed({g \in S : EndOf(g) > t})
  BY DEF Unacked, Listed
<1> DEFINE row(g) == [gen |-> g, endTotal |-> EndOf(g)]
<1>2. /\ \A g \in S : row(g) \in Listed(S) /\ row(g).gen = g /\ row(g).endTotal = EndOf(g)
      /\ \A d \in Listed(S) : \E g \in S : d = row(g)
  BY DEF Listed
<1>3. \A d : d \in Listed(S) \ Unacked(Listed(S), t) <=> d \in Listed(S) /\ ~(d.endTotal > t)
  BY DEF Unacked
<1> HIDE DEF row
<1>4. {d.gen : d \in Listed(S) \ Unacked(Listed(S), t)} \subseteq {g \in S : ~(EndOf(g) > t)}
  <2>1. SUFFICES ASSUME NEW d \in Listed(S) \ Unacked(Listed(S), t)
                 PROVE  d.gen \in {g \in S : ~(EndOf(g) > t)}
    OBVIOUS
  <2> QED
    BY <1>2, <1>3, <2>1
<1>5. {g \in S : ~(EndOf(g) > t)} \subseteq {d.gen : d \in Listed(S) \ Unacked(Listed(S), t)}
  <2>1. SUFFICES ASSUME NEW g \in S, ~(EndOf(g) > t)
                 PROVE  \E d \in Listed(S) \ Unacked(Listed(S), t) : d.gen = g
    OBVIOUS
  <2>2. row(g) \in Listed(S) \ Unacked(Listed(S), t) /\ row(g).gen = g
    BY <1>2, <1>3, <2>1
  <2> QED
    BY <2>2
<1> QED
  BY <1>1, <1>4, <1>5

LEMMA DiskAppends ==
  ASSUME LogInv, DiskInv, NEW n \in Nat \ {0}, AppendFrame(n)
  PROVE  DiskInv'
<1>1. /\ UNCHANGED <<outGen, segStart, ackTotal, doneSegs>> /\ writing' = TRUE
      /\ disk' = disk \cup {outGen} /\ segBytes' = segBytes + n
  BY DEF AppendFrame
<1>2. /\ \A g \in 0..(outGen - 1) : EndOf(g)' = EndOf(g) /\ StartOf(g)' = StartOf(g)
      /\ Waiting' = Waiting
  BY <1>1, FinishedStay
<1>3. segBytes' > 0
  BY <1>1 DEF LogInv
<1>4. doneSegs' = {[gen |-> g, endTotal |-> EndOf(g)'] : g \in Waiting}
  BY <1>1, <1>2 DEF DiskInv, Waiting
<1>5. disk' = Waiting \cup {g \in {outGen} : segBytes' > 0}
  BY <1>1, <1>3 DEF DiskInv
<1>6. \A g \in 0..(outGen - 1) : StartOf(g)' + SegMax <= EndOf(g)'
  BY <1>2 DEF DiskInv
<1> QED
  BY <1>1, <1>2, <1>4, <1>5, <1>6 DEF DiskInv

LEMMA DiskPublishes ==
  ASSUME LogInv, LogInv', DiskInv, ackTotal \in Nat, Publish
  PROVE  DiskInv'
<1>1. /\ UNCHANGED <<outTotal, ackTotal>> /\ ~writing'
      /\ sig' = [gen |-> outGen', size |-> segBytes', prevFinal |-> prevFinal', total |-> outTotal]
  BY DEF Publish
<1>2. sig' # NoSig /\ sig'.total = outTotal'
  <2>1. outGen' # -1
    BY DEF LogInv
  <2> QED
    BY <1>1, <2>1 DEF NoSig
<1>3. outGen \in Nat /\ outTotal \in Nat /\ segBytes \in Nat
  BY DEF LogInv
<1>4. CASE ~Full
  <2>1. UNCHANGED <<outGen, segBytes, segStart, doneSegs, disk>>
    BY <1>4 DEF Publish
  <2>2. /\ \A g \in 0..(outGen - 1) : EndOf(g)' = EndOf(g) /\ StartOf(g)' = StartOf(g)
        /\ Waiting' = Waiting
    BY <1>1, <2>1, FinishedStay
  <2>3. doneSegs' = {[gen |-> g, endTotal |-> EndOf(g)'] : g \in Waiting}
    BY <2>1, <2>2 DEF DiskInv, Waiting
  <2> QED
    BY <1>2, <2>1, <2>2, <2>3 DEF DiskInv
<1>5. CASE Full
  <2> DEFINE all == doneSegs \cup {[gen |-> outGen, endTotal |-> outTotal]}
             kept == Unacked(all, ackTotal)
  <2>1. /\ doneSegs' = kept /\ disk' = disk \ {d.gen : d \in all \ kept}
        /\ outGen' = outGen + 1 /\ segBytes' = 0 /\ segStart' = Append(segStart, outTotal)
    BY <1>5 DEF Publish
  <2>2. \A g \in 0..outGen : EndOf(g)' = EndOf(g) /\ StartOf(g)' = StartOf(g)
    BY LogPublishes
  <2>3. EndOf(outGen) = outTotal /\ segBytes > 0 /\ StartOf(outGen) + SegMax <= outTotal
    <3>1. segBytes >= SegMax /\ SegMax \in Nat \ {0}
      BY <1>5, LimitsAssumption DEF Full
    <3>2. outTotal = StartOf(outGen) + segBytes /\ StartOf(outGen) \in Nat
      BY SMTT(60) DEF LogInv, StartOf
    <3> QED
      BY <1>3, <3>1, <3>2 DEF EndOf
  <2>4. 0..outGen = (0..(outGen - 1)) \cup {outGen} /\ outGen' - 1 = outGen
    BY <1>3, <2>1
  <2>5. all = Listed(Waiting \cup {outGen})
    BY <2>3 DEF DiskInv, Listed
  <2>6. \A g \in 0..outGen : g \in Waiting \cup {outGen} /\ EndOf(g) > ackTotal <=> EndOf(g) > ackTotal
    BY <2>4 DEF Waiting
  <2>7. Waiting' = {g \in Waiting \cup {outGen} : EndOf(g) > ackTotal}
    BY <1>1, <2>2, <2>4, <2>6 DEF Waiting
  <2>8. doneSegs' = Listed(Waiting')
    <3>1. kept = Unacked(all, ackTotal)
      OBVIOUS
    <3> HIDE DEF all, kept
    <3>2. kept = Unacked(Listed(Waiting \cup {outGen}), ackTotal)
      BY <2>5, <3>1, Zenon
    <3>3. kept = Listed({g \in Waiting \cup {outGen} : EndOf(g) > ackTotal})
      BY <3>2, Collected, Zenon
    <3> QED
      BY <2>1, <2>7, <3>3, Zenon
  <2>9. doneSegs' = {[gen |-> g, endTotal |-> EndOf(g)'] : g \in Waiting'}
    <3>1. Waiting' \subseteq 0..outGen
      BY <2>4, <2>7 DEF Waiting
    <3> QED
      BY <2>2, <2>8, <3>1 DEF Listed
  <2>10. disk' = Waiting'
    <3>1. disk = Waiting \cup {outGen}
      BY <2>3 DEF DiskInv
    <3>2. {d.gen : d \in all \ kept} = {g \in Waiting \cup {outGen} : ~(EndOf(g) > ackTotal)}
      BY <2>5, Collected
    <3> HIDE DEF all, kept
    <3>3. disk' = (Waiting \cup {outGen}) \ {g \in Waiting \cup {outGen} : ~(EndOf(g) > ackTotal)}
      BY <2>1, <3>1, <3>2
    <3> QED
      BY <2>7, <3>3
  <2>11. disk' = Waiting' \cup {g \in {outGen'} : segBytes' > 0}
    <3>1. ~(segBytes' > 0)
      BY <2>1
    <3>2. {g \in {outGen'} : segBytes' > 0} = {}
      BY <3>1, Zenon
    <3> QED
      BY <2>10, <3>2, Zenon
  <2>12. \A g \in 0..(outGen' - 1) : StartOf(g)' + SegMax <= EndOf(g)'
    BY <2>2, <2>3, <2>4 DEF DiskInv
  <2> QED
    BY <1>2, <2>9, <2>11, <2>12 DEF DiskInv
<1> QED
  BY <1>4, <1>5

LEMMA DiskAcks ==
  ASSUME LogInv, DiskInv, ackTotal \in Nat, ackTotal' \in Nat, ackTotal <= ackTotal', HostAck
  PROVE  DiskInv'
<1> DEFINE kept == Unacked(doneSegs, ackTotal')
<1>1. /\ UNCHANGED <<outGen, segBytes, outTotal, writing, segStart, sig>>
      /\ doneSegs' = kept /\ disk' = disk \ {d.gen : d \in doneSegs \ kept}
  BY DEF HostAck
<1>2. \A g \in 0..(outGen - 1) : EndOf(g)' = EndOf(g) /\ StartOf(g)' = StartOf(g) /\ EndOf(g) \in Nat
  BY <1>1, FinishedStay
<1>3. doneSegs = Listed(Waiting)
  BY DEF DiskInv, Listed
<1>4. Waiting' = {g \in Waiting : EndOf(g) > ackTotal'}
  BY <1>1, <1>2 DEF Waiting
<1>5. doneSegs' = Listed(Waiting')
  BY <1>1, <1>3, <1>4, Collected
<1>6. doneSegs' = {[gen |-> g, endTotal |-> EndOf(g)'] : g \in Waiting'}
  BY <1>1, <1>2, <1>4, <1>5 DEF Listed, Waiting
<1>7. outGen \notin Waiting
  BY DEF Waiting, LogInv
<1>8. {d.gen : d \in doneSegs \ kept} = {g \in Waiting : ~(EndOf(g) > ackTotal')}
  BY <1>3, Collected
<1>9. disk' = Waiting' \cup {g \in {outGen'} : segBytes' > 0}
  BY <1>1, <1>4, <1>7, <1>8 DEF DiskInv
<1> QED
  BY <1>1, <1>2, <1>6, <1>9 DEF DiskInv

LEMMA DiskStep ==
  ASSUME AllInv, AllInv', DiskInv, [Next]_vars
  PROVE  DiskInv'
<1>0. LogInv /\ LogInv' /\ ReaderTypes /\ ReaderTypes' /\ ackTotal \in Nat /\ ackTotal' \in Nat
  BY DEF AllInv, ReaderTypes
<1>1. CASE AppendOutput \/ AppendControl \/ \E r \in Readers : Grant(r)
  <2>1. PICK n \in Nat \ {0} : AppendFrame(n)
    BY <1>1, SizesAssumption DEF AppendOutput, AppendControl, Grant
  <2> QED
    BY <1>0, <2>1, DiskAppends
<1>2. CASE Publish
  BY <1>0, <1>2, DiskPublishes
<1>3. CASE HostAck
  <2>1. ackTotal' = IF Head(acks[writer]) > ackTotal THEN Head(acks[writer]) ELSE ackTotal
    BY <1>3 DEF HostAck
  <2>2. ackTotal <= ackTotal'
    BY <1>0, <2>1
  <2> QED
    BY <1>0, <1>3, <2>2, DiskAcks
<1>4. CASE UNCHANGED <<hostVars, diskVars>>
  <2>1. UNCHANGED <<outGen, segBytes, outTotal, ackTotal, doneSegs, writing, segStart, disk, sig>>
    BY <1>4 DEF hostVars, diskVars
  <2> QED
    BY <2>1 DEF DiskInv, Waiting, EndOf, StartOf
<1>5. ASSUME NEW r \in Readers, Attach(r) \/ Vanish(r) \/ Read(r) PROVE UNCHANGED <<hostVars, diskVars>>
  BY <1>5 DEF Attach, Vanish, Read, ReadSig, Drain
<1> QED
  BY <1>1, <1>2, <1>3, <1>4, <1>5 DEF Next, vars
\* The files on disk are the finished segments that are not acknowledged and
\* the one being written, at every moment of every takeover: nothing that is not
\* acknowledged is deleted and nothing that is stays (appendFrame, gcSegments).
THEOREM DiskIsTheUnacked == Spec => []DiskInv
<1>1. AllInv /\ [Next]_vars => AllInv'
  BY AllStep
<1>2. AllInv /\ AllInv' /\ DiskInv /\ [Next]_vars => DiskInv'
  BY DiskStep
<1> QED
  BY InitAll, InitDisk, <1>1, <1>2, PTL DEF Spec

\* One client takes the session over from the one that spawned it.
OneHeir == \A r, d \in Readers \ {Spawner} : r = d

\* Until it is granted the heir waits with the spawning client gone, at a head
\* that client had not passed; so nothing is acknowledged that the client in
\* charge has not read.
HeirInv ==
  /\ \A r \in asked : /\ writer = Spawner /\ r # Spawner /\ phase[r] # "off"
                      /\ phase[Spawner] = "off" /\ cum[Spawner] <= cum[r]
  /\ writer # Spawner => phase[writer] # "off"
  /\ ackTotal <= cum[writer]

\* What is not acknowledged fits the window, one frame, the answers of this
\* pause and the one to the heir.
ToHeir == IF writer = Spawner THEN 0 ELSE 1
BacklogInv == \E n \in Sizes : outTotal <= ackTotal + AckWindow + n + control + ToHeir

LEMMA InitHeir == Init => HeirInv
  BY ReadersAssumption DEF Init, HeirInv

LEMMA InitBacklog == Init => BacklogInv
<1> SUFFICES ASSUME Init PROVE BacklogInv
  OBVIOUS
<1>1. writer = Spawner /\ ackTotal = 0 /\ outTotal = 0 /\ control = 0
  BY DEF Init
<1>2. PICK n \in Sizes : n \in Nat
  BY SizesAssumption
<1>3. outTotal <= ackTotal + AckWindow + n + control + ToHeir
  BY <1>1, <1>2, LimitsAssumption DEF ToHeir
<1> QED
  BY <1>2, <1>3 DEF BacklogInv

\* The accounts of the readers only grow.
LEMMA HeirKept ==
  ASSUME AllInv, HeirInv, UNCHANGED <<asked, writer, ackTotal>>,
         \A r \in Readers : /\ phase[r] # "off" /\ r # Spawner => phase'[r] # "off"
                            /\ cum'[r] \in Nat /\ cum[r] <= cum'[r],
         phase[Spawner] = "off" => phase'[Spawner] = "off" /\ cum'[Spawner] = cum[Spawner]
  PROVE  HeirInv'
<1>1. /\ writer \in Readers /\ asked \subseteq Readers /\ Spawner \in Readers /\ ackTotal \in Nat
      /\ \A r \in Readers : cum[r] \in Nat
  BY ReadersAssumption DEF AllInv, ReaderTypes
<1>2. ASSUME NEW r \in asked
      PROVE  /\ writer = Spawner /\ r # Spawner /\ phase'[r] # "off"
             /\ phase'[Spawner] = "off" /\ cum'[Spawner] <= cum'[r]
  <2>1. /\ writer = Spawner /\ r # Spawner /\ phase[r] # "off" /\ r \in Readers
        /\ phase[Spawner] = "off" /\ cum[Spawner] <= cum[r]
    BY <1>1, <1>2 DEF HeirInv
  <2>2. cum'[Spawner] = cum[Spawner] /\ cum[r] <= cum'[r] /\ cum'[r] \in Nat
    BY <2>1
  <2> QED
    BY <1>1, <2>1, <2>2
<1>3. ackTotal <= cum'[writer]
  BY <1>1 DEF HeirInv
<1>4. writer # Spawner => phase'[writer] # "off"
  BY <1>1 DEF HeirInv
<1> QED
  BY <1>2, <1>3, <1>4 DEF HeirInv

LEMMA HeirStep ==
  ASSUME QuietTakeover, OneHeir, AllInv, DiskInv, HeirInv, [Next]_vars
  PROVE  HeirInv'
<1>0. /\ LogInv /\ ReaderTypes /\ Spawner \in Readers /\ writer \in Readers /\ asked \subseteq Readers
      /\ ackTotal \in Nat /\ outTotal \in Nat /\ \A r \in Readers : Kept(r) /\ cum[r] \in Nat
  BY ReadersAssumption DEF AllInv, AccountsInv, LogInv, ReaderTypes
<1>1. CASE AppendOutput \/ AppendControl
  <2>1. UNCHANGED <<phase, cum, asked, writer, ackTotal>>
    BY <1>1 DEF AppendOutput, AppendControl, AppendFrame, readerVars, otherVars
  <2> QED
    BY <2>1 DEF HeirInv
<1>2. ASSUME NEW r \in Readers, Grant(r) PROVE HeirInv'
  <2>1. /\ UNCHANGED <<phase, cum, ackTotal>>
        /\ r \in asked /\ asked' = asked \ {r} /\ writer' = r
    BY <1>2 DEF Grant, AppendFrame, readerVars
  <2>2. /\ writer = Spawner /\ r # Spawner /\ phase[r] # "off" /\ cum[Spawner] <= cum[r]
        /\ ackTotal <= cum[writer]
    BY <2>1 DEF HeirInv
  <2>3. asked' = {}
    <3>1. \A d \in asked : d \in Readers \ {Spawner}
      BY <1>0 DEF HeirInv
    <3> QED
      BY <2>1, <3>1 DEF OneHeir
  <2>4. ackTotal <= cum[r]
    BY <1>0, <2>2
  <2> QED
    BY <2>1, <2>2, <2>3, <2>4 DEF HeirInv
<1>3. CASE Publish
  <2>1. UNCHANGED <<phase, cum, asked, writer, ackTotal>>
    BY <1>3 DEF Publish, readerVars
  <2> QED
    BY <2>1 DEF HeirInv
<1>4. CASE HostAck
  <2>1. /\ UNCHANGED <<phase, cum, asked, writer>> /\ acks[writer] # <<>>
        /\ ackTotal' = IF Head(acks[writer]) > ackTotal THEN Head(acks[writer]) ELSE ackTotal
    BY <1>4 DEF HostAck, otherVars
  <2>2. Head(acks[writer]) \in Nat /\ Head(acks[writer]) <= cum[writer]
    <3>1. acks[writer] \in Seq(Nat)
      BY <1>0 DEF ReaderTypes
    <3>2. 1 \in 1..Len(acks[writer]) /\ Head(acks[writer]) = acks[writer][1] /\ acks[writer][1] \in Nat
      BY <2>1, <3>1
    <3> QED
      BY <1>0, <3>2 DEF Kept
  <2>3. ackTotal' \in Nat /\ ackTotal <= ackTotal' /\ ackTotal' <= cum[writer]
    BY <1>0, <2>1, <2>2 DEF HeirInv
  <2> QED
    BY <2>1, <2>3 DEF HeirInv
<1>5. ASSUME NEW r \in Readers, Attach(r) PROVE HeirInv'
  <2>1. /\ UNCHANGED <<writer, ackTotal, outTotal>> /\ ~writing /\ phase[writer] = "off"
        /\ phase[r] = "off" /\ r # Spawner /\ asked' = asked \cup {r}
        /\ phase' = [phase EXCEPT ![r] = "idle"]
        /\ \E head \in Heads : cum' = [cum EXCEPT ![r] = head.total]
    BY <1>5 DEF Attach, HeadTotal, hostVars
  <2>2. writer = Spawner
    BY <2>1 DEF HeirInv
  <2>3. \A head \in Heads : head.total = outTotal
    BY <2>1 DEF DiskInv, Heads, Beginning
  <2>4. cum[Spawner] <= outTotal
    BY <1>0, PlaceIsNat
  <2>5. /\ cum'[r] = outTotal /\ phase'[r] = "idle"
        /\ \A d \in Readers : d # r => cum'[d] = cum[d] /\ phase'[d] = phase[d]
    BY <1>0, <2>1, <2>3 DEF ReaderTypes
  <2>6. ASSUME NEW d \in asked'
        PROVE  /\ d # Spawner /\ phase'[d] # "off"
               /\ phase'[Spawner] = "off" /\ cum'[Spawner] <= cum'[d]
    <3>1. cum'[Spawner] = cum[Spawner] /\ phase'[Spawner] = "off"
      BY <1>0, <2>1, <2>2, <2>5
    <3>2. CASE d = r
      BY <2>1, <2>4, <2>5, <3>1, <3>2
    <3>3. CASE d # r
      <4>1. d \in asked /\ d \in Readers
        BY <1>0, <2>1, <3>3
      <4>2. d # Spawner /\ phase[d] # "off" /\ cum[Spawner] <= cum[d]
        BY <4>1 DEF HeirInv
      <4> QED
        BY <2>5, <3>1, <3>3, <4>1, <4>2
    <3> QED
      BY <3>2, <3>3
  <2>7. ackTotal <= cum'[Spawner]
    BY <1>0, <2>1, <2>2, <2>5 DEF HeirInv
  <2> QED
    BY <2>1, <2>2, <2>6, <2>7 DEF HeirInv
<1>6. ASSUME NEW r \in Readers, Vanish(r) \/ ReadSig(r) PROVE HeirInv'
  <2>1. /\ UNCHANGED <<asked, writer, ackTotal, outTotal, cum>> /\ phase[r] # "off"
        /\ \/ r = Spawner /\ phase' = [phase EXCEPT ![r] = "off"]
           \/ phase' = [phase EXCEPT ![r] = "drain"]
    BY <1>6 DEF Vanish, ReadSig, hostVars, otherVars
  <2>2. \A d \in Readers : /\ phase[d] # "off" /\ d # Spawner => phase'[d] # "off"
                           /\ cum'[d] \in Nat /\ cum[d] <= cum'[d]
    BY <1>0, <2>1, SMTT(60) DEF ReaderTypes
  <2>3. phase[Spawner] = "off" => phase'[Spawner] = "off" /\ cum'[Spawner] = cum[Spawner]
    BY <1>0, <2>1 DEF ReaderTypes
  <2> QED
    BY <2>1, <2>2, <2>3, HeirKept
<1>7. ASSUME NEW r \in Readers, NEW due \in BOOLEAN, Drain(r, due) PROVE HeirInv'
  <2>1. UNCHANGED <<asked, writer, ackTotal, outTotal>> /\ phase[r] = "drain"
    BY <1>7 DEF Drain, hostVars, otherVars
  <2>2. PICK n \in Nat : cum' = [cum EXCEPT ![r] = @ + n]
    BY <1>0, <1>7, DrainCounts
  <2>3. /\ \A d \in Readers : d # r => phase'[d] = phase[d] /\ cum'[d] = cum[d]
        /\ phase'[r] \in {"drain", "idle"} /\ cum'[r] = cum[r] + n
    BY <1>0, <1>7, <2>2 DEF Drain, ReaderTypes
  <2>4. \A d \in Readers : /\ phase[d] # "off" /\ d # Spawner => phase'[d] # "off"
                           /\ cum'[d] \in Nat /\ cum[d] <= cum'[d]
    BY <1>0, <2>3
  <2>5. phase[Spawner] = "off" => phase'[Spawner] = "off" /\ cum'[Spawner] = cum[Spawner]
    BY <1>0, <2>1, <2>3
  <2> QED
    BY <2>1, <2>4, <2>5, HeirKept
<1>8. CASE UNCHANGED vars
  BY <1>8 DEF vars, hostVars, readerVars, otherVars, HeirInv
<1> QED
  BY <1>1, <1>2, <1>3, <1>4, <1>5, <1>6, <1>7, <1>8 DEF Next, Read

LEMMA BacklogStep ==
  ASSUME Windowed, AllInv, AllInv', PauseMatchesWindow, SpawnInv, SpawnInv', HeirInv, BacklogInv,
         [Next]_vars
  PROVE  BacklogInv'
<1>1. /\ ackTotal \in Nat /\ outTotal \in Nat /\ AckWindow \in Nat /\ Sizes \subseteq Nat \ {0}
      /\ ackTotal' \in Nat /\ outTotal' \in Nat /\ paused \in BOOLEAN
      /\ control \in Nat /\ control' \in Nat /\ (~paused => control = 0) /\ (~paused' => control' = 0)
  BY LimitsAssumption, SizesAssumption DEF AllInv, LogInv, ReaderTypes, SpawnInv, AnswersInv
<1>a. ToHeir \in Nat /\ (ToHeir)' \in Nat
  BY DEF ToHeir
<1>2. PICK n \in Sizes : outTotal <= ackTotal + AckWindow + n + control + ToHeir
  BY DEF BacklogInv
<1>3. ASSUME ~writing, ~paused PROVE outTotal - ackTotal <= AckWindow
  BY <1>3, Zenon DEF PauseMatchesWindow, Windowed
<1>b. ASSUME NEW m \in Sizes, outTotal' - ackTotal' <= AckWindow + m PROVE BacklogInv'
  <2>1. PICK o \in Nat, a \in Nat, c \in Nat, h \in Nat :
          o = outTotal' /\ a = ackTotal' /\ c = control' /\ h = (ToHeir)'
    BY <1>1, <1>a
  <2>2. m \in Nat /\ o - a <= AckWindow + m
    BY <1>1, <1>b, <2>1
  <2>3. o <= a + AckWindow + m + c + h
    BY <1>1, <2>2
  <2> QED
    BY <2>1, <2>3, Zenon DEF BacklogInv
<1>4. CASE AppendOutput \/ AppendControl
  <2>1. PICK m \in Sizes : /\ AppendFrame(m)
                           /\ control' = IF paused /\ AppendControl THEN control + m ELSE control
    <3>1. CASE AppendOutput
      <4>1. ~paused /\ UNCHANGED control
        BY <3>1 DEF AppendOutput, Windowed, otherVars
      <4> QED
        BY <3>1, <4>1 DEF AppendOutput
    <3>2. CASE AppendControl
      BY <3>2 DEF AppendControl
    <3> QED
      BY <1>4, <3>1, <3>2
  <2>2. UNCHANGED <<writer, ackTotal>> /\ outTotal' = outTotal + m /\ ~writing
    BY <1>4, <2>1 DEF AppendOutput, AppendControl, AppendFrame, otherVars
  <2>3. CASE ~paused
    BY <1>1, <1>3, <1>b, <2>1, <2>2, <2>3
  <2>4. CASE paused
    <3>1. control' = control + m /\ (ToHeir)' = ToHeir
      BY <1>4, <2>1, <2>2, <2>4 DEF AppendOutput, Windowed, ToHeir
    <3>2. outTotal' <= ackTotal' + AckWindow + n + control' + (ToHeir)'
      BY <1>1, <1>a, <1>2, <2>1, <2>2, <3>1
    <3> QED
      BY <1>2, <3>2 DEF BacklogInv
  <2> QED
    BY <2>3, <2>4
<1>5. ASSUME NEW r \in Readers, Grant(r) PROVE BacklogInv'
  <2>1. /\ ackTotal' = ackTotal /\ outTotal' = outTotal + 1 /\ r \in asked /\ writer' = r
        /\ control' = control
    BY <1>5 DEF Grant, AppendFrame
  <2>2. writer = Spawner /\ r # Spawner
    BY <2>1 DEF HeirInv
  <2>3. ToHeir = 0 /\ (ToHeir)' = 1
    BY <2>1, <2>2 DEF ToHeir
  <2>4. outTotal' <= ackTotal' + AckWindow + n + control' + (ToHeir)'
    BY <1>1, <1>2, <2>1, <2>3
  <2> QED
    BY <1>2, <2>4 DEF BacklogInv
<1>6. CASE Publish \/ HostAck
  <2>1. /\ UNCHANGED <<writer, outTotal>> /\ (paused' => control' = control)
        /\ paused' = Window(outTotal, ackTotal')
        /\ \/ ackTotal' = ackTotal
           \/ ackTotal' = IF Head(acks[writer]) > ackTotal THEN Head(acks[writer]) ELSE ackTotal
    BY <1>6 DEF Publish, HostAck, SincePaused
  <2>2. ackTotal <= ackTotal'
    BY <1>1, <2>1
  <2>3. CASE ~paused'
    <3>1. outTotal - ackTotal' <= AckWindow
      BY <1>1, <2>1, <2>3, WindowOpens DEF Windowed
    <3>2. outTotal' - ackTotal' <= AckWindow + n
      <4>1. PICK a \in Nat : a = ackTotal'
        BY <1>1
      <4>2. outTotal - a <= AckWindow /\ n \in Nat
        BY <1>1, <1>2, <3>1, <4>1
      <4>3. outTotal - a <= AckWindow + n
        BY <1>1, <4>2
      <4> QED
        BY <2>1, <4>1, <4>3
    <3> QED
      BY <1>2, <1>b, <3>2
  <2>4. CASE paused'
    <3>1. control' = control /\ (ToHeir)' = ToHeir /\ outTotal' = outTotal
      BY <2>1, <2>4 DEF ToHeir
    <3>2. PICK a \in Nat : a = ackTotal'
      BY <1>1
    <3>3. outTotal <= a + AckWindow + n + control + ToHeir
      <4>1. ackTotal <= a /\ n \in Nat
        BY <1>1, <1>2, <2>2, <3>2
      <4> QED
        BY <1>1, <1>a, <1>2, <4>1, StillFits
    <3> QED
      BY <1>2, <3>1, <3>2, <3>3, Zenon DEF BacklogInv
  <2> QED
    BY <2>3, <2>4
<1>7. CASE UNCHANGED <<writer, ackTotal, outTotal, control>>
  BY <1>7 DEF BacklogInv, ToHeir
<1>8. ASSUME NEW r \in Readers, Attach(r) \/ Vanish(r) \/ Read(r)
      PROVE  UNCHANGED <<writer, ackTotal, outTotal, control>>
  BY <1>8 DEF Attach, Vanish, Read, ReadSig, Drain, hostVars, otherVars
<1> QED
  BY <1>4, <1>5, <1>6, <1>7, <1>8 DEF Next, vars, hostVars, otherVars

\* At most the segment before the current one still waits.
LEMMA OneWaits ==
  ASSUME Windowed, AllInv, DiskInv, SpawnInv, BacklogInv
  PROVE  Waiting \subseteq {outGen - 1}
<1>0. LogInv /\ ackTotal \in Nat /\ outTotal \in Nat /\ outGen \in Nat
  BY DEF AllInv, LogInv, ReaderTypes
<1>1. /\ AckWindow \in Nat /\ SegMax \in Nat /\ Sizes \subseteq Nat \ {0} /\ MaxControl \in Nat
      /\ control \in Nat /\ control <= MaxControl /\ ToHeir \in {0, 1}
  BY LimitsAssumption, SizesAssumption, BoundsAssumption DEF SpawnInv, AnswersInv, ToHeir
<1>2. outTotal <= ackTotal + SegMax
  <2>1. PICK n \in Sizes : outTotal <= ackTotal + AckWindow + n + control + ToHeir
    BY DEF BacklogInv
  <2>2. AckWindow + n + MaxControl < SegMax /\ n \in Nat
    BY <1>1, <2>1 DEF Windowed
  <2> QED
    BY <1>0, <1>1, <2>1, <2>2
<1>3. SUFFICES ASSUME NEW g \in 0..(outGen - 1), EndOf(g) > ackTotal, g # outGen - 1
               PROVE  FALSE
  BY DEF Waiting
<1> DEFINE l == outGen - 1
<1>4. g \in 0..outGen /\ l \in 0..(outGen - 1) /\ l \in 0..outGen /\ g < l
  BY <1>0, <1>3
<1>5. EndOf(g) \in Nat /\ EndOf(g) <= StartOf(l) /\ StartOf(l) \in Nat /\ EndOf(l) \in Nat
      /\ EndOf(l) <= outTotal
  <2> HIDE DEF l
  <2> QED
    BY <1>0, <1>4, LogBounds
<1>6. StartOf(l) + SegMax <= EndOf(l)
  <2>1. \A h \in 0..(outGen - 1) : StartOf(h) + SegMax <= EndOf(h)
    BY DEF DiskInv
  <2> HIDE DEF l
  <2> QED
    BY <1>4, <2>1
<1> HIDE DEF l
<1> QED
  BY <1>0, <1>1, <1>2, <1>3, <1>5, <1>6

\* No output is deleted before the client in charge has read it: the first part
\* of SegmentsKept.
ReadBeforeDeleted ==
  \A g \in gen[writer]..outGen :
    g \in disk \/ EndOf(g) <= Place(writer) \/ EndOf(g) = StartOf(g)

LEMMA UnreadIsThere ==
  ASSUME AllInv, DiskInv, HeirInv
  PROVE  ReadBeforeDeleted
<1>1. /\ LogInv /\ writer \in Readers /\ Kept(writer) /\ ReaderTypes
      /\ outGen \in Nat /\ outTotal \in Nat /\ ackTotal \in Nat /\ segBytes \in Nat
  BY DEF AllInv, AccountsInv, LogInv, ReaderTypes
<1>2. ackTotal <= Place(writer) /\ Place(writer) \in Nat
  <2>1. Place(writer) \in Nat /\ cum[writer] \in Nat
    BY <1>1, PlaceIsNat
  <2> QED
    BY <1>1, <2>1 DEF HeirInv, Kept
<1>3. SUFFICES ASSUME NEW g \in gen[writer]..outGen, g \notin disk
               PROVE  EndOf(g) <= Place(writer) \/ EndOf(g) = StartOf(g)
  BY DEF ReadBeforeDeleted
<1>4. g \in 0..outGen
  <2>1. gen[writer] \in Nat
    BY <1>1 DEF ReaderTypes
  <2> QED
    BY <1>1, <1>3, <2>1
<1>5. EndOf(g) \in Nat
  BY <1>1, <1>4, LogBounds
<1>6. CASE g = outGen
  <2>1. ~(segBytes > 0)
    BY <1>3, <1>6 DEF DiskInv
  <2>2. outTotal = StartOf(outGen) + segBytes /\ StartOf(outGen) \in Nat
    BY <1>1 DEF LogInv, StartOf
  <2> QED
    BY <1>1, <1>6, <2>1, <2>2 DEF EndOf
<1>7. CASE g # outGen
  <2>1. g \in 0..(outGen - 1) /\ g \notin Waiting
    BY <1>1, <1>3, <1>4, <1>7 DEF DiskInv
  <2> QED
    BY <1>1, <1>2, <1>5, <2>1 DEF Waiting
<1> QED
  BY <1>6, <1>7

LEMMA TwoOnDisk ==
  ASSUME Windowed, AllInv, DiskInv, SpawnInv, BacklogInv
  PROVE  Cardinality(disk) <= 2
<1>1. disk \subseteq {outGen - 1, outGen}
  BY OneWaits DEF DiskInv
<1>2. IsFiniteSet({outGen - 1, outGen}) /\ Cardinality({outGen - 1, outGen}) = 2
  <2>1. IsFiniteSet({outGen}) /\ Cardinality({outGen}) = 1
    BY FS_Singleton
  <2>2. outGen - 1 \notin {outGen}
    BY DEF AllInv, LogInv
  <2>3. /\ IsFiniteSet({outGen} \cup {outGen - 1})
        /\ Cardinality({outGen} \cup {outGen - 1}) = Cardinality({outGen}) + 1
    BY <2>1, <2>2, FS_AddElement
  <2>4. {outGen} \cup {outGen - 1} = {outGen - 1, outGen}
    OBVIOUS
  <2> QED
    BY <2>1, <2>3, <2>4
<1>3. IsFiniteSet(disk) /\ Cardinality(disk) <= Cardinality({outGen - 1, outGen})
  BY <1>1, <1>2, FS_Subset
<1> QED
  BY <1>2, <1>3, FS_CardinalityType

LEMMA HeirInvariant == ASSUME QuietTakeover, OneHeir PROVE Spec => [](AllInv /\ DiskInv /\ HeirInv)
<1>1. AllInv /\ [Next]_vars => AllInv'
  BY AllStep
<1>2. AllInv /\ AllInv' /\ DiskInv /\ [Next]_vars => DiskInv'
  BY DiskStep
<1>3. AllInv /\ DiskInv /\ HeirInv /\ [Next]_vars => HeirInv'
  BY HeirStep
<1> QED
  BY InitAll, InitDisk, InitHeir, <1>1, <1>2, <1>3, PTL DEF Spec

\* When one client takes over after the other's page has gone, no output is
\* deleted before the client in charge has read it: for kinds and shells, any
\* window and any answers (gcSegments, the "ack" handler, #initAttach,
\* decideAttach).
THEOREM UnreadIsNotDeleted == ASSUME QuietTakeover, OneHeir PROVE Spec => []ReadBeforeDeleted
<1>1. AllInv /\ DiskInv /\ HeirInv => ReadBeforeDeleted
  BY UnreadIsThere
<1> QED
  BY <1>1, HeirInvariant, PTL

\* And if the ack window, one frame and the answers written during one pause fit
\* a segment, a process under flow control never has more than two segments on
\* disk, however much it writes and however many requests it answers.
THEOREM SegmentsAreKept == ASSUME Windowed, OneHeir PROVE Spec => []SegmentsKept
<1>1. Spec => [](AllInv /\ DiskInv /\ HeirInv)
  BY HeirInvariant DEF Windowed
<1>2. AllInv /\ AllInv' /\ PauseMatchesWindow /\ SpawnInv /\ [Next]_vars => SpawnInv'
  BY SpawnStep
<1>3. /\ AllInv /\ AllInv' /\ PauseMatchesWindow /\ SpawnInv /\ SpawnInv' /\ HeirInv /\ BacklogInv
      /\ [Next]_vars
      => BacklogInv'
  BY BacklogStep
<1>4. AllInv /\ DiskInv /\ SpawnInv /\ HeirInv /\ BacklogInv => SegmentsKept
  BY UnreadIsThere, TwoOnDisk DEF SegmentsKept, ReadBeforeDeleted
<1> QED
  BY <1>1, <1>2, <1>3, <1>4, InitSpawn, InitBacklog, PausedByTheWindow, PTL DEF Spec
=============================================================================
