--------------------------- MODULE TakeoverProofs ---------------------------
(***************************************************************************)
(* Attach is takeover, for any number of clients, tries, verdicts in any   *)
(* order, exits and closes, and one restart of the host: every lane has    *)
(* one writer, a superseded writer's input is never acted on again, and if *)
(* tries are granted in the order they were made, nobody is fenced by its  *)
(* own grant.  A second restart is another matter (README, Divergences).   *)
(***************************************************************************)
EXTENDS Takeover, SequenceTheorems, TLAPS

States   == {"none", "running", "exited"}
Answers  == [aid : Aids, epoch : Nat]
Statuses == [state : States, writer : Nat]

\* Types without the bound on the epochs.
TakeTypes ==
  /\ host \in {"adopted", "deciding", "approved", "running", "exited", "done"}
  /\ epoch \in Nat /\ restarts \in Nat
  /\ deciding \in Seq(Aids) /\ requests \subseteq Aids
  /\ status \in Statuses /\ answers \in Seq(Answers)
  /\ st \in [Clients -> {"off", "asking", "waiting", "granted", "writer", "failed"}]
  /\ tries \in [Clients -> 0..MaxTries] /\ heard \in [Clients -> Nat]
  /\ mine \in [Clients -> Nat] /\ seen \in [Clients -> Statuses]
  /\ fenced \in [Clients -> BOOLEAN]
  /\ inFlight \in [Clients -> {"none", "data", "close"}]
  /\ wrote \subseteq Clients \X Nat /\ consumed \in Seq(Nat)

-----------------------------------------------------------------------------
(* Sequences and aids *)

LEMMA AppendFacts ==
  ASSUME NEW S, NEW s \in Seq(S), NEW e \in S
  PROVE  /\ Append(s, e) \in Seq(S) /\ Len(s) \in Nat /\ Len(Append(s, e)) = Len(s) + 1
         /\ \A i \in 1..Len(s) : Append(s, e)[i] = s[i]
         /\ Append(s, e)[Len(s) + 1] = e
         /\ \A i \in 1..Len(Append(s, e)) : i \in 1..Len(s) \/ i = Len(s) + 1
  OBVIOUS

LEMMA WithoutFacts ==
  ASSUME NEW S, NEW s \in Seq(S), NEW i \in 1..Len(s)
  PROVE  /\ Without(s, i) \in Seq(S) /\ Len(Without(s, i)) = Len(s) - 1 /\ Len(s) \in Nat
         /\ \A j \in 1..Len(Without(s, i)) :
              Without(s, i)[j] = s[IF j < i THEN j ELSE j + 1]
<1> DEFINE a == SubSeq(s, 1, i - 1)
           b == SubSeq(s, i + 1, Len(s))
<1>1. a \in Seq(S) /\ Len(a) = i - 1 /\ \A j \in 1..(i - 1) : a[j] = s[j]
  OBVIOUS
<1>2. b \in Seq(S) /\ Len(b) = Len(s) - i /\ \A j \in 1..(Len(s) - i) : b[j] = s[i + j]
  OBVIOUS
<1>3. Without(s, i) = a \o b
  BY DEF Without
<1> HIDE DEF a, b
<1>4. /\ a \o b \in Seq(S) /\ Len(a \o b) = Len(s) - 1
      /\ \A j \in 1..Len(a \o b) : (a \o b)[j] = IF j <= Len(a) THEN a[j] ELSE b[j - Len(a)]
  <2>1. /\ a \o b \in Seq(S) /\ Len(a \o b) = Len(a) + Len(b)
        /\ \A j \in 1..(Len(a) + Len(b)) : (a \o b)[j] = IF j <= Len(a) THEN a[j] ELSE b[j - Len(a)]
    BY <1>1, <1>2, ConcatProperties, Zenon
  <2>2. Len(a) + Len(b) = Len(s) - 1
    BY <1>1, <1>2
  <2> QED
    BY <2>1, <2>2
<1>5. ASSUME NEW j \in 1..Len(a \o b) PROVE (a \o b)[j] = s[IF j < i THEN j ELSE j + 1]
  <2>1. CASE j < i
    BY <1>1, <1>4, <1>5, <2>1
  <2>2. CASE ~(j < i)
    <3>1. j - Len(a) \in 1..(Len(s) - i) /\ i + (j - Len(a)) = j + 1
      BY <1>1, <1>4, <2>2
    <3> QED
      BY <1>1, <1>2, <1>4, <2>2, <3>1
  <2> QED
    BY <2>1, <2>2
<1> QED
  BY <1>3, <1>4, <1>5

LEMMA AidFacts ==
  /\ \A c \in Clients, k \in 1..MaxTries : AidOf(c, k) \in Aids /\ AidOf(c, k)[1] = c /\ AidOf(c, k)[2] = k
  /\ \A a \in Aids : a[1] \in Clients /\ a[2] \in 1..MaxTries /\ a = AidOf(a[1], a[2])
  BY DEF Aids, AidOf

LEMMA InitTypes == Init => TakeTypes
<1> SUFFICES ASSUME Init PROVE TakeTypes
  OBVIOUS
<1>1. <<>> \in Seq(Aids) /\ <<>> \in Seq(Answers) /\ <<>> \in Seq(Nat)
  OBVIOUS
<1>2. 0 \in 0..MaxTries
  BY BoundsAssumption
<1>3. NoStatus \in Statuses
  BY DEF NoStatus, Statuses, States
<1> QED
  BY <1>1, <1>2, <1>3 DEF Init, TakeTypes

\* A request whose verdict is there, and the others.
LEMMA SettlesFacts ==
  ASSUME TakeTypes, NEW i, Settles(i)
  PROVE  /\ i \in 1..Len(deciding) /\ deciding[i] \in Aids /\ deciding # <<>>
         /\ deciding' \in Seq(Aids) /\ Len(deciding') = Len(deciding) - 1 /\ Len(deciding) \in Nat
         /\ \A j \in 1..Len(deciding') : deciding'[j] = deciding[IF j < i THEN j ELSE j + 1]
  BY WithoutFacts DEF Settles, TakeTypes

LEMMA TypesStep == TakeTypes /\ [Next]_vars => TakeTypes'
<1> SUFFICES ASSUME TakeTypes, [Next]_vars PROVE TakeTypes'
  OBVIOUS
<1> USE DEF TakeTypes
<1>1. ASSUME NEW c \in Clients, Ask(c) PROVE TakeTypes'
  <2>1. tries[c] \in 0..MaxTries /\ tries[c] + 1 \in 1..MaxTries
    BY <1>1, BoundsAssumption DEF Ask
  <2>2. requests' \subseteq Aids
    BY <1>1, <2>1, AidFacts DEF Ask
  <2>3. tries' \in [Clients -> 0..MaxTries]
    BY <1>1, <2>1, BoundsAssumption DEF Ask
  <2>4. st' \in [Clients -> {"off", "asking", "waiting", "granted", "writer", "failed"}]
    BY <1>1 DEF Ask
  <2> QED
    BY <1>1, <2>2, <2>3, <2>4 DEF Ask, hostVars, historyVars
<1>2. ASSUME NEW c \in Clients, Hear(c) PROVE TakeTypes'
  <2>1. heard[c] + 1 \in 1..Len(answers) /\ answers[heard[c] + 1] \in Answers
    BY <1>2 DEF Hear
  <2>2. mine' \in [Clients -> Nat]
    BY <1>2, <2>1 DEF Hear, Answers
  <2>3. st' \in [Clients -> {"off", "asking", "waiting", "granted", "writer", "failed"}]
    BY <1>2 DEF Hear
  <2>4. heard' \in [Clients -> Nat]
    BY <1>2 DEF Hear
  <2> QED
    BY <1>2, <2>2, <2>3, <2>4 DEF Hear, dirVars, hostVars, historyVars
<1>3. ASSUME NEW c \in Clients, Complete(c) \/ ReadStatus(c) PROVE TakeTypes'
  <2>1. Supersedes(seen[c], c) \in BOOLEAN /\ Supersedes(status, c) \in BOOLEAN /\ Judges(c) \in BOOLEAN
    BY DEF Supersedes, Judges
  <2>2. fenced' \in [Clients -> BOOLEAN]
    <3>1. \E b \in BOOLEAN : fenced' = [fenced EXCEPT ![c] = b]
      BY <1>3, <2>1 DEF Complete, ReadStatus
    <3> QED
      BY <3>1
  <2>3. CASE Complete(c)
    <3>1. st' \in [Clients -> {"off", "asking", "waiting", "granted", "writer", "failed"}]
      BY <2>3 DEF Complete
    <3>2. UNCHANGED <<tries, heard, mine, seen, inFlight, dirVars, hostVars, historyVars>>
      BY <2>3 DEF Complete
    <3> QED
      BY <2>2, <3>1, <3>2 DEF dirVars, hostVars, historyVars
  <2>4. CASE ReadStatus(c)
    <3>1. seen' \in [Clients -> Statuses]
      BY <2>4 DEF ReadStatus
    <3>2. UNCHANGED <<st, tries, heard, mine, inFlight, dirVars, hostVars, historyVars>>
      BY <2>4 DEF ReadStatus
    <3> QED
      BY <2>2, <3>1, <3>2 DEF dirVars, hostVars, historyVars
  <2> QED
    BY <1>3, <2>3, <2>4
<1>4. ASSUME NEW c \in Clients, NEW what \in {"data", "close"}, Pump(c, what) PROVE TakeTypes'
  BY <1>4 DEF Pump, dirVars, hostVars
<1>5. ASSUME NEW c \in Clients, Land(c) PROVE TakeTypes'
  BY <1>5 DEF Land, hostVars
<1>6. CASE TryStart \/ Approve \/ Start \/ Exit
  BY <1>6, SMTT(60) DEF TryStart, Restored, Approve, Start, Exit, dirVars, clientVars, historyVars, Statuses, States
<1>7. ASSUME NEW aid \in Aids, TakeRequest(aid) PROVE TakeTypes'
  <2>1. [aid |-> aid, epoch |-> 0] \in Answers
    BY DEF Answers
  <2>2. deciding' \in Seq(Aids) /\ answers' \in Seq(Answers)
    <3>1. /\ Append(answers, [aid |-> aid, epoch |-> 0]) \in Seq(Answers)
          /\ Append(deciding, aid) \in Seq(Aids)
      BY <2>1, AppendFacts
    <3> QED
      BY <1>7, <3>1 DEF TakeRequest
  <2> QED
    BY <1>7, <2>2 DEF TakeRequest, clientVars, historyVars
<1>8. ASSUME NEW i, Refuse(i) \/ Grant(i) PROVE TakeTypes'
  <2>1. deciding' \in Seq(Aids) /\ deciding[i] \in Aids
    BY <1>8, SettlesFacts DEF Refuse, Grant
  <2>2. NextEpoch \in Nat
    BY DEF NextEpoch
  <2>3. [aid |-> deciding[i], epoch |-> 0] \in Answers /\ [aid |-> deciding[i], epoch |-> NextEpoch] \in Answers
    BY <2>1, <2>2 DEF Answers
  <2>4. answers' \in Seq(Answers)
    <3>1. /\ Append(answers, [aid |-> deciding[i], epoch |-> 0]) \in Seq(Answers)
          /\ Append(answers, [aid |-> deciding[i], epoch |-> NextEpoch]) \in Seq(Answers)
      BY <2>3, AppendFacts
    <3> QED
      BY <1>8, <3>1 DEF Refuse, Grant
  <2>5. CASE Refuse(i)
    BY <2>1, <2>4, <2>5 DEF Refuse, clientVars, historyVars
  <2>6. CASE Grant(i)
    BY <2>1, <2>2, <2>4, <2>6 DEF Grant, clientVars, historyVars, Statuses
  <2> QED
    BY <1>8, <2>5, <2>6
<1>9. ASSUME NEW e \in Epochs, Consume(e) PROVE TakeTypes'
  <2>1. e \in Nat
    BY <1>9 DEF Consume, ConsumedFrom
  <2>2. consumed' \in Seq(Nat)
    BY <1>9, <2>1, AppendFacts DEF Consume
  <2>3. host' \in {host, "done"} /\ status' \in Statuses
    BY <1>9 DEF Consume, Statuses, States
  <2> QED
    BY <1>9, <2>2, <2>3 DEF Consume, clientVars
<1>10. CASE Restart
  BY <1>10 DEF Restart, dirVars, clientVars
<1>11. CASE UNCHANGED vars
  BY <1>11 DEF vars, hostVars, dirVars, clientVars, historyVars
<1> QED
  BY <1>1, <1>2, <1>3, <1>4, <1>5, <1>6, <1>7, <1>8, <1>9, <1>10, <1>11 DEF Next, Decide

-----------------------------------------------------------------------------
(* Epochs *)

\* The epoch the session is at, or will be once it is started.
Current == IF host = "adopted" THEN status.writer ELSE epoch

EpochsCover ==
  host # "done" =>
    /\ \A i \in 1..Len(answers) : answers[i].epoch <= Current
    /\ \A i \in 1..Len(consumed) : consumed[i] <= Current

GrantsDiffer ==
  \A i, j \in 1..Len(answers) : answers[i].epoch > 0 /\ answers[i].epoch = answers[j].epoch => i = j

\* The record keeps the epoch until the host was restarted and has written a
\* record of its own.
RecordKeeps ==
  /\ restarts <= MaxRestarts
  /\ restarts = 0 /\ host \in {"adopted", "deciding", "approved", "running"} => status.writer = epoch
  /\ restarts = 0 /\ host \in {"adopted", "deciding", "approved"} => epoch = 0
  /\ host \in {"exited", "done"} => status.state = "exited"
  /\ deciding # <<>> => host \in {"running", "exited", "done"}

EpochInv == EpochsCover /\ GrantsDiffer /\ RecordKeeps /\ NoStaleInput

LEMMA InitEpochs == Init => EpochInv
  BY BoundsAssumption
    DEF Init, EpochInv, EpochsCover, GrantsDiffer, RecordKeeps, NoStaleInput, NoStatus

\* Answers and consumed chunks that stay as they are.
LEMMA EpochsStay ==
  ASSUME EpochInv, UNCHANGED <<answers, consumed>>, RecordKeeps',
         host' # "done" => host # "done" /\ Current' = Current
  PROVE  EpochInv'
  BY DEF EpochInv, EpochsCover, GrantsDiffer, NoStaleInput

LEMMA GrantEpochs == ASSUME TakeTypes, EpochInv, NEW i, Grant(i) PROVE EpochInv'
<1>1. /\ host = "running" /\ host' = host /\ epoch \in Nat /\ epoch' = epoch + 1
      /\ status' = [status EXCEPT !.writer = epoch + 1] /\ UNCHANGED <<consumed, restarts>>
      /\ answers' = Append(answers, [aid |-> deciding[i], epoch |-> epoch + 1])
  <2>1. deciding # <<>>
    BY SettlesFacts DEF Grant
  <2> QED
    BY <2>1 DEF Grant, NextEpoch, EpochInv, RecordKeeps, TakeTypes, historyVars
<1>2. status'.writer = epoch + 1
  BY <1>1 DEF TakeTypes, Statuses
<1>3. [aid |-> deciding[i], epoch |-> epoch + 1] \in Answers
  BY <1>1, SettlesFacts DEF Grant, Answers
<1>4. /\ Len(answers) \in Nat /\ Len(answers') = Len(answers) + 1
      /\ \A j \in 1..Len(answers) : answers'[j] = answers[j] /\ answers[j].epoch \in Nat
      /\ answers'[Len(answers) + 1].epoch = epoch + 1
      /\ \A j \in 1..Len(answers') : j \in 1..Len(answers) \/ j = Len(answers) + 1
  <2> DEFINE a == [aid |-> deciding[i], epoch |-> epoch + 1]
  <2>1. a.epoch = epoch + 1 /\ a \in Answers /\ answers' = Append(answers, a) /\ answers \in Seq(Answers)
    BY <1>1, <1>3 DEF TakeTypes
  <2> HIDE DEF a
  <2>2. /\ Len(answers) \in Nat /\ Len(answers') = Len(answers) + 1
        /\ \A j \in 1..Len(answers) : answers'[j] = answers[j]
        /\ answers'[Len(answers) + 1] = a
        /\ \A j \in 1..Len(answers') : j \in 1..Len(answers) \/ j = Len(answers) + 1
    BY <2>1, AppendFacts
  <2>3. \A j \in 1..Len(answers) : answers[j].epoch \in Nat
    <3>1. \A j \in 1..Len(answers) : answers[j] \in Answers
      BY <2>1
    <3>2. \A x \in Answers : x.epoch \in Nat
      BY DEF Answers
    <3> QED
      BY <3>1, <3>2
  <2> QED
    BY <2>1, <2>2, <2>3
<1>5. Current = epoch /\ Current' = epoch + 1
  BY <1>1 DEF Current
<1>6. /\ \A j \in 1..Len(answers) : answers[j].epoch <= epoch
      /\ \A j \in 1..Len(consumed) : consumed[j] <= epoch /\ consumed[j] \in Nat
  BY <1>1, <1>5, SMTT(30) DEF EpochInv, EpochsCover, TakeTypes
<1>7. EpochsCover'
  BY <1>1, <1>4, <1>5, <1>6 DEF EpochsCover
<1>8. GrantsDiffer'
  BY <1>1, <1>4, <1>6 DEF EpochInv, GrantsDiffer
<1>9. RecordKeeps'
  BY <1>1, <1>2 DEF EpochInv, RecordKeeps
<1> QED
  BY <1>1, <1>7, <1>8, <1>9 DEF EpochInv, NoStaleInput

\* A refusal is no grant.
LEMMA RefusedEpochs ==
  ASSUME TakeTypes, EpochInv, UNCHANGED <<host, epoch, status, consumed>>, RecordKeeps',
         NEW aid \in Aids,
         answers' = answers \/ answers' = Append(answers, [aid |-> aid, epoch |-> 0])
  PROVE  EpochInv'
<1>1. Current' = Current /\ Current \in Nat
  BY DEF Current, TakeTypes, Statuses
<1>2. CASE answers' = answers
  BY <1>1, <1>2, EpochsStay
<1>3. CASE answers' = Append(answers, [aid |-> aid, epoch |-> 0])
  <2>1. [aid |-> aid, epoch |-> 0] \in Answers
    BY DEF Answers
  <2>2. /\ Len(answers) \in Nat /\ Len(answers') = Len(answers) + 1
        /\ \A j \in 1..Len(answers) : answers'[j] = answers[j]
        /\ answers'[Len(answers) + 1].epoch = 0
        /\ \A j \in 1..Len(answers') : j \in 1..Len(answers) \/ j = Len(answers) + 1
    BY <1>3, <2>1, AppendFacts DEF TakeTypes
  <2>3. EpochsCover'
    BY <1>1, <2>2 DEF EpochInv, EpochsCover
  <2>4. GrantsDiffer'
    BY <2>2 DEF EpochInv, GrantsDiffer
  <2> QED
    BY <2>3, <2>4 DEF EpochInv, NoStaleInput
<1> QED
  BY <1>2, <1>3

LEMMA ConsumeEpochs == ASSUME TakeTypes, EpochInv, NEW e, Consume(e) PROVE EpochInv'
<1>1. /\ host \in {"approved", "running", "exited"} /\ e = epoch /\ epoch \in Nat
      /\ consumed' = Append(consumed, epoch) /\ UNCHANGED <<answers, epoch, restarts, deciding>>
  BY DEF Consume, ConsumedFrom, TakeTypes
<1>2. \/ host' = "done" /\ status' = [state |-> "exited", writer |-> 0]
      \/ UNCHANGED <<host, status>>
  BY DEF Consume
<1>3. /\ Len(consumed) \in Nat /\ Len(consumed') = Len(consumed) + 1
      /\ \A j \in 1..Len(consumed) : consumed'[j] = consumed[j]
      /\ consumed'[Len(consumed) + 1] = epoch
      /\ \A j \in 1..Len(consumed') : j \in 1..Len(consumed) \/ j = Len(consumed) + 1
  BY <1>1, AppendFacts DEF TakeTypes
<1>4. \A j \in 1..Len(consumed) : consumed[j] <= epoch
  BY <1>1 DEF EpochInv, EpochsCover, Current
<1>5. NoStaleInput'
  <2> SUFFICES ASSUME NEW i \in 1..Len(consumed'), NEW j \in 1..i PROVE consumed'[j] <= consumed'[i]
    BY DEF NoStaleInput
  <2>1. CASE i \in 1..Len(consumed)
    BY <1>3, <2>1 DEF EpochInv, NoStaleInput
  <2>2. CASE i = Len(consumed) + 1
    <3>1. j \in 1..Len(consumed) \/ j = Len(consumed) + 1
      BY <1>3, <2>2
    <3> QED
      BY <1>1, <1>3, <1>4, <2>2, <3>1
  <2> QED
    BY <1>3, <2>1, <2>2
<1>6. RecordKeeps'
  BY <1>1, <1>2 DEF EpochInv, RecordKeeps
<1>7. EpochsCover'
  <2>1. CASE host' = "done"
    BY <2>1 DEF EpochsCover
  <2>2. CASE UNCHANGED <<host, status>>
    <3>1. Current = epoch /\ Current' = epoch
      BY <1>1, <2>2 DEF Current
    <3> QED
      BY <1>1, <1>3, <1>4, <3>1 DEF EpochInv, EpochsCover
  <2> QED
    BY <1>2, <2>1, <2>2
<1> QED
  BY <1>1, <1>5, <1>6, <1>7 DEF EpochInv, GrantsDiffer

LEMMA EpochStep ==
  ASSUME MaxRestarts <= 1, TakeTypes, EpochInv, [Next]_vars
  PROVE  EpochInv'
<1>1. CASE UNCHANGED <<hostVars, status, answers, consumed, restarts>>
  <2>1. UNCHANGED <<host, epoch, deciding, status, answers, consumed, restarts>>
    BY <1>1 DEF hostVars
  <2> QED
    BY <2>1, EpochsStay DEF EpochInv, RecordKeeps, Current
<1>2. ASSUME NEW c \in Clients, Ask(c) \/ Hear(c) \/ Complete(c) \/ ReadStatus(c) \/ Land(c)
      PROVE  EpochInv'
  BY <1>1, <1>2 DEF Ask, Hear, Complete, ReadStatus, Land, dirVars, historyVars
<1>3. ASSUME NEW c \in Clients, NEW what \in {"data", "close"}, Pump(c, what) PROVE EpochInv'
  BY <1>1, <1>3 DEF Pump, dirVars
<1>4. CASE TryStart
  <2>1. /\ host = "adopted" /\ host' = "deciding" /\ epoch' = status.writer
        /\ UNCHANGED <<deciding, status, answers, consumed, restarts>>
    BY <1>4 DEF TryStart, Restored, dirVars, historyVars
  <2> QED
    BY <2>1, EpochsStay DEF EpochInv, RecordKeeps, Current
<1>5. CASE Approve \/ Start
  <2>1. /\ host \in {"deciding", "approved"} /\ host' \in {"approved", "running"}
        /\ UNCHANGED <<epoch, deciding, answers, consumed, restarts>>
        /\ \/ host = "deciding" /\ host' = "approved" /\ status' = status
           \/ host = "approved" /\ host' = "running" /\ status'.writer = 0
    <3>1. CASE Approve
      BY <3>1 DEF Approve, dirVars, historyVars
    <3>2. CASE Start
      BY <3>2 DEF Start, historyVars
    <3> QED
      BY <1>5, <3>1, <3>2
  <2>2. RecordKeeps'
    BY <2>1 DEF EpochInv, RecordKeeps
  <2>3. Current' = Current
    BY <2>1 DEF Current
  <2> QED
    BY <2>1, <2>2, <2>3, EpochsStay
<1>6. CASE Exit
  <2>1. /\ host = "running" /\ host' = "exited" /\ status'.state = "exited"
        /\ UNCHANGED <<epoch, deciding, answers, consumed, restarts>>
    BY <1>6 DEF Exit, historyVars
  <2> QED
    BY <2>1, EpochsStay DEF EpochInv, RecordKeeps, Current
<1>7. ASSUME NEW aid \in Aids, TakeRequest(aid) PROVE EpochInv'
  <2>1. /\ UNCHANGED <<host, epoch, status, consumed, restarts>>
        /\ deciding' = deciding \/ host = "running"
        /\ answers' = answers \/ answers' = Append(answers, [aid |-> aid, epoch |-> 0])
    BY <1>7 DEF TakeRequest, historyVars
  <2>2. RecordKeeps'
    BY <2>1 DEF EpochInv, RecordKeeps
  <2> QED
    BY <2>1, <2>2, RefusedEpochs
<1>8. ASSUME NEW i, Refuse(i) PROVE EpochInv'
  <2>1. /\ UNCHANGED <<host, epoch, status, consumed, restarts>>
        /\ deciding # <<>> /\ deciding[i] \in Aids
        /\ answers' = answers \/ answers' = Append(answers, [aid |-> deciding[i], epoch |-> 0])
    BY <1>8, SettlesFacts DEF Refuse, historyVars
  <2>2. RecordKeeps'
    BY <2>1 DEF EpochInv, RecordKeeps
  <2> QED
    BY <2>1, <2>2, RefusedEpochs
<1>9. ASSUME NEW i, Grant(i) PROVE EpochInv'
  BY <1>9, GrantEpochs
<1>10. ASSUME NEW e, Consume(e) PROVE EpochInv'
  BY <1>10, ConsumeEpochs
<1>11. CASE Restart
  <2>1. /\ restarts < MaxRestarts /\ restarts' = restarts + 1 /\ epoch' = 0 /\ deciding' = <<>>
        /\ host' = IF status.state = "exited" THEN "done" ELSE "adopted"
        /\ UNCHANGED <<status, answers, consumed>>
    BY <1>11 DEF Restart, dirVars
  <2>2. restarts = 0 /\ restarts' = 1 /\ restarts' <= MaxRestarts
    BY <2>1, BoundsAssumption DEF TakeTypes
  <2>3. RecordKeeps'
    BY <2>1, <2>2 DEF EpochInv, RecordKeeps
  <2>4. host' # "done" => host # "done" /\ Current' = Current
    BY <2>1, <2>2 DEF EpochInv, RecordKeeps, Current, TakeTypes
  <2> QED
    BY <2>1, <2>3, <2>4, EpochsStay
<1>12. CASE UNCHANGED vars
  BY <1>1, <1>12 DEF vars, dirVars, historyVars
<1> QED
  BY <1>2, <1>3, <1>4, <1>5, <1>6, <1>7, <1>8, <1>9, <1>10, <1>11, <1>12 DEF Next, Decide

-----------------------------------------------------------------------------
(* Lanes *)

HasGrant(aid, e) == \E i \in 1..Len(answers) : answers[i].aid = aid /\ answers[i].epoch = e

\* Who writes under an epoch was granted it, but for the spawner's first lane.
OwnerInv ==
  /\ st[Spawner] \in {"writer", "failed"} /\ mine[Spawner] = 0
  /\ \A c \in Clients : mine[c] > 0 =>
       st[c] \in {"granted", "writer", "failed"} /\ HasGrant(AidOf(c, tries[c]), mine[c])
  /\ \A c \in Clients : st[c] \in {"granted", "writer"} /\ mine[c] = 0 => c = Spawner
  /\ \A c \in Clients : inFlight[c] # "none" => st[c] = "writer"
  /\ \A x \in wrote : \/ x[2] = 0 /\ x[1] = Spawner
                      \/ x[2] > 0 /\ \E k \in 1..MaxTries : HasGrant(AidOf(x[1], k), x[2])

LEMMA InitOwners == Init => OwnerInv
  BY ClientsAssumption DEF Init, OwnerInv

LEMMA GrantedAids ==
  ASSUME TakeTypes, NEW a, NEW e, HasGrant(a, e)
  PROVE  a \in Aids
<1>1. PICK i \in 1..Len(answers) : answers[i].aid = a
  BY DEF HasGrant
<1>2. answers[i] \in Answers
  BY DEF TakeTypes
<1>3. \A x \in Answers : x.aid \in Aids
  BY DEF Answers
<1> QED
  BY <1>1, <1>2, <1>3

\* At most one answer is given in a step.
LEMMA AnswersAppended ==
  ASSUME TakeTypes, [Next]_vars
  PROVE  answers' = answers \/ \E x \in Answers : answers' = Append(answers, x)
<1>1. ASSUME NEW aid \in Aids, TakeRequest(aid)
      PROVE  answers' = answers \/ \E x \in Answers : answers' = Append(answers, x)
  BY <1>1 DEF TakeRequest, Answers
<1>2. ASSUME NEW i, Refuse(i) \/ Grant(i)
      PROVE  answers' = answers \/ \E x \in Answers : answers' = Append(answers, x)
  <2>1. deciding[i] \in Aids
    BY <1>2, SettlesFacts DEF Refuse, Grant
  <2>2. [aid |-> deciding[i], epoch |-> 0] \in Answers /\ [aid |-> deciding[i], epoch |-> NextEpoch] \in Answers
    BY <2>1 DEF Answers, NextEpoch, TakeTypes
  <2> QED
    BY <1>2, <2>2 DEF Refuse, Grant
<1>3. \/ answers' = answers
      \/ \E aid \in Aids : TakeRequest(aid)
      \/ \E i \in 1..Cardinality(Aids) : Refuse(i) \/ Grant(i)
  BY DEF Next, Ask, Hear, Complete, ReadStatus, Land, Pump, TryStart, Approve, Start, Exit, Decide,
         Consume, Restart, vars, dirVars
<1> QED
  BY <1>1, <1>2, <1>3

\* Answers stay on the stream.
LEMMA AnswersGrow ==
  ASSUME TakeTypes, [Next]_vars
  PROVE  \A a \in Aids, e \in Nat : HasGrant(a, e) => HasGrant(a, e)'
<1>1. ASSUME NEW x \in Answers, answers' = Append(answers, x)
      PROVE  \A a \in Aids, e \in Nat : HasGrant(a, e) => HasGrant(a, e)'
  <2>1. /\ Len(answers) \in Nat /\ Len(answers') = Len(answers) + 1
        /\ \A i \in 1..Len(answers) : answers'[i] = answers[i]
    BY <1>1, AppendFacts DEF TakeTypes
  <2>2. \A i \in 1..Len(answers) : i \in 1..Len(answers')
    BY <2>1
  <2> QED
    BY <2>1, <2>2 DEF HasGrant
<1>2. CASE answers' = answers
  BY <1>2 DEF HasGrant
<1> QED
  BY <1>1, <1>2, AnswersAppended

\* Nothing of the clients changed.
LEMMA OwnersStay ==
  ASSUME TakeTypes, OwnerInv, [Next]_vars, UNCHANGED <<st, mine, tries, inFlight, wrote>>
  PROVE  OwnerInv'
<1>1. \A c \in Clients : AidOf(c, tries[c]) \in Aids \/ mine[c] = 0
  <2>1. ASSUME NEW c \in Clients, mine[c] > 0 PROVE AidOf(c, tries[c]) \in Aids
    BY <2>1, GrantedAids DEF OwnerInv
  <2>2. \A c \in Clients : mine[c] \in Nat
    BY DEF TakeTypes
  <2> QED
    BY <2>1, <2>2
<1>2. ASSUME NEW c \in Clients, mine[c] > 0 PROVE HasGrant(AidOf(c, tries[c]), mine[c])'
  <2>1. HasGrant(AidOf(c, tries[c]), mine[c])
    BY <1>2 DEF OwnerInv
  <2>2. AidOf(c, tries[c]) \in Aids
    BY <2>1, GrantedAids
  <2>3. mine[c] \in Nat
    BY DEF TakeTypes
  <2> QED
    BY <2>1, <2>2, <2>3, AnswersGrow
<1>3. \A x \in wrote : \/ x[2] = 0 /\ x[1] = Spawner
                       \/ x[2] > 0 /\ \E k \in 1..MaxTries : HasGrant(AidOf(x[1], k), x[2])'
  BY AnswersGrow, AidFacts, SMTT(60) DEF OwnerInv, TakeTypes
<1>4. \A c \in Clients : mine[c] > 0 => st[c] \in {"granted", "writer", "failed"}
  BY DEF OwnerInv
<1>5. \A c \in Clients : mine'[c] > 0 =>
        st'[c] \in {"granted", "writer", "failed"} /\ HasGrant(AidOf(c, tries[c]), mine[c])'
  BY <1>2, <1>4
<1>6. \A x \in wrote' : \/ x[2] = 0 /\ x[1] = Spawner
                        \/ x[2] > 0 /\ \E k \in 1..MaxTries : HasGrant(AidOf(x[1], k), x[2])'
  BY <1>3
<1> QED
  BY <1>5, <1>6 DEF OwnerInv

LEMMA OwnerStep ==
  ASSUME TakeTypes, TakeTypes', OwnerInv, [Next]_vars
  PROVE  OwnerInv'
<1> USE ClientsAssumption
<1>1. ASSUME NEW c \in Clients, Ask(c) PROVE OwnerInv'
  <2>1. /\ c # Spawner /\ st[c] \in {"off", "asking"} /\ UNCHANGED <<answers, mine, inFlight, wrote>>
        /\ tries' = [tries EXCEPT ![c] = @ + 1]
        /\ \E s \in {"waiting", "asking", "failed"} : st' = [st EXCEPT ![c] = s]
    BY <1>1 DEF Ask, historyVars
  <2>2. mine[c] = 0 /\ inFlight[c] = "none"
    <3>1. mine[c] \in Nat /\ inFlight[c] = "none" /\ ~(mine[c] > 0)
      BY <2>1 DEF OwnerInv, TakeTypes
    <3> QED
      BY <3>1
  <2>3. \A a, e : HasGrant(a, e)' = HasGrant(a, e)
    BY <2>1 DEF HasGrant
  <2>4. \A d \in Clients : d # c => st'[d] = st[d] /\ tries'[d] = tries[d]
    BY <2>1 DEF TakeTypes
  <2>5. st'[c] \notin {"granted", "writer"}
    BY <2>1 DEF TakeTypes
  <2> QED
    BY <2>1, <2>2, <2>3, <2>4, <2>5 DEF OwnerInv
<1>2. ASSUME NEW c \in Clients, Hear(c) PROVE OwnerInv'
  <2> DEFINE a == answers[heard[c] + 1]
  <2>1. /\ st[c] = "waiting" /\ UNCHANGED <<answers, tries, inFlight, wrote>>
        /\ heard[c] + 1 \in 1..Len(answers) /\ a \in Answers
    BY <1>2, SMTT(60) DEF Hear, dirVars, historyVars, TakeTypes
  <2>2. \/ UNCHANGED mine /\ \E s \in {"waiting", "failed"} : st' = [st EXCEPT ![c] = s]
        \/ /\ a.aid = Awaited(c) /\ a.epoch # 0
           /\ st' = [st EXCEPT ![c] = "granted"] /\ mine' = [mine EXCEPT ![c] = a.epoch]
    BY <1>2, <2>1 DEF Hear, TakeTypes
  <2>3. c # Spawner /\ mine[c] = 0 /\ inFlight[c] = "none"
    <3>1. c # Spawner /\ mine[c] \in Nat /\ inFlight[c] = "none" /\ ~(mine[c] > 0)
      BY <2>1 DEF OwnerInv, TakeTypes
    <3> QED
      BY <3>1
  <2>4. \A x, e : HasGrant(x, e)' = HasGrant(x, e)
    BY <2>1 DEF HasGrant
  <2>5. \A d \in Clients : d # c => st'[d] = st[d] /\ mine'[d] = mine[d]
    BY <2>2 DEF TakeTypes
  <2>6. CASE UNCHANGED mine /\ \E s \in {"waiting", "failed"} : st' = [st EXCEPT ![c] = s]
    <3>1. st'[c] \in {"waiting", "failed"}
      BY <2>6 DEF TakeTypes
    <3> QED
      BY <2>1, <2>3, <2>4, <2>5, <2>6, <3>1 DEF OwnerInv
  <2>7. CASE /\ a.aid = Awaited(c) /\ a.epoch # 0
             /\ st' = [st EXCEPT ![c] = "granted"] /\ mine' = [mine EXCEPT ![c] = a.epoch]
    <3>1. st'[c] = "granted" /\ mine'[c] = a.epoch /\ a.epoch > 0
      BY <2>1, <2>7, SMTT(60) DEF TakeTypes, Answers
    <3>2. HasGrant(AidOf(c, tries[c]), mine'[c])
      BY <2>1, <2>7, <3>1 DEF HasGrant, Awaited
    <3> QED
      BY <2>1, <2>3, <2>4, <2>5, <3>1, <3>2 DEF OwnerInv
  <2> QED
    BY <2>2, <2>6, <2>7
<1>3. ASSUME NEW c \in Clients, Complete(c) PROVE OwnerInv'
  <2>1. /\ st[c] = "granted" /\ st' = [st EXCEPT ![c] = "writer"]
        /\ UNCHANGED <<answers, tries, inFlight, wrote, mine>>
    BY <1>3 DEF Complete, dirVars, historyVars
  <2>2. \A x, e : HasGrant(x, e)' = HasGrant(x, e)
    BY <2>1 DEF HasGrant
  <2>3. st'[c] = "writer" /\ \A d \in Clients : d # c => st'[d] = st[d]
    BY <2>1 DEF TakeTypes
  <2> QED
    BY <2>1, <2>2, <2>3 DEF OwnerInv
<1>4. ASSUME NEW c \in Clients, NEW what \in {"data", "close"}, Pump(c, what) PROVE OwnerInv'
  <2>1. /\ st[c] = "writer" /\ inFlight' = [inFlight EXCEPT ![c] = what]
        /\ UNCHANGED <<answers, tries, st, wrote, mine>>
    BY <1>4 DEF Pump, dirVars
  <2>2. \A x, e : HasGrant(x, e)' = HasGrant(x, e)
    BY <2>1 DEF HasGrant
  <2>3. \A d \in Clients : d # c => inFlight'[d] = inFlight[d]
    BY <2>1 DEF TakeTypes
  <2> QED
    BY <2>1, <2>2, <2>3 DEF OwnerInv
<1>5. ASSUME NEW c \in Clients, Land(c) PROVE OwnerInv'
  <2>1. /\ inFlight[c] # "none" /\ inFlight' = [inFlight EXCEPT ![c] = "none"]
        /\ \E s \in {"failed", st[c]} : st' = [st EXCEPT ![c] = s]
        /\ wrote' = wrote \cup {<<c, mine[c]>>}
        /\ UNCHANGED <<answers, tries, mine>>
    BY <1>5 DEF Land
  <2>2. \A x, e : HasGrant(x, e)' = HasGrant(x, e)
    BY <2>1 DEF HasGrant
  <2>3. st[c] = "writer" /\ mine[c] \in Nat
    BY <2>1 DEF OwnerInv, TakeTypes
  <2>4. /\ inFlight'[c] = "none" /\ st'[c] \in {"failed", st[c]}
        /\ \A d \in Clients : d # c => inFlight'[d] = inFlight[d] /\ st'[d] = st[d]
    BY <2>1 DEF TakeTypes
  <2>5. \/ mine[c] = 0 /\ c = Spawner
        \/ mine[c] > 0 /\ \E k \in 1..MaxTries : HasGrant(AidOf(c, k), mine[c])
    <3>1. CASE mine[c] > 0
      <4>1. HasGrant(AidOf(c, tries[c]), mine[c])
        BY <3>1 DEF OwnerInv
      <4>2. AidOf(c, tries[c]) \in Aids
        BY <4>1, GrantedAids
      <4>3. tries[c] \in 1..MaxTries
        BY <4>2 DEF AidOf, Aids
      <4> QED
        BY <3>1, <4>1, <4>3
    <3>2. CASE mine[c] = 0
      BY <2>3, <3>2 DEF OwnerInv
    <3> QED
      BY <2>3, <3>1, <3>2
  <2>6. \A x \in wrote' : \/ x[2] = 0 /\ x[1] = Spawner
                          \/ x[2] > 0 /\ \E k \in 1..MaxTries : HasGrant(AidOf(x[1], k), x[2])
    BY <2>1, <2>5 DEF OwnerInv
  <2>7. \A d \in Clients : mine[d] > 0 =>
          st'[d] \in {"granted", "writer", "failed"} /\ HasGrant(AidOf(d, tries[d]), mine[d])
    BY <2>3, <2>4 DEF OwnerInv
  <2>8. \A d \in Clients : st'[d] \in {"granted", "writer"} /\ mine[d] = 0 => d = Spawner
    BY <2>3, <2>4 DEF OwnerInv
  <2>9. \A d \in Clients : inFlight'[d] # "none" => st'[d] = "writer"
    BY <2>3, <2>4 DEF OwnerInv
  <2>10. st'[Spawner] \in {"writer", "failed"} /\ mine'[Spawner] = 0
    BY <2>1, <2>3, <2>4 DEF OwnerInv
  <2> QED
    BY <2>1, <2>2, <2>6, <2>7, <2>8, <2>9, <2>10 DEF OwnerInv
<1>6. ASSUME NEW c \in Clients, ReadStatus(c) PROVE OwnerInv'
  BY <1>6, OwnersStay DEF ReadStatus, historyVars
<1>7. CASE TryStart \/ Approve \/ Start \/ Exit \/ Restart
  BY <1>7, OwnersStay DEF TryStart, Approve, Start, Exit, Restart, clientVars, historyVars
<1>8. ASSUME NEW aid, TakeRequest(aid) PROVE OwnerInv'
  BY <1>8, OwnersStay DEF TakeRequest, clientVars, historyVars
<1>9. ASSUME NEW i, Refuse(i) \/ Grant(i) PROVE OwnerInv'
  BY <1>9, OwnersStay DEF Refuse, Grant, clientVars, historyVars
<1>10. ASSUME NEW e, Consume(e) PROVE OwnerInv'
  BY <1>10, OwnersStay DEF Consume, clientVars
<1>11. CASE UNCHANGED vars
  BY <1>11, OwnersStay DEF vars, clientVars, historyVars
<1> QED
  BY <1>1, <1>2, <1>3, <1>4, <1>5, <1>6, <1>7, <1>8, <1>9, <1>10, <1>11 DEF Next, Decide

-----------------------------------------------------------------------------
(* The tries of one client are granted in the order they were made, if the *)
(* policy answers in order, or if a client has no second try: because it   *)
(* makes none, or because a failed commit leaves no file.  Two grants to   *)
(* one client in the wrong order fence it by itself (README, Divergences). *)

TriesInOrder == PolicyInOrder \/ MaxTries = 1 \/ "landed" \notin Outcomes

Tried(a) == a[2] <= tries[a[1]]
Before(a, b) == a[1] = b[1] => a[2] < b[2]

TriedInv ==
  /\ tries[Spawner] = 0
  /\ \A a \in requests : Tried(a)
  /\ \A i \in 1..Len(deciding) : Tried(deciding[i])
  /\ \A n \in 1..Len(answers) : Tried(answers[n].aid)

QueueInv ==
  /\ \A i, j \in 1..Len(deciding) : i < j => Before(deciding[i], deciding[j])
  /\ \A i \in 1..Len(deciding) : \A a \in requests : Before(deciding[i], a)

GrantInv ==
  /\ \A n \in 1..Len(answers) : answers[n].epoch > 0 =>
       /\ \A i \in 1..Len(deciding) : Before(answers[n].aid, deciding[i])
       /\ \A a \in requests : Before(answers[n].aid, a)
  /\ \A n, m \in 1..Len(answers) :
       answers[n].epoch > 0 /\ answers[n].epoch < answers[m].epoch
         => Before(answers[n].aid, answers[m].aid)

OnlyTry(a) == a[2] = tries[a[1]] /\ st[a[1]] \notin {"off", "asking"}

OnlyTries ==
  "landed" \notin Outcomes =>
    /\ \A a \in requests : OnlyTry(a)
    /\ \A i \in 1..Len(deciding) : OnlyTry(deciding[i])

OrderInv == TriedInv /\ QueueInv /\ GrantInv /\ OnlyTries

LEMMA InitOrder == Init => OrderInv
  BY ClientsAssumption DEF Init, OrderInv, TriedInv, QueueInv, GrantInv, OnlyTries

\* What the aids and the epochs of requests and answers are.
LEMMA OrderTypes ==
  ASSUME TakeTypes
  PROVE  /\ Len(deciding) \in Nat /\ Len(answers) \in Nat
         /\ \A i \in 1..Len(deciding) : deciding[i] \in Aids
         /\ \A n \in 1..Len(answers) : answers[n].aid \in Aids /\ answers[n].epoch \in Nat
         /\ \A a \in Aids : a[1] \in Clients /\ a[2] \in Nat /\ a[2] > 0
         /\ \A c \in Clients : tries[c] \in Nat
<1>1. /\ Len(deciding) \in Nat /\ Len(answers) \in Nat
      /\ \A i \in 1..Len(deciding) : deciding[i] \in Aids
      /\ \A n \in 1..Len(answers) : answers[n] \in Answers
  BY DEF TakeTypes
<1>2. \A x \in Answers : x.aid \in Aids /\ x.epoch \in Nat
  BY DEF Answers
<1>3. \A a \in Aids : a[1] \in Clients /\ a[2] \in Nat /\ a[2] > 0
  BY BoundsAssumption DEF Aids
<1>4. \A c \in Clients : tries[c] \in Nat
  BY BoundsAssumption DEF TakeTypes
<1> QED
  BY <1>1, <1>2, <1>3, <1>4

LEMMA OrderStays ==
  ASSUME OrderInv, UNCHANGED <<requests, deciding, answers, tries>>,
         TakeTypes, \A c \in Clients : st'[c] \in {"off", "asking"} => st[c] \in {"off", "asking"}
  PROVE  OrderInv'
<1>1. TriedInv'
  BY DEF OrderInv, TriedInv, Tried
<1>2. QueueInv' /\ GrantInv'
  BY DEF OrderInv, QueueInv, GrantInv, Before
<1>3. \A a \in Aids : OnlyTry(a) => OnlyTry(a)'
  BY OrderTypes DEF OnlyTry
<1>4. OnlyTries'
  BY <1>3, OrderTypes DEF OrderInv, OnlyTries, TakeTypes
<1> QED
  BY <1>1, <1>2, <1>4 DEF OrderInv

\* A new try comes after all earlier ones of its client.
LEMMA AskOrder == ASSUME TakeTypes, OrderInv, NEW c \in Clients, Ask(c) PROVE OrderInv'
<1> USE OrderTypes
<1>0. PICK new : new = AidOf(c, tries[c] + 1)
  OBVIOUS
<1>1. /\ c # Spawner /\ st[c] \in {"off", "asking"} /\ UNCHANGED <<deciding, answers>>
      /\ tries' = [tries EXCEPT ![c] = @ + 1] /\ requests \subseteq Aids
      /\ new[1] = c /\ new[2] = tries[c] + 1 /\ tries[c] \in Nat
  BY <1>0 DEF Ask, hostVars, AidOf, TakeTypes
<1>2. tries'[c] = tries[c] + 1 /\ \A d \in Clients : d # c => tries'[d] = tries[d]
  BY <1>1 DEF TakeTypes
<1>3. requests' \subseteq requests \cup {new}
  BY <1>0 DEF Ask
<1>4. "landed" \notin Outcomes =>
        requests' = requests \/ (requests' = requests \cup {new} /\ st'[c] = "waiting")
  BY <1>0, OutcomesAssumption DEF Ask, TakeTypes
<1>5. \A d \in Clients : d # c => st'[d] = st[d]
  BY DEF Ask, TakeTypes
<1>6. \A a \in Aids : Tried(a) => Tried(a)' /\ Before(a, new)
  BY <1>1, <1>2 DEF Tried, Before
<1>7. TriedInv'
  <2>1. Tried(new)' /\ tries'[Spawner] = 0
    BY <1>1, <1>2, ClientsAssumption DEF Tried, OrderInv, TriedInv
  <2> QED
    BY <1>1, <1>3, <1>6, <2>1 DEF OrderInv, TriedInv
<1>8. QueueInv'
  BY <1>1, <1>3, <1>6 DEF OrderInv, QueueInv, TriedInv
<1>9. GrantInv'
  BY <1>1, <1>3, <1>6 DEF OrderInv, GrantInv, TriedInv
<1>10. OnlyTries'
  <2> SUFFICES ASSUME "landed" \notin Outcomes PROVE OnlyTries'
    BY DEF OnlyTries
  <2>1. \A a \in Aids : OnlyTry(a) => OnlyTry(a)'
    BY <1>1, <1>2, <1>5 DEF OnlyTry
  <2>2. st'[c] = "waiting" => OnlyTry(new)'
    BY <1>1, <1>2 DEF OnlyTry
  <2> QED
    BY <1>1, <1>4, <2>1, <2>2 DEF OrderInv, OnlyTries
<1> QED
  BY <1>7, <1>8, <1>9, <1>10 DEF OrderInv

\* A new answer that grants nothing.
LEMMA RefusedOrder ==
  ASSUME TakeTypes, OrderInv, NEW aid \in Aids, Tried(aid),
         answers' = answers \/ answers' = Append(answers, [aid |-> aid, epoch |-> 0]),
         UNCHANGED <<tries, st>>, requests' \subseteq requests,
         QueueInv', \A i \in 1..Len(deciding') :
           deciding'[i] \in requests \/ \E j \in 1..Len(deciding) : deciding'[i] = deciding[j]
  PROVE  OrderInv'
<1> USE OrderTypes
<1>1. /\ Len(answers') \in Nat
      /\ \A n \in 1..Len(answers') :
           \/ n \in 1..Len(answers) /\ answers'[n] = answers[n]
           \/ answers'[n].aid = aid /\ answers'[n].epoch = 0
  <2>1. CASE answers' = answers
    BY <2>1
  <2>2. CASE answers' = Append(answers, [aid |-> aid, epoch |-> 0])
    <3>1. [aid |-> aid, epoch |-> 0] \in Answers
      BY DEF Answers
    <3> DEFINE x == [aid |-> aid, epoch |-> 0]
    <3>2. x.aid = aid /\ x.epoch = 0 /\ x \in Answers /\ answers' = Append(answers, x)
      BY <2>2, <3>1
    <3> HIDE DEF x
    <3> QED
      BY <3>2, AppendFacts DEF TakeTypes
  <2> QED
    BY <2>1, <2>2
<1>2. \A n \in 1..Len(answers') : answers'[n].epoch > 0 => n \in 1..Len(answers) /\ answers'[n] = answers[n]
  BY <1>1
<1>3. \A n, m \in 1..Len(answers') :
        answers'[n].epoch > 0 /\ answers'[n].epoch < answers'[m].epoch => answers'[m].epoch > 0
  BY <1>1
<1>4. TriedInv'
  BY <1>1 DEF OrderInv, TriedInv, Tried
<1>5. GrantInv'
  <2>1. ASSUME NEW n \in 1..Len(answers'), answers'[n].epoch > 0
        PROVE  /\ \A i \in 1..Len(deciding') : Before(answers'[n].aid, deciding'[i])
               /\ \A a \in requests' : Before(answers'[n].aid, a)
    BY <1>2, <2>1 DEF OrderInv, GrantInv
  <2>2. ASSUME NEW n \in 1..Len(answers'), NEW m \in 1..Len(answers'),
               answers'[n].epoch > 0, answers'[n].epoch < answers'[m].epoch
        PROVE  Before(answers'[n].aid, answers'[m].aid)
    BY <1>2, <1>3, <2>2 DEF OrderInv, GrantInv
  <2> QED
    BY <2>1, <2>2 DEF GrantInv, Before
<1>6. OnlyTries'
  BY DEF OrderInv, OnlyTries, OnlyTry
<1> QED
  BY <1>4, <1>5, <1>6 DEF OrderInv

\* The oldest request of its client is taken first.
LEMMA TakeOrder == ASSUME TakeTypes, OrderInv, NEW aid \in Aids, TakeRequest(aid) PROVE OrderInv'
<1> USE OrderTypes
<1>1. /\ aid \in requests /\ requests' = requests \ {aid} /\ UNCHANGED <<tries, st>>
      /\ \A a \in requests : aid[1] = a[1] => a[2] >= aid[2]
      /\ \/ deciding' = Append(deciding, aid) /\ answers' = answers
         \/ deciding' = deciding /\ answers' = Append(answers, [aid |-> aid, epoch |-> 0])
  BY DEF TakeRequest, clientVars
<1>2. \A a \in requests' : Before(aid, a)
  <2>1. ASSUME NEW a \in requests', aid[1] = a[1] PROVE aid[2] < a[2]
    <3>1. a \in Aids /\ a # aid /\ a[2] >= aid[2]
      BY <1>1, <2>1 DEF TakeTypes
    <3>2. a[2] # aid[2]
      BY <2>1, <3>1, AidFacts
    <3> QED
      BY <3>1, <3>2
  <2> QED
    BY <2>1 DEF Before
<1>3. Tried(aid)
  BY <1>1 DEF OrderInv, TriedInv
<1>4. /\ \A i \in 1..Len(deciding') : \/ i \in 1..Len(deciding) /\ deciding'[i] = deciding[i]
                                      \/ deciding'[i] = aid /\ i = Len(deciding) + 1
      /\ Len(deciding') \in Nat
  <2>1. CASE deciding' = deciding
    BY <2>1
  <2>2. CASE deciding' = Append(deciding, aid)
    BY <2>2, AppendFacts DEF TakeTypes
  <2> QED
    BY <1>1, <2>1, <2>2
<1>5. QueueInv'
  <2>1. ASSUME NEW i \in 1..Len(deciding'), NEW j \in 1..Len(deciding'), i < j
        PROVE  Before(deciding'[i], deciding'[j])
    <3>1. i \in 1..Len(deciding) /\ deciding'[i] = deciding[i]
      BY <1>4, <2>1
    <3> QED
      BY <1>1, <1>4, <2>1, <3>1 DEF OrderInv, QueueInv
  <2>2. ASSUME NEW i \in 1..Len(deciding'), NEW a \in requests'
        PROVE  Before(deciding'[i], a)
    BY <1>1, <1>2, <1>4 DEF OrderInv, QueueInv
  <2> QED
    BY <2>1, <2>2 DEF QueueInv, Before
<1>6. \A i \in 1..Len(deciding') :
        deciding'[i] \in requests \/ \E j \in 1..Len(deciding) : deciding'[i] = deciding[j]
  BY <1>1, <1>4
<1>7. requests' \subseteq requests /\ (answers' = answers \/ answers' = Append(answers, [aid |-> aid, epoch |-> 0]))
  BY <1>1
<1> QED
  BY <1>1, <1>3, <1>5, <1>6, <1>7, RefusedOrder

\* The requests that are left when the policy settles on one.
LEMMA SettlesOrder ==
  ASSUME TakeTypes, OrderInv, NEW i, Settles(i), UNCHANGED requests
  PROVE  /\ QueueInv'
         /\ \A j \in 1..Len(deciding') : \E l \in 1..Len(deciding) :
              /\ deciding'[j] = deciding[l] /\ l # i
              /\ l < i => ~PolicyInOrder
<1>1. /\ i \in 1..Len(deciding) /\ Len(deciding) \in Nat /\ Len(deciding') = Len(deciding) - 1
      /\ \A j \in 1..Len(deciding') : deciding'[j] = deciding[IF j < i THEN j ELSE j + 1]
  BY SettlesFacts
<1>2. PolicyInOrder => i = 1
  BY DEF Settles
<1> DEFINE at(j) == IF j < i THEN j ELSE j + 1
<1>3. \A j \in 1..Len(deciding') : /\ at(j) \in 1..Len(deciding) /\ at(j) # i
                                   /\ deciding'[j] = deciding[at(j)]
                                   /\ at(j) < i => ~PolicyInOrder
  BY <1>1, <1>2
<1>4. \A j, l \in 1..Len(deciding') : j < l => at(j) < at(l)
  BY <1>1
<1> HIDE DEF at
<1>5. /\ \A k, l \in 1..Len(deciding) : k < l => Before(deciding[k], deciding[l])
      /\ \A k \in 1..Len(deciding) : \A a \in requests : Before(deciding[k], a)
  BY DEF OrderInv, QueueInv
<1>6. \A j, l \in 1..Len(deciding') : j < l => Before(deciding'[j], deciding'[l])
  <2>1. SUFFICES ASSUME NEW j \in 1..Len(deciding'), NEW l \in 1..Len(deciding'), j < l
                 PROVE  Before(deciding'[j], deciding'[l])
    OBVIOUS
  <2>2. Before(deciding[at(j)], deciding[at(l)])
    BY <1>3, <1>4, <1>5, <2>1
  <2> QED
    BY <1>3, <2>2
<1>7. \A j \in 1..Len(deciding') : \A a \in requests : Before(deciding'[j], a)
  BY <1>3, <1>5
<1>8. QueueInv'
  BY <1>6, <1>7 DEF QueueInv, Before
<1> QED
  BY <1>3, <1>8

LEMMA RefuseOrder == ASSUME TakeTypes, OrderInv, NEW i, Refuse(i) PROVE OrderInv'
<1>1. /\ i \in 1..Len(deciding) /\ deciding[i] \in Aids /\ Tried(deciding[i])
      /\ UNCHANGED <<tries, st, requests>>
      /\ answers' = answers \/ answers' = Append(answers, [aid |-> deciding[i], epoch |-> 0])
  BY SettlesFacts DEF Refuse, clientVars, OrderInv, TriedInv
<1>2. /\ QueueInv'
      /\ \A j \in 1..Len(deciding') :
           deciding'[j] \in requests \/ \E l \in 1..Len(deciding) : deciding'[j] = deciding[l]
  BY <1>1, SettlesOrder DEF Refuse
<1>3. requests' \subseteq requests
  BY <1>1
<1> QED
  BY <1>1, <1>2, <1>3, RefusedOrder

\* A grant comes after those of its client's earlier tries and before those
\* of its later ones.
LEMMA GrantOrder ==
  ASSUME TriesInOrder, TakeTypes, EpochInv, OrderInv, NEW i, Grant(i)
  PROVE  OrderInv'
<1> USE OrderTypes
<1> DEFINE aid == deciding[i]
           x   == [aid |-> aid, epoch |-> epoch + 1]
<1>1. /\ i \in 1..Len(deciding) /\ aid \in Aids /\ Tried(aid)
      /\ UNCHANGED <<tries, st, requests>> /\ answers' = Append(answers, x) /\ epoch \in Nat
  BY SettlesFacts DEF Grant, NextEpoch, clientVars, OrderInv, TriedInv, TakeTypes
<1>2. /\ QueueInv'
      /\ \A j \in 1..Len(deciding') : \E l \in 1..Len(deciding) :
           /\ deciding'[j] = deciding[l] /\ l # i
           /\ l < i => ~PolicyInOrder
  BY <1>1, SettlesOrder DEF Grant
<1>3. /\ Len(answers') \in Nat
      /\ \A n \in 1..Len(answers') :
           \/ n \in 1..Len(answers) /\ answers'[n] = answers[n]
           \/ answers'[n].aid = aid /\ answers'[n].epoch = epoch + 1
  <2>1. x \in Answers /\ x.aid = aid /\ x.epoch = epoch + 1
    BY <1>1 DEF Answers
  <2> HIDE DEF x
  <2> QED
    BY <1>1, <2>1, AppendFacts DEF TakeTypes
<1>4. \A n \in 1..Len(answers) : answers[n].epoch <= epoch
  <2>1. host = "running" /\ Current = epoch
    BY <1>1 DEF Grant, EpochInv, RecordKeeps, Current, TakeTypes
  <2> QED
    BY <2>1 DEF EpochInv, EpochsCover
<1>5. ASSUME NEW l \in 1..Len(deciding), l # i, l < i => ~PolicyInOrder
      PROVE  Before(aid, deciding[l])
  <2>1. CASE l > i
    BY <1>1, <2>1 DEF OrderInv, QueueInv
  <2>2. CASE l < i
    <3>1. Before(deciding[l], aid)
      BY <1>1, <2>2 DEF OrderInv, QueueInv
    <3>2. ASSUME aid[1] = deciding[l][1] PROVE aid[2] = deciding[l][2]
      <4>1. CASE MaxTries = 1
        BY <1>1, <4>1, AidFacts
      <4>2. CASE "landed" \notin Outcomes
        BY <1>1, <3>2, <4>2 DEF OrderInv, OnlyTries, OnlyTry
      <4> QED
        BY <1>5, <2>2, <4>1, <4>2 DEF TriesInOrder
    <3> QED
      BY <1>1, <3>1, <3>2 DEF Before
  <2> QED
    BY <1>1, <1>5, <2>1, <2>2
<1>6. \A j \in 1..Len(deciding') : Before(aid, deciding'[j])
  BY <1>2, <1>5
<1>7. \A a \in requests : Before(aid, a)
  BY <1>1 DEF OrderInv, QueueInv
<1>8. \A n \in 1..Len(answers) : answers[n].epoch > 0 =>
        /\ Before(answers[n].aid, aid)
        /\ \A j \in 1..Len(deciding') : Before(answers[n].aid, deciding'[j])
        /\ \A a \in requests : Before(answers[n].aid, a)
  BY <1>1, <1>2 DEF OrderInv, GrantInv
<1> HIDE DEF aid, x
<1>9. TriedInv'
  <2>1. \A j \in 1..Len(deciding') : Tried(deciding'[j])
    BY <1>2 DEF OrderInv, TriedInv
  <2> QED
    BY <1>1, <1>3, <2>1 DEF OrderInv, TriedInv, Tried
<1>10. GrantInv'
  <2>1. ASSUME NEW n \in 1..Len(answers'), answers'[n].epoch > 0
        PROVE  /\ \A j \in 1..Len(deciding') : Before(answers'[n].aid, deciding'[j])
               /\ \A a \in requests' : Before(answers'[n].aid, a)
    BY <1>1, <1>3, <1>6, <1>7, <1>8, <2>1
  <2>2. ASSUME NEW n \in 1..Len(answers'), NEW m \in 1..Len(answers'),
               answers'[n].epoch > 0, answers'[n].epoch < answers'[m].epoch
        PROVE  Before(answers'[n].aid, answers'[m].aid)
    <3>1. n \in 1..Len(answers) /\ answers'[n] = answers[n]
      <4>1. answers'[m].epoch <= epoch + 1 /\ answers'[m].epoch \in Nat /\ answers'[n].epoch \in Nat
        BY <1>1, <1>3, <1>4, SMTT(60)
      <4> QED
        BY <1>1, <1>3, <2>2, <4>1
    <3>2. CASE m \in 1..Len(answers) /\ answers'[m] = answers[m]
      BY <2>2, <3>1, <3>2 DEF OrderInv, GrantInv
    <3>3. CASE answers'[m].aid = aid
      BY <1>8, <2>2, <3>1, <3>3
    <3> QED
      BY <1>3, <3>2, <3>3
  <2> QED
    BY <2>1, <2>2 DEF GrantInv, Before
<1>11. OnlyTries'
  BY <1>1, <1>2 DEF OrderInv, OnlyTries, OnlyTry
<1> QED
  BY <1>2, <1>9, <1>10, <1>11 DEF OrderInv

LEMMA OrderStep ==
  ASSUME TriesInOrder, TakeTypes, EpochInv, OrderInv, [Next]_vars
  PROVE  OrderInv'
<1>1. ASSUME NEW c \in Clients, Ask(c) PROVE OrderInv'
  BY <1>1, AskOrder
<1>2. ASSUME NEW c \in Clients, Hear(c) \/ Complete(c) \/ Land(c) PROVE OrderInv'
  <2>1. UNCHANGED <<requests, deciding, answers, tries>>
    BY <1>2 DEF Hear, Complete, Land, dirVars, hostVars
  <2>2. \A d \in Clients : st'[d] \in {"off", "asking"} => st[d] \in {"off", "asking"}
    BY <1>2 DEF Hear, Complete, Land, TakeTypes
  <2> QED
    BY <2>1, <2>2, OrderStays
<1>3. ASSUME NEW c \in Clients, ReadStatus(c) \/ \E what \in {"data", "close"} : Pump(c, what)
      PROVE  OrderInv'
  BY <1>3, OrderStays DEF ReadStatus, Pump, dirVars, hostVars
<1>4. CASE TryStart \/ Approve \/ Start \/ Exit
  BY <1>4, OrderStays DEF TryStart, Approve, Start, Exit, dirVars, clientVars
<1>5. ASSUME NEW e, Consume(e) PROVE OrderInv'
  BY <1>5, OrderStays DEF Consume, clientVars
<1>6. ASSUME NEW aid \in Aids, TakeRequest(aid) PROVE OrderInv'
  BY <1>6, TakeOrder
<1>7. ASSUME NEW i, Grant(i) \/ Refuse(i) PROVE OrderInv'
  BY <1>7, GrantOrder, RefuseOrder
<1>8. CASE Restart
  <2>1. deciding' = <<>> /\ Len(deciding') = 0 /\ UNCHANGED <<requests, answers, tries, st>>
    BY <1>8 DEF Restart, dirVars, clientVars
  <2> QED
    BY <2>1 DEF OrderInv, TriedInv, QueueInv, GrantInv, OnlyTries, Tried, Before, OnlyTry
<1>9. CASE UNCHANGED vars
  BY <1>9, OrderStays DEF vars, hostVars, dirVars, clientVars
<1> QED
  BY <1>1, <1>2, <1>3, <1>4, <1>5, <1>6, <1>7, <1>8, <1>9 DEF Next, Decide

-----------------------------------------------------------------------------
(* The fence.  A record that names a writer was written by a grant.        *)

GrantedEpochs == {e \in Nat : e > 0 => \E a \in Aids : HasGrant(a, e)}

RecordInv ==
  /\ status.writer \in GrantedEpochs
  /\ \A c \in Clients : seen[c].writer \in GrantedEpochs

FenceInv ==
  /\ RecordInv /\ FencedByAnother
  /\ \A c \in Clients : fenced[c] => st[c] \in {"writer", "failed"}

LEMMA InitFence == Init => FenceInv
  BY DEF Init, FenceInv, RecordInv, GrantedEpochs, NoStatus, FencedByAnother

LEMMA EpochsGrow == ASSUME TakeTypes, [Next]_vars PROVE GrantedEpochs \subseteq GrantedEpochs'
  BY AnswersGrow DEF GrantedEpochs

LEMMA GrantedNow ==
  ASSUME TakeTypes, NEW i, Grant(i)
  PROVE  NextEpoch \in GrantedEpochs'
<1>1. PICK d, e, x : d = deciding[i] /\ e = NextEpoch /\ x = [aid |-> d, epoch |-> e]
  OBVIOUS
<1>2. d \in Aids /\ e \in Nat /\ answers' = Append(answers, x)
  BY <1>1, SettlesFacts, SMTT(60) DEF Grant, NextEpoch, TakeTypes
<1>3. x \in Answers /\ x.aid = d /\ x.epoch = e
  BY <1>1, <1>2 DEF Answers
<1>4. answers'[Len(answers) + 1] = x /\ Len(answers) + 1 \in 1..Len(answers')
  BY <1>2, <1>3, AppendFacts DEF TakeTypes
<1>5. \E n \in 1..Len(answers') : answers'[n].aid = d /\ answers'[n].epoch = e
  BY <1>3, <1>4
<1> QED
  BY <1>1, <1>2, <1>5 DEF GrantedEpochs, HasGrant

LEMMA RecordStep == ASSUME TakeTypes, RecordInv, [Next]_vars PROVE RecordInv'
<1>1. GrantedEpochs \subseteq GrantedEpochs' /\ 0 \in GrantedEpochs'
  BY EpochsGrow DEF GrantedEpochs
<1> DEFINE Kept  == status'.writer \in {0, status.writer}
           Seen0 == \A c \in Clients : seen'[c] \in {seen[c], status}
<1>2. CASE Kept /\ Seen0
  BY <1>1, <1>2 DEF RecordInv
<1>3. ASSUME NEW c \in Clients, ReadStatus(c) PROVE Kept /\ Seen0
  BY <1>3 DEF ReadStatus, dirVars, TakeTypes
<1>4. ASSUME NEW c \in Clients, Ask(c) \/ Hear(c) \/ Complete(c) \/ Land(c)
      PROVE  Kept /\ Seen0
  BY <1>4 DEF Ask, Hear, Complete, Land, dirVars
<1>5. ASSUME NEW c \in Clients, NEW what, Pump(c, what) PROVE Kept /\ Seen0
  BY <1>5 DEF Pump, dirVars
<1>6. CASE TryStart \/ Approve \/ Start \/ Exit \/ Restart
  <2>1. UNCHANGED status \/ status'.writer = 0
    BY <1>6 DEF TryStart, Approve, Start, Exit, Restart, dirVars
  <2>2. UNCHANGED seen
    BY <1>6 DEF TryStart, Approve, Start, Exit, Restart, clientVars
  <2> QED
    BY <1>2, <2>1, <2>2
<1>7. ASSUME NEW aid, TakeRequest(aid) PROVE Kept /\ Seen0
  BY <1>7 DEF TakeRequest, clientVars
<1>8. ASSUME NEW i, Refuse(i) PROVE Kept /\ Seen0
  BY <1>8 DEF Refuse, clientVars
<1>9. ASSUME NEW e, Consume(e) PROVE Kept /\ Seen0
  <2>1. UNCHANGED status \/ status'.writer = 0
    BY <1>9 DEF Consume
  <2> QED
    BY <1>9, <2>1 DEF Consume, clientVars
<1>10. ASSUME NEW i, Grant(i) PROVE RecordInv'
  <2>1. UNCHANGED seen /\ status'.writer = NextEpoch
    BY <1>10 DEF Grant, clientVars, TakeTypes, Statuses
  <2> QED
    BY <1>1, <1>10, <2>1, GrantedNow DEF RecordInv
<1>11. CASE UNCHANGED vars
  BY <1>2, <1>11 DEF vars, dirVars, clientVars
<1> HIDE DEF Kept, Seen0
<1> QED
  BY <1>2, <1>3, <1>4, <1>5, <1>6, <1>7, <1>8, <1>9, <1>10, <1>11 DEF Next, Decide

FencedBy(c) == \E g \in Granted : g.epoch > mine[c] /\ g.aid[1] # c

\* A record that supersedes a writer was written by a grant to another.
LEMMA SupersededByAnother ==
  ASSUME TakeTypes, EpochInv, OwnerInv, OrderInv, NEW c \in Clients, st[c] \in {"granted", "writer"},
         NEW e \in GrantedEpochs, e > mine[c]
  PROVE  FencedBy(c)
<1> USE OrderTypes
<1>1. e \in Nat /\ mine[c] \in Nat /\ e > 0
  BY DEF TakeTypes, GrantedEpochs
<1>2. PICK n \in 1..Len(answers) : answers[n].epoch = e
  BY <1>1 DEF GrantedEpochs, HasGrant
<1>3. answers[n].aid[1] # c
  <2> SUFFICES ASSUME answers[n].aid[1] = c PROVE FALSE
    OBVIOUS
  <2>1. answers[n].aid \in Aids /\ answers[n].aid[2] <= tries[c] /\ answers[n].aid[2] > 0
    BY DEF OrderInv, TriedInv, Tried
  <2>2. CASE mine[c] = 0
    <3>1. tries[c] = 0
      BY <2>2 DEF OwnerInv, OrderInv, TriedInv
    <3> QED
      BY <2>1, <3>1
  <2>3. CASE mine[c] > 0
    <3>1. PICK m \in 1..Len(answers) : answers[m].aid = AidOf(c, tries[c]) /\ answers[m].epoch = mine[c]
      BY <2>3 DEF OwnerInv, HasGrant
    <3>2. Before(answers[m].aid, answers[n].aid)
      BY <1>2, <2>3, <3>1 DEF OrderInv, GrantInv
    <3>3. answers[m].aid[1] = c /\ answers[m].aid[2] = tries[c]
      BY <3>1 DEF AidOf
    <3> QED
      BY <2>1, <3>2, <3>3 DEF Before
  <2> QED
    BY <1>1, <2>2, <2>3
<1>4. answers[n] \in Granted
  BY <1>1, <1>2 DEF Granted
<1> QED
  BY <1>2, <1>3, <1>4 DEF FencedBy

LEMMA GrantedGrows == ASSUME TakeTypes, [Next]_vars PROVE Granted \subseteq Granted'
<1>1. ASSUME NEW x \in Answers, answers' = Append(answers, x) PROVE Granted \subseteq Granted'
  <2>1. /\ Len(answers) \in Nat /\ Len(answers') = Len(answers) + 1
        /\ \A i \in 1..Len(answers) : answers'[i] = answers[i]
    BY <1>1, AppendFacts DEF TakeTypes
  <2>2. \A i \in 1..Len(answers) : i \in 1..Len(answers')
    BY <2>1
  <2> QED
    BY <2>1, <2>2 DEF Granted
<1>2. CASE answers' = answers
  BY <1>2 DEF Granted
<1> QED
  BY <1>1, <1>2, AnswersAppended

LEMMA FenceStep ==
  ASSUME TakeTypes, TakeTypes', EpochInv, OwnerInv, OrderInv, FenceInv, [Next]_vars
  PROVE  FenceInv'
<1>1. RecordInv'
  BY RecordStep DEF FenceInv
<1>2. SUFFICES ASSUME NEW c \in Clients, fenced'[c]
               PROVE  FencedBy(c)' /\ st'[c] \in {"writer", "failed"}
  BY <1>1 DEF FenceInv, FencedByAnother, FencedBy
<1>3. Granted \subseteq Granted'
  BY GrantedGrows
<1>4. ASSUME FencedBy(c), mine'[c] = mine[c] PROVE FencedBy(c)'
  BY <1>3, <1>4 DEF FencedBy
<1>5. CASE fenced[c] /\ st'[c] \in {st[c], "failed"} /\ mine'[c] = mine[c]
  BY <1>4, <1>5 DEF FenceInv, FencedByAnother, FencedBy
<1>6. ASSUME st[c] \in {"granted", "writer"}, st'[c] = "writer", mine'[c] = mine[c],
             NEW e \in GrantedEpochs, e > mine[c]
      PROVE  FencedBy(c)' /\ st'[c] \in {"writer", "failed"}
  BY <1>4, <1>6, SupersededByAnother
<1>7. CASE UNCHANGED <<st, mine, fenced>>
  BY <1>2, <1>5, <1>7
<1>8. ASSUME NEW d \in Clients, Ask(d) PROVE fenced[c] /\ st'[c] \in {st[c], "failed"} /\ mine'[c] = mine[c]
  BY <1>2, <1>8 DEF Ask, FenceInv, TakeTypes
<1>9. ASSUME NEW d \in Clients, Hear(d) PROVE fenced[c] /\ st'[c] \in {st[c], "failed"} /\ mine'[c] = mine[c]
  BY <1>2, <1>9, ZenonT(60) DEF Hear, FenceInv, TakeTypes
<1>10. ASSUME NEW d \in Clients, Land(d) PROVE fenced[c] /\ st'[c] \in {st[c], "failed"} /\ mine'[c] = mine[c]
  BY <1>2, <1>10 DEF Land, TakeTypes
<1>11. ASSUME NEW d \in Clients, Complete(d) PROVE FencedBy(c)' /\ st'[c] \in {"writer", "failed"}
  <2>1. CASE d # c
    BY <1>2, <1>5, <1>11, <2>1 DEF Complete, TakeTypes
  <2>2. CASE d = c
    <3>1. /\ st[c] = "granted" /\ st'[c] = "writer" /\ mine'[c] = mine[c]
          /\ seen[c].writer > mine[c] /\ seen[c].writer \in GrantedEpochs
      BY <1>2, <1>11, <2>2, ZenonT(60) DEF Complete, TakeTypes, Supersedes, FenceInv, RecordInv
    <3> QED
      BY <1>6, <3>1
  <2> QED
    BY <2>1, <2>2
<1>12. ASSUME NEW d \in Clients, ReadStatus(d) PROVE FencedBy(c)' /\ st'[c] \in {"writer", "failed"}
  <2>1. CASE d # c \/ fenced[c]
    BY <1>2, <1>5, <1>12, <2>1 DEF ReadStatus, TakeTypes
  <2>2. CASE d = c /\ ~fenced[c]
    <3>1. /\ st[c] = "writer" /\ st'[c] = "writer" /\ mine'[c] = mine[c]
          /\ status.writer > mine[c] /\ status.writer \in GrantedEpochs
      BY <1>2, <1>12, <2>2 DEF ReadStatus, Judges, TakeTypes, Supersedes, FenceInv, RecordInv
    <3> QED
      BY <1>6, <3>1
  <2> QED
    BY <2>1, <2>2
<1>13. ASSUME NEW d \in Clients, NEW what, Pump(d, what) PROVE UNCHANGED <<st, mine, fenced>>
  BY <1>13 DEF Pump
<1>14. CASE TryStart \/ Approve \/ Start \/ Exit \/ Restart
  BY <1>7, <1>14 DEF TryStart, Approve, Start, Exit, Restart, clientVars
<1>15. ASSUME NEW aid, TakeRequest(aid) PROVE UNCHANGED <<st, mine, fenced>>
  BY <1>15 DEF TakeRequest, clientVars
<1>16. ASSUME NEW i, Grant(i) \/ Refuse(i) PROVE UNCHANGED <<st, mine, fenced>>
  BY <1>16 DEF Grant, Refuse, clientVars
<1>17. ASSUME NEW e, Consume(e) PROVE UNCHANGED <<st, mine, fenced>>
  BY <1>17 DEF Consume, clientVars
<1>18. CASE UNCHANGED vars
  BY <1>7, <1>18 DEF vars, clientVars
<1> QED
  BY <1>5, <1>7, <1>8, <1>9, <1>10, <1>11, <1>12, <1>13, <1>14, <1>15, <1>16, <1>17, <1>18
  DEF Next, Decide

-----------------------------------------------------------------------------
(* The theorems *)

TakeInv == TakeTypes /\ EpochInv /\ OwnerInv

LEMMA TakeoverInvariant == ASSUME MaxRestarts <= 1 PROVE Spec => []TakeInv
<1>1. Init => TakeInv
  BY InitTypes, InitEpochs, InitOwners DEF TakeInv
<1>2. TakeInv /\ [Next]_vars => TakeInv'
  BY TypesStep, EpochStep, OwnerStep DEF TakeInv
<1> QED
  BY <1>1, <1>2, PTL DEF Spec

LEMMA OwnedBy == TakeInv => LanesAreOwned
<1> SUFFICES ASSUME TakeInv, NEW x \in wrote, NEW y \in wrote, x[2] = y[2] PROVE x[1] = y[1]
  BY DEF LanesAreOwned, TakeInv, EpochInv, GrantsDiffer
<1>1. x[1] \in Clients /\ y[1] \in Clients /\ x[2] \in Nat
  BY DEF TakeInv, TakeTypes
<1>2. CASE x[2] = 0
  <2>1. ~(x[2] > 0) /\ ~(y[2] > 0)
    BY <1>2
  <2>2. x[1] = Spawner /\ y[1] = Spawner
    BY <2>1 DEF TakeInv, OwnerInv
  <2> QED
    BY <2>2
<1>3. CASE x[2] > 0
  <2>1. PICK k \in 1..MaxTries : HasGrant(AidOf(x[1], k), x[2])
    BY <1>3 DEF TakeInv, OwnerInv
  <2>2. PICK l \in 1..MaxTries : HasGrant(AidOf(y[1], l), x[2])
    BY <1>3 DEF TakeInv, OwnerInv
  <2>3. AidOf(x[1], k) = AidOf(y[1], l)
    BY <1>3, <2>1, <2>2 DEF HasGrant, TakeInv, EpochInv, GrantsDiffer
  <2> QED
    BY <2>3 DEF AidOf
<1> QED
  BY <1>1, <1>2, <1>3

\* No two clients ever commit to the same lane, and no epoch is granted
\* twice, whoever asks, retries, is answered late or writes on while another
\* one is granted, and though the host is restarted once
\* (decideAttach's grant, #completeAttach).
THEOREM LanesStayOwned == ASSUME MaxRestarts <= 1 PROVE Spec => []LanesAreOwned
<1>1. Spec => []TakeInv
  BY TakeoverInvariant
<1> QED
  BY <1>1, OwnedBy, PTL

\* A host restarted once resumes at the last epoch granted (tryStart).
THEOREM EpochSurvivesRestart == ASSUME MaxRestarts <= 1 PROVE Spec => []EpochIsDurable
<1>1. TakeInv => EpochIsDurable
  <2> SUFFICES ASSUME TakeInv, host \in {"deciding", "approved", "running"}, NEW g \in Granted
               PROVE  g.epoch <= epoch
    BY DEF EpochIsDurable
  <2>1. PICK i \in 1..Len(answers) : g = answers[i]
    BY DEF Granted
  <2>2. Current = epoch /\ answers[i].epoch <= Current
    BY DEF TakeInv, EpochInv, EpochsCover, Current
  <2> QED
    BY <2>1, <2>2
<1>2. Spec => []TakeInv
  BY TakeoverInvariant
<1> QED
  BY <1>1, <1>2, PTL

\* Input a superseded writer left behind is not acted on after its
\* successor's, across one restart (processIncoming).
THEOREM StaleInputIsLeft == ASSUME MaxRestarts <= 1 PROVE Spec => []NoStaleInput
<1>1. TakeInv => NoStaleInput
  BY DEF TakeInv, EpochInv
<1>2. Spec => []TakeInv
  BY TakeoverInvariant
<1> QED
  BY <1>1, <1>2, PTL

\* Under the policy's order, or with one try, a client is fenced only by a
\* grant to somebody else, across one restart (#maybeFence, #completeAttach).
THEOREM FencedByOthers ==
  ASSUME MaxRestarts <= 1, TriesInOrder
  PROVE  Spec => []FencedByAnother
<1>1. Init => TakeInv /\ OrderInv /\ FenceInv
  BY InitTypes, InitEpochs, InitOwners, InitOrder, InitFence DEF TakeInv
<1>2. (TakeInv /\ OrderInv /\ FenceInv) /\ [Next]_vars => (TakeInv /\ OrderInv /\ FenceInv)'
  BY TypesStep, EpochStep, OwnerStep, OrderStep, FenceStep DEF TakeInv
<1>3. FenceInv => FencedByAnother
  BY DEF FenceInv
<1> QED
  BY <1>1, <1>2, <1>3, PTL DEF Spec

=============================================================================
