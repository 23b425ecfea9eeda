------------------------ MODULE ClientSessionProofs ------------------------
(***************************************************************************)
(* A client session of any mode, with any number of requests and any noise *)
(* on its stream: it never sleeps on what the host wrote, shows it in      *)
(* order, settles a request by its own answer, and once torn down is quiet. *)
(***************************************************************************)
EXTENDS ClientSession, FiniteSetTheorems, FunctionTheorems, SequenceTheorems,
        WellFoundedInduction, TLAPS

-----------------------------------------------------------------------------
(* The teardown *)

\* A session closed before its notifier was started was closed too soon, and
\* one that is closing beats no more.
QuietInv ==
  /\ closing \in {"open", "closing", "closed"}
  /\ closing # "open" /\ phase \in {"opening", "asking"} => tooSoon
  /\ closing = "closing" /\ phase = "started" /\ ~tooSoon => "beat" \notin timers
  /\ ClosedIsQuiet

LEMMA InitQuiet == Init => QuietInv
  BY DEF Init, QuietInv, ClosedIsQuiet

\* What neither the notifier nor the teardown is touched by.
LEMMA QuietStays ==
  ASSUME QuietInv, UNCHANGED <<closing, phase, timers, observer, tooSoon>>
  PROVE  QuietInv'
  BY DEF QuietInv, ClosedIsQuiet, Observing

\* The host's steps that write nothing.
Silent == HostDies \/ CallKind \/ \E id \in 1..MaxRequests : CallKindOther(id)

LEMMA SilentLeaves ==
  ASSUME Silent
  PROVE  UNCHANGED <<fixed, pageVars, rpcVars, wakeVars, asked, writer, stream, event, tooSoon>>
<1>1. CASE HostDies
  BY <1>1 DEF HostDies
<1>2. CASE CallKind
  BY <1>2 DEF CallKind, Call
<1>3. ASSUME NEW id \in 1..MaxRequests, CallKindOther(id)
      PROVE  UNCHANGED <<fixed, pageVars, rpcVars, wakeVars, asked, writer, stream, event, tooSoon>>
  BY <1>3 DEF CallKindOther, Call
<1> QED
  BY <1>1, <1>2, <1>3 DEF Silent

\* The host's and the other clients' steps.
LEMMA HostLeaves ==
  ASSUME HostStep
  PROVE  UNCHANGED <<fixed, pageVars, rpcVars, mode, observer, timers, reading, again, snap, pos,
                     asked, tooSoon>>
<1>1. ASSUME NEW f, AppendFrame(f)
      PROVE  UNCHANGED <<fixed, pageVars, rpcVars, mode, observer, timers, reading, again, snap, pos,
                         asked, tooSoon>>
  BY <1>1 DEF AppendFrame, wakeVars
<1>2. CASE AnswerBoot
  BY <1>1, <1>2 DEF AnswerBoot
<1>3. CASE AnswerSpawnAgain \/ Output
  BY <1>1, <1>3 DEF AnswerSpawnAgain, Output
<1>4. CASE Supersede
  BY <1>4 DEF Supersede, wakeVars
<1>5. ASSUME NEW d \in BOOLEAN, AnswerNext(d)
      PROVE  UNCHANGED <<fixed, pageVars, rpcVars, mode, observer, timers, reading, again, snap, pos,
                         asked, tooSoon>>
  BY <1>1, <1>5 DEF AnswerNext
<1>6. ASSUME NEW id \in 1..MaxRequests, AnswerOther(id)
      PROVE  UNCHANGED <<fixed, pageVars, rpcVars, mode, observer, timers, reading, again, snap, pos,
                         asked, tooSoon>>
  BY <1>1, <1>6 DEF AnswerOther
<1>7. CASE KindAnswers
  BY <1>1, <1>7 DEF KindAnswers
<1>8. CASE Silent
  BY <1>8, SilentLeaves DEF wakeVars
<1> QED
  BY <1>2, <1>3, <1>4, <1>5, <1>6, <1>7, <1>8 DEF HostStep, Silent

\* A step of the host's wakes the observer, or writes nothing.
LEMMA HostWakes ==
  ASSUME HostStep
  PROVE  event' = (event \/ Observing) \/ UNCHANGED <<stream, event>>
<1>1. ASSUME NEW f, AppendFrame(f) PROVE event' = (event \/ Observing)
  BY <1>1 DEF AppendFrame
<1>2. CASE Silent
  BY <1>2, SilentLeaves
<1> QED
  BY <1>1, <1>2
  DEF HostStep, Silent, AnswerBoot, AnswerSpawnAgain, Output, Supersede, AnswerNext, KindAnswers, AnswerOther

LEMMA QuietStep ==
  ASSUME QuietInv, [Next]_vars
  PROVE  QuietInv'
<1>1. CASE Open \/ Ask \/ AskFails
  <2>1. UNCHANGED <<closing, timers, observer, tooSoon>> /\ phase \in {"opening", "asking"}
        /\ (phase' = phase \/ phase' \in {"asking", "failed"})
    BY <1>1 DEF Open, Ask, AskFails, pageVars, wakeVars
  <2> QED
    BY <2>1 DEF QuietInv, ClosedIsQuiet
<1>2. CASE StartNotifier
  BY <1>2 DEF StartNotifier, QuietInv, ClosedIsQuiet
<1>3. CASE CompleteAttach \/ (\E r \in Requests : Timeout(r)) \/ Pump \/ PumpFails \/ Snapshot
  BY <1>3, QuietStays DEF CompleteAttach, Timeout, Pump, PumpFails, Snapshot, pageVars, wakeVars
<1>4. CASE Request
  <2>1. closing # "closed" /\ timers' \subseteq timers \cup {"hot"}
        /\ UNCHANGED <<closing, phase, observer, tooSoon>>
    BY <1>4 DEF Request
  <2> QED
    BY <2>1 DEF QuietInv, ClosedIsQuiet
<1>5. CASE HostStep
  BY <1>5, HostLeaves, QuietStays DEF pageVars
<1>6. CASE ObserverSettles
  BY <1>6 DEF ObserverSettles, Adopts, QuietInv, ClosedIsQuiet, Observing, pageVars
<1>7. CASE ObserverFails
  BY <1>7 DEF ObserverFails, QuietInv, ClosedIsQuiet, Observing, pageVars
<1>8. CASE HotPollEnds
  BY <1>8 DEF HotPollEnds, QuietInv, ClosedIsQuiet, Observing, pageVars
<1>9. CASE Wake
  BY <1>9 DEF Wake, QuietInv, ClosedIsQuiet, Observing, pageVars
<1>10. CASE Read
  <2>1. /\ UNCHANGED <<closing, phase, observer, tooSoon>>
        /\ timers' = timers \/ (closing # "closed" /\ timers' = timers \cup {"hot"})
    BY <1>10 DEF Read, hostVars
  <2> QED
    BY <2>1 DEF QuietInv, ClosedIsQuiet, Observing
<1>11. CASE ReadStatus
  <2>1. UNCHANGED <<closing, phase, observer, tooSoon>> /\ timers' \subseteq timers
    BY <1>11 DEF ReadStatus
  <2> QED
    BY <2>1 DEF QuietInv, ClosedIsQuiet, Observing
<1>12. CASE Close
  <2>1. CASE hold
    <3>1. /\ closing' = "closed" /\ timers' = {} /\ phase' = phase
          /\ observer' = IF Observing THEN "gone" ELSE observer
          /\ tooSoon' = (phase \in {"opening", "asking"})
      BY <1>12, <2>1 DEF Close, TornDown
    <3> QED
      BY <3>1 DEF QuietInv, ClosedIsQuiet, Observing
  <2>2. CASE ~hold
    <3>1. /\ closing' = "closing" /\ timers' = timers \ {"beat"} /\ phase' = phase
          /\ tooSoon' = (phase \in {"opening", "asking"})
      BY <1>12, <2>2 DEF Close
    <3> QED
      BY <3>1 DEF QuietInv, ClosedIsQuiet
  <2> QED
    BY <2>1, <2>2
<1>13. CASE Teardown
  <2>1. /\ closing = "closing" /\ closing' = "closed" /\ timers' = timers \cap {"beat"}
        /\ UNCHANGED <<phase, tooSoon>> /\ observer' = IF Observing THEN "gone" ELSE observer
    BY <1>13 DEF Teardown, TornDown
  <2> QED
    BY <2>1 DEF QuietInv, ClosedIsQuiet, Observing
<1>14. CASE UNCHANGED vars
  BY <1>14, QuietStays DEF vars, pageVars, wakeVars
<1> QED
  BY <1>1, <1>2, <1>3, <1>4, <1>5, <1>6, <1>7, <1>8, <1>9, <1>10, <1>11, <1>12, <1>13, <1>14 DEF Next

\* A torn-down session has no timer set and no observer connected, however the
\* teardown met the observer's start, a wake or a read, unless it was closed
\* before the notifier was started (#teardown, ChangeNotifier.stop).
THEOREM ClosedSessionsAreQuiet == Spec => []ClosedIsQuiet
<1>1. QuietInv => ClosedIsQuiet
  BY DEF QuietInv
<1> QED
  BY <1>1, InitQuiet, QuietStep, PTL DEF Spec

-----------------------------------------------------------------------------
(* The wakes *)

\* Somebody will look at what is unread.
Looking ==
  \/ event \/ reading = "drain"
  \/ reading # "no" /\ again
  \/ reading = "read" /\ snap = Len(stream)

\* There is output unread, or the read in progress will leave some.
Behind == pos < Len(stream) \/ (reading = "read" /\ snap # Len(stream))

\* Each mode keeps a timer or, once that ends, an observer that was adopted;
\* and one that was adopted has reported, or will, what is unread.
AwakeInv ==
  /\ mode \in {"adaptive", "hybrid", "poll", "observer"} /\ (mode = "observer" => SafetyPoll)
  /\ phase \in {"opening", "asking"} => observer = "none"
  /\ phase = "started" /\ closing # "closed" =>
       /\ mode \in {"poll", "hybrid"} => "poll" \in timers
       /\ SafetyPoll => "safety" \in timers
       /\ mode = "adaptive" => observer \in {"starting", "fresh", "adopted"}
       /\ mode = "adaptive" /\ "hot" \notin timers => observer = "adopted"
  /\ observer = "adopted" /\ closing # "closed" /\ Behind => Looking

LEMMA AwakeEnough == AwakeInv => NobodyAsleep
  BY DEF AwakeInv, NobodyAsleep, Behind, Looking

LEMMA InitAwake == Init => AwakeInv
  BY OpeningAssumption DEF Init, AwakeInv, Behind

\* Nothing changed that the wakes depend on, but for more timers.
LEMMA AwakeStays ==
  ASSUME AwakeInv, UNCHANGED <<closing, phase, mode, observer>>, timers \ {"beat"} \subseteq timers',
         observer = "adopted" /\ closing # "closed" /\ Behind' => Looking'
  PROVE  AwakeInv'
  BY DEF AwakeInv, Behind

LEMMA LookingStays ==
  ASSUME AwakeInv, UNCHANGED <<event, reading, again, snap, pos, stream>>
  PROVE  observer = "adopted" /\ closing # "closed" /\ Behind' => Looking'
  BY DEF AwakeInv, Behind, Looking

LEMMA AwakeStep ==
  ASSUME AwakeInv, [Next]_vars
  PROVE  AwakeInv'
<1>1. CASE Open
  <2>1. /\ phase = "opening" /\ phase' = "asking"
        /\ UNCHANGED <<closing, mode, observer, timers, event, reading, again, snap, stream>>
        /\ pos' = pos \/ pos' = Len(stream)
    BY <1>1 DEF Open, hostVars
  <2> QED
    BY <2>1 DEF AwakeInv, Behind
<1>2. CASE AskFails
  <2>1. /\ phase = "asking" /\ phase' = "failed"
        /\ UNCHANGED <<closing, mode, observer, timers, event, reading, again, snap, pos, stream>>
    BY <1>2 DEF AskFails, wakeVars, hostVars
  <2> QED
    BY <2>1 DEF AwakeInv, Behind
<1>3. CASE StartNotifier
  <2>1. /\ phase = "asking" /\ phase' = "started"
        /\ observer' = IF mode = "poll" THEN "none" ELSE "starting"
        /\ timers' = timers \cup TimersOf(mode)
        /\ UNCHANGED <<closing, mode>>
    BY <1>3 DEF StartNotifier
  <2> QED
    BY <2>1 DEF AwakeInv, Behind, TimersOf
<1>4. CASE Ask \/ CompleteAttach \/ (\E r \in Requests : Timeout(r)) \/ Pump \/ PumpFails
  <2>1. UNCHANGED <<closing, phase, mode, observer, timers, event, reading, again, snap, pos, stream>>
    BY <1>4 DEF Ask, CompleteAttach, Timeout, Pump, PumpFails, pageVars, wakeVars, hostVars
  <2> QED
    BY <2>1, AwakeStays, LookingStays
<1>5. CASE Request
  <2>1. /\ UNCHANGED <<closing, phase, mode, observer, event, reading, again, snap, pos, stream>>
        /\ timers \subseteq timers'
    BY <1>5 DEF Request, hostVars
  <2> QED
    BY <2>1, AwakeStays, LookingStays
<1>6. CASE HostStep
  <2>1. UNCHANGED <<closing, phase, mode, observer, timers, reading, again, snap, pos>>
    BY <1>6, HostLeaves DEF pageVars
  <2>2. CASE UNCHANGED <<stream, event>>
    BY <2>1, <2>2, AwakeStays, LookingStays
  <2>3. CASE event' = (event \/ Observing)
    <3>1. observer = "adopted" => Looking'
      BY <2>1, <2>3 DEF Looking, Observing
    <3> QED
      BY <2>1, <3>1, AwakeStays
  <2> QED
    BY <1>6, <2>2, <2>3, HostWakes
<1>7. CASE ObserverSettles
  BY <1>7 DEF ObserverSettles, Adopts, AwakeInv, Behind, pageVars
<1>8. CASE ObserverFails
  BY <1>8 DEF ObserverFails, AwakeInv, Behind, pageVars
<1>9. CASE HotPollEnds
  <2>1. /\ UNCHANGED <<closing, phase, mode, observer, event, reading, again, snap, pos, stream>>
        /\ timers' = timers \ {"hot"} /\ observer \notin {"starting", "fresh"}
    BY <1>9 DEF HotPollEnds, pageVars, hostVars
  <2> QED
    BY <2>1, LookingStays DEF AwakeInv, Behind
<1>10. CASE Wake
  <2>1. /\ UNCHANGED <<closing, phase, mode, timers>>
        /\ observer' = IF observer = "fresh" THEN "adopted" ELSE observer
    BY <1>10 DEF Wake, pageVars
  <2>2. reading' = "drain" \/ (reading' # "no" /\ again')
    BY <1>10 DEF Wake, WakeBusy
  <2> QED
    BY <2>1, <2>2 DEF AwakeInv, Behind, Looking
<1>11. CASE Snapshot
  <2>1. /\ UNCHANGED <<closing, phase, mode, observer, timers, stream>>
        /\ reading' = "read" /\ snap' = Len(stream)
    BY <1>11 DEF Snapshot, pageVars, hostVars
  <2> QED
    BY <2>1, AwakeStays DEF Behind, Looking
<1>12. CASE Read
  <2>1. /\ UNCHANGED <<closing, phase, mode, observer, event, again, snap, stream>>
        /\ timers \subseteq timers' /\ reading = "read" /\ reading' = "status"
        /\ \/ snap # Len(stream) /\ pos' = pos
           \/ pos' = snap
    BY <1>12 DEF Read, hostVars
  <2>2. observer = "adopted" /\ closing # "closed" /\ Behind' => Looking'
    BY <2>1 DEF AwakeInv, Behind, Looking
  <2> QED
    BY <2>1, <2>2, AwakeStays
<1>13. CASE ReadStatus
  <2>1. /\ UNCHANGED <<closing, phase, mode, observer, event, pos, stream>>
        /\ timers \ {"beat"} \subseteq timers' /\ reading = "status"
        /\ reading' = IF again THEN "drain" ELSE "no"
    BY <1>13 DEF ReadStatus, hostVars
  <2>2. observer = "adopted" /\ closing # "closed" /\ Behind' => Looking'
    BY <2>1 DEF AwakeInv, Behind, Looking
  <2> QED
    BY <2>1, <2>2, AwakeStays
<1>14. CASE Close
  <2>1. UNCHANGED <<phase, mode, reading, again, snap, pos, stream>>
    BY <1>14 DEF Close
  <2>2. CASE hold
    <3>1. closing' = "closed" /\ observer' = IF Observing THEN "gone" ELSE observer
      BY <1>14, <2>2 DEF Close, TornDown
    <3> QED
      BY <2>1, <3>1 DEF AwakeInv, Behind, Observing
  <2>3. CASE ~hold
    <3>1. /\ closing = "open" /\ closing' = "closing" /\ timers' = timers \ {"beat"}
          /\ UNCHANGED <<observer, event>>
      BY <1>14, <2>3 DEF Close
    <3>2. Looking' = Looking
      BY <2>1, <3>1 DEF Looking
    <3> QED
      BY <2>1, <3>1, <3>2 DEF AwakeInv, Behind
  <2> QED
    BY <2>2, <2>3
<1>15. CASE Teardown
  <2>1. /\ closing' = "closed" /\ UNCHANGED <<phase, mode>>
        /\ observer' = IF Observing THEN "gone" ELSE observer
    BY <1>15 DEF Teardown, TornDown
  <2> QED
    BY <2>1 DEF AwakeInv, Behind, Observing
<1>16. CASE UNCHANGED vars
  <2>1. UNCHANGED <<closing, phase, mode, observer, timers, event, reading, again, snap, pos, stream>>
    BY <1>16 DEF vars, pageVars, wakeVars, hostVars
  <2> QED
    BY <2>1, AwakeStays, LookingStays
<1> QED
  BY <1>1, <1>2, <1>3, <1>4, <1>5, <1>6, <1>7, <1>8, <1>9, <1>10, <1>11, <1>12, <1>13, <1>14,
     <1>15, <1>16 DEF Next

\* A started session never sleeps on unread output, in any notifier mode, with
\* an observer that settles late, fails or is adopted after a poll has ended,
\* and whatever the reader was doing when it was woken (#wake, #drainSegment,
\* ChangeNotifier).
THEOREM SessionStaysAwake == Spec => []NobodyAsleep
<1>1. Spec => []AwakeInv
  BY InitAwake, AwakeStep, PTL DEF Spec
<1> QED
  BY <1>1, AwakeEnough, PTL

-----------------------------------------------------------------------------
(* The stream and the lane *)

Asks   == {[id |-> i, req |-> i] : i \in Ids \ {0}}
Calls  == {[id |-> i, to |-> i] : i \in Ids \ {0}} \cup {[id |-> i, to |-> Nobody] : i \in Ids \ {0}}
Frames == {Datum} \cup {Answer(i, i) : i \in Ids} \cup {Answer(i, Nobody) : i \in Ids \ {0}}

\* What the request files, the lane, the kinds' hands and the stream hold, and
\* where the reader is; nothing is read before the notifier is started.
StreamTypes ==
  /\ made \in 0..MaxRequests
  /\ queue \in Seq(Asks) /\ lane \in Seq(Asks) /\ stream \in Seq(Frames)
  /\ taken \subseteq Calls
  /\ pos \in 0..Len(stream) /\ snap \in 0..Len(stream)
  /\ reading = "read" => pos <= snap
  /\ phase \in {"opening", "asking"} => reading = "no" /\ observer = "none" /\ ~event

LEMMA NothingOf == ASSUME NEW S PROVE <<>> \in Seq(S) /\ Len(<<>>) = 0
  OBVIOUS

LEMMA InitStream == Init => StreamTypes
<1> SUFFICES ASSUME Init PROVE StreamTypes
  OBVIOUS
<1>1. queue \in Seq(Asks) /\ lane \in Seq(Asks) /\ stream \in Seq(Frames) /\ Len(stream) = 0
  BY NothingOf DEF Init
<1>2. made \in 0..MaxRequests
  BY BoundsAssumption DEF Init
<1> QED
  BY <1>1, <1>2 DEF Init, StreamTypes

LEMMA AppendFacts ==
  ASSUME NEW S, NEW s \in Seq(S), NEW e \in S
  PROVE  /\ Append(s, e) \in Seq(S) /\ Len(s) \in Nat /\ Len(Append(s, e)) = Len(s) + 1
         /\ \A i \in 1..Len(s) : Append(s, e)[i] = s[i]
         /\ Append(s, e)[Len(s) + 1] = e
         /\ \A i \in 1..Len(Append(s, e)) : i \in 1..Len(s) \/ i = Len(s) + 1
  OBVIOUS

LEMMA FrameFacts ==
  /\ \A i \in Ids : Answer(i, i) \in Frames
  /\ \A i \in Ids \ {0} : Answer(i, Nobody) \in Frames
  /\ Datum \in Frames
  /\ \A f \in Frames : f.kind = "answer" => f.id \in Ids /\ (f.to = f.id \/ (f.to = Nobody /\ f.id # 0))
<1>1. /\ \A i \in Ids : Answer(i, i) \in Frames
      /\ \A i \in Ids \ {0} : Answer(i, Nobody) \in Frames
      /\ Datum \in Frames
  BY DEF Frames
<1>2. ASSUME NEW f \in Frames, f.kind = "answer"
      PROVE  f.id \in Ids /\ (f.to = f.id \/ (f.to = Nobody /\ f.id # 0))
  <2>1. f # Datum
    BY <1>2 DEF Datum
  <2>2. CASE \E i \in Ids : f = Answer(i, i)
    BY <2>2 DEF Answer
  <2>3. CASE \E i \in Ids \ {0} : f = Answer(i, Nobody)
    BY <2>3 DEF Answer
  <2> QED
    BY <2>1, <2>2, <2>3 DEF Frames
<1> QED
  BY <1>1, <1>2

\* The frame a step of the host or of another client appends.
Appended(f) == stream' = Append(stream, f) /\ event' = (event \/ Observing) /\ closing # "closed"

\* Another client's request in a kind's hands.
ForeignCall(i) == [id |-> i, to |-> Nobody] \in taken

\* What a call is and how it is answered.
LEMMA CallFacts ==
  ASSUME StreamTypes, NEW t \in taken
  PROVE  \/ \E i \in Ids \ {0} : Answer(t.id, t.to) = Answer(i, i)
         \/ \E i \in Ids \ {0} : Answer(t.id, t.to) = Answer(i, Nobody) /\ ForeignCall(i)
<1>1. t \in Calls
  BY DEF StreamTypes
<1>2. CASE \E i \in Ids \ {0} : t = [id |-> i, to |-> i]
  BY <1>2
<1>3. CASE \E i \in Ids \ {0} : t = [id |-> i, to |-> Nobody]
  BY <1>3 DEF ForeignCall
<1> QED
  BY <1>1, <1>2, <1>3 DEF Calls

LEMMA HostAppends ==
  ASSUME StreamTypes, HostStep
  PROVE  /\ lane' \in Seq(Asks) /\ taken' \subseteq Calls
         /\ \/ Supersede /\ UNCHANGED <<stream, kindVars>>
            \/ /\ UNCHANGED <<stream, writer, leftOver>>
               /\ \A i : ForeignCall(i)' => ForeignCall(i) \/ writer = "other"
            \/ /\ ~BootAnswered /\ asked /\ Appended(Answer(0, 0)) /\ writer' = "me"
               /\ taken' = taken /\ leftOver' = {t.id : t \in {u \in taken : u.to = Nobody}}
            \/ /\ writer' = writer /\ leftOver' = leftOver /\ taken' \subseteq taken
               /\ \/ how = "spawn" /\ asked' = asked /\ BootAnswered /\ Appended(Answer(0, 0))
                  \/ Appended(Datum)
                  \/ \E i \in Ids \ {0} : Appended(Answer(i, i))
                  \/ \E i \in Ids \ {0} :
                       Appended(Answer(i, Nobody)) /\ (writer = "other" \/ ForeignCall(i))
<1>0. lane \in Seq(Asks) /\ taken \subseteq Calls
  BY DEF StreamTypes
<1>1. CASE AnswerBoot
  BY <1>0, <1>1 DEF AnswerBoot, AppendFrame, Appended
<1>2. CASE AnswerSpawnAgain
  BY <1>0, <1>2 DEF AnswerSpawnAgain, AppendFrame, Appended, Dies
<1>3. CASE Output
  BY <1>0, <1>3 DEF Output, AppendFrame, Appended, kindVars
<1>4. CASE Supersede
  BY <1>0, <1>4 DEF Supersede, kindVars
<1>5. ASSUME NEW d \in BOOLEAN, AnswerNext(d)
      PROVE  /\ lane' \in Seq(Asks) /\ writer' = writer /\ leftOver' = leftOver /\ taken' \subseteq taken
             /\ \E i \in Ids \ {0} : Appended(Answer(i, i))
  <2>1. /\ lane # <<>> /\ writer' = writer
        /\ Appended(Answer(Head(lane).id, Head(lane).req))
        /\ lane' = Tail(lane) \/ lane' = lane
        /\ leftOver' = leftOver /\ taken' \subseteq taken
    BY <1>5 DEF AnswerNext, AppendFrame, Appended, Dies, kindVars
  <2>2. Head(lane) \in Asks /\ Tail(lane) \in Seq(Asks)
    BY <1>0, <2>1
  <2>3. PICK i \in Ids \ {0} : Head(lane) = [id |-> i, req |-> i]
    BY <2>2 DEF Asks
  <2> QED
    BY <1>0, <2>1, <2>2, <2>3
<1>6. ASSUME NEW id \in 1..MaxRequests, AnswerOther(id)
      PROVE  /\ lane' \in Seq(Asks) /\ writer = "other" /\ writer' = writer /\ UNCHANGED kindVars
             /\ \E i \in Ids \ {0} : Appended(Answer(i, Nobody))
  <2>1. id \in Ids \ {0}
    BY BoundsAssumption DEF Ids
  <2> QED
    BY <1>0, <1>6, <2>1 DEF AnswerOther, AppendFrame, Appended
<1>7. CASE KindAnswers
  <2>1. PICK t \in taken : /\ Appended(Answer(t.id, t.to)) /\ taken' = taken \ {t}
                          /\ UNCHANGED <<lane, writer, leftOver>>
    BY <1>7 DEF KindAnswers, AppendFrame, Appended
  <2>2. \/ \E i \in Ids \ {0} : Appended(Answer(i, i))
        \/ \E i \in Ids \ {0} : Appended(Answer(i, Nobody)) /\ ForeignCall(i)
    BY <2>1, CallFacts
  <2> QED
    BY <1>0, <2>1, <2>2
<1>8. CASE HostDies
  BY <1>0, <1>8 DEF HostDies, Dies, ForeignCall
<1>9. CASE CallKind
  <2>1. /\ lane # <<>> /\ lane' = Tail(lane) /\ UNCHANGED <<stream, writer, leftOver>>
        /\ taken' = taken \cup {[id |-> Head(lane).id, to |-> Head(lane).req]}
    BY <1>9 DEF CallKind, Call
  <2>2. Head(lane) \in Asks /\ Tail(lane) \in Seq(Asks)
    BY <1>0, <2>1
  <2>3. PICK i \in Ids \ {0} : Head(lane) = [id |-> i, req |-> i]
    BY <2>2 DEF Asks
  <2>4. taken' = taken \cup {[id |-> i, to |-> i]} /\ [id |-> i, to |-> i] \in Calls
    BY <2>1, <2>3 DEF Calls
  <2>5. i # Nobody
    BY DEF Ids, Nobody
  <2>6. \A k : ForeignCall(k)' => ForeignCall(k)
    BY <2>4, <2>5 DEF ForeignCall
  <2> QED
    BY <1>0, <2>1, <2>2, <2>4, <2>6
<1>10. ASSUME NEW id \in 1..MaxRequests, CallKindOther(id)
       PROVE  /\ lane' \in Seq(Asks) /\ taken' \subseteq Calls
              /\ UNCHANGED <<stream, writer, leftOver>> /\ writer = "other"
  <2>1. id \in Ids \ {0}
    BY BoundsAssumption DEF Ids
  <2>2. [id |-> id, to |-> Nobody] \in Calls
    BY <2>1 DEF Calls
  <2> QED
    BY <1>0, <1>10, <2>2 DEF CallKindOther, Call
<1>11. UNCHANGED kindVars => taken' = taken /\ leftOver' = leftOver
  BY DEF kindVars
<1> QED
  BY <1>0, <1>1, <1>2, <1>3, <1>4, <1>5, <1>6, <1>7, <1>8, <1>9, <1>10, <1>11, Zenon DEF HostStep

LEMMA AppendedFrame ==
  ASSUME StreamTypes, HostStep
  PROVE  \/ stream' = stream
         \/ \E f \in Frames : stream' = Append(stream, f)
<1>1. 0 \in Ids
  BY BoundsAssumption DEF Ids
<1>2. Answer(0, 0) \in Frames
  BY <1>1, FrameFacts
<1> QED
  BY <1>2, HostAppends, FrameFacts DEF Appended

LEMMA StreamStays ==
  ASSUME StreamTypes,
         UNCHANGED <<made, queue, lane, taken, stream, pos, snap, reading, phase, observer, event>>
  PROVE  StreamTypes'
  BY DEF StreamTypes

LEMMA StreamStep == ASSUME StreamTypes, [Next]_vars PROVE StreamTypes'
<1>1. CASE Open
  <2>1. /\ phase = "opening" /\ phase' = "asking"
        /\ UNCHANGED <<made, queue, lane, taken, stream, snap, reading, observer, event>>
        /\ pos' = pos \/ pos' = Len(stream)
    BY <1>1 DEF Open, hostVars, kindVars
  <2> QED
    BY <2>1 DEF StreamTypes
<1>2. CASE Ask \/ CompleteAttach \/ (\E r \in Requests : Timeout(r))
  <2>1. UNCHANGED <<made, queue, lane, taken, stream, pos, snap, reading, phase, observer, event>>
    BY <1>2 DEF Ask, CompleteAttach, Timeout, pageVars, rpcVars, wakeVars, hostVars, kindVars
  <2> QED
    BY <2>1, StreamStays
<1>3. CASE AskFails
  <2>1. /\ phase' = "failed" /\ queue' = <<>>
        /\ UNCHANGED <<made, lane, taken, stream, pos, snap, reading, observer, event>>
    BY <1>3 DEF AskFails, wakeVars, hostVars, kindVars
  <2> QED
    BY <2>1, NothingOf DEF StreamTypes
<1>4. CASE StartNotifier
  <2>1. /\ phase' = "started"
        /\ UNCHANGED <<made, queue, lane, taken, stream, pos, snap, reading, event>>
    BY <1>4 DEF StartNotifier, rpcVars, hostVars, kindVars
  <2> QED
    BY <2>1 DEF StreamTypes
<1>5. CASE Request
  <2>1. /\ made < MaxRequests /\ made' = made + 1
        /\ queue' = queue \/ queue' = Append(queue, [id |-> made + 1, req |-> made + 1])
        /\ UNCHANGED <<lane, taken, stream, pos, snap, reading, phase, observer, event>>
    BY <1>5 DEF Request, NextId, hostVars, kindVars
  <2>2. made + 1 \in Ids \ {0} /\ made' \in 0..MaxRequests
    BY <2>1, BoundsAssumption DEF StreamTypes, Ids
  <2>3. [id |-> made + 1, req |-> made + 1] \in Asks
    BY <2>2 DEF Asks
  <2>4. queue' \in Seq(Asks)
    <3>1. Append(queue, [id |-> made + 1, req |-> made + 1]) \in Seq(Asks)
      BY <2>3, AppendFacts DEF StreamTypes
    <3> QED
      BY <2>1, <3>1 DEF StreamTypes
  <2> QED
    BY <2>1, <2>2, <2>4 DEF StreamTypes
<1>6. CASE Pump
  <2>1. /\ lane' = lane \o queue /\ queue' = <<>>
        /\ UNCHANGED <<made, taken, stream, pos, snap, reading, phase, observer, event>>
    BY <1>6 DEF Pump, rpcVars, wakeVars, kindVars
  <2>2. lane \o queue \in Seq(Asks)
    BY DEF StreamTypes
  <2> QED
    BY <2>1, <2>2, NothingOf DEF StreamTypes
<1>7. CASE PumpFails
  <2>1. /\ queue' = <<>>
        /\ UNCHANGED <<made, lane, taken, stream, pos, snap, reading, phase, observer, event>>
    BY <1>7 DEF PumpFails, rpcVars, wakeVars, hostVars, kindVars
  <2> QED
    BY <2>1, NothingOf DEF StreamTypes
<1>8. CASE HostStep
  <2>1. UNCHANGED <<made, queue, pos, snap, reading, phase, observer>>
    BY <1>8, HostLeaves DEF pageVars, rpcVars
  <2>2. lane' \in Seq(Asks) /\ taken' \subseteq Calls
    BY <1>8, HostAppends DEF StreamTypes
  <2>3. stream' \in Seq(Frames) /\ Len(stream) \in Nat /\ Len(stream) <= Len(stream')
        /\ Len(stream') \in Nat
    <3>1. CASE stream' = stream
      BY <3>1 DEF StreamTypes
    <3>2. ASSUME NEW f \in Frames, stream' = Append(stream, f)
          PROVE  stream' \in Seq(Frames) /\ Len(stream) \in Nat /\ Len(stream) <= Len(stream')
                 /\ Len(stream') \in Nat
      BY <3>2, AppendFacts DEF StreamTypes
    <3> QED
      BY <1>8, <3>1, <3>2, AppendedFrame
  <2>4. event' => event \/ Observing
    BY <1>8, HostWakes DEF Observing
  <2>5. phase' \in {"opening", "asking"} => ~event'
    BY <2>1, <2>4 DEF StreamTypes, Observing
  <2> QED
    BY <2>1, <2>2, <2>3, <2>5 DEF StreamTypes
<1>9. CASE ObserverSettles \/ ObserverFails
  <2>1. /\ observer = "starting"
        /\ UNCHANGED <<made, queue, lane, taken, stream, pos, snap, reading, phase, event>>
    BY <1>9 DEF ObserverSettles, ObserverFails, pageVars, rpcVars, hostVars, kindVars
  <2> QED
    BY <2>1 DEF StreamTypes
<1>10. CASE HotPollEnds
  <2>1. UNCHANGED <<made, queue, lane, taken, stream, pos, snap, reading, phase, observer, event>>
    BY <1>10 DEF HotPollEnds, pageVars, rpcVars, hostVars, kindVars
  <2> QED
    BY <2>1, StreamStays
<1>11. CASE Wake
  <2>1. /\ event \/ phase = "started"
        /\ UNCHANGED <<made, queue, lane, taken, stream, pos, snap, phase>>
        /\ reading' = reading \/ reading' = "drain"
    BY <1>11 DEF Wake, pageVars, rpcVars, kindVars
  <2> QED
    BY <2>1 DEF StreamTypes
<1>12. CASE Snapshot
  <2>1. /\ reading = "drain" /\ snap' = Len(stream)
        /\ UNCHANGED <<made, queue, lane, taken, stream, pos, phase, observer, event>>
    BY <1>12 DEF Snapshot, pageVars, rpcVars, hostVars, kindVars
  <2> QED
    BY <2>1 DEF StreamTypes
<1>13. CASE Read
  <2>1. /\ reading = "read" /\ reading' = "status" /\ (pos' = pos \/ pos' = snap)
        /\ UNCHANGED <<made, queue, lane, taken, stream, snap, phase, observer, event>>
    BY <1>13 DEF Read, hostVars, kindVars
  <2> QED
    BY <2>1 DEF StreamTypes
<1>14. CASE ReadStatus
  <2>1. /\ reading = "status" /\ reading' \in {"drain", "no"} /\ (queue' = queue \/ queue' = <<>>)
        /\ UNCHANGED <<made, lane, taken, stream, pos, snap, phase, observer, event>>
    BY <1>14 DEF ReadStatus, rpcVars, hostVars, kindVars
  <2> QED
    BY <2>1, NothingOf DEF StreamTypes
<1>15. CASE Close \/ Teardown
  <2>1. /\ observer' = observer \/ (Observing /\ observer' = "gone")
        /\ event' => event
        /\ UNCHANGED <<made, queue, lane, taken, stream, pos, snap, reading, phase>>
    <3>1. CASE Close
      BY <3>1 DEF Close, TornDown, kindVars
    <3>2. CASE Teardown
      BY <3>2 DEF Teardown, TornDown, kindVars
    <3> QED
      BY <1>15, <3>1, <3>2
  <2> QED
    BY <2>1 DEF StreamTypes, Observing
<1>16. CASE UNCHANGED vars
  <2>1. UNCHANGED <<made, queue, lane, taken, stream, pos, snap, reading, phase, observer, event>>
    BY <1>16 DEF vars, pageVars, rpcVars, wakeVars, hostVars, kindVars
  <2> QED
    BY <2>1, StreamStays
<1> QED
  BY <1>1, <1>2, <1>3, <1>4, <1>5, <1>6, <1>7, <1>8, <1>9, <1>10, <1>11, <1>12, <1>13, <1>14,
     <1>15, <1>16 DEF Next

-----------------------------------------------------------------------------
(* Other clients' answers *)

ForeignAt(i) == stream[i].kind = "answer" /\ stream[i].to = Nobody
BootAt(i)    == stream[i] = Answer(0, 0)

\* Until this client has been the writer and is no more, what others are
\* answered lies before its grant or was in a kind's hands then; a spawned
\* session has none.
ForeignInv ==
  /\ how \in {"spawn", "attach"} /\ writer \in {"me", "other"}
  /\ BootAnswered => asked
  /\ how = "spawn" /\ writer = "other" => BootAnswered
  /\ ~Superseded => \A i \in 1..Len(stream) :
       ForeignAt(i) => \/ how = "attach" /\ \A j \in 1..i : ~BootAt(j)
                       \/ stream[i].id \in leftOver
  /\ ~BootAnswered => leftOver = {}
  /\ Granted /\ writer = "me" => \A i : ForeignCall(i) => i \in leftOver

LEMMA InitForeign == Init => ForeignInv
  BY OpeningAssumption, NothingOf DEF Init, ForeignInv, BootAnswered, ForeignCall

\* What an appended frame changes.
LEMMA AppendChanges ==
  ASSUME StreamTypes, NEW f \in Frames, stream' = Append(stream, f)
  PROVE  /\ Len(stream) \in Nat /\ Len(stream') = Len(stream) + 1
         /\ \A i \in 1..Len(stream) : /\ ForeignAt(i)' = ForeignAt(i) /\ BootAt(i)' = BootAt(i)
                                     /\ stream'[i] = stream[i]
         /\ \A i \in 1..Len(stream') :
              ForeignAt(i)' => \/ i \in 1..Len(stream) /\ ForeignAt(i)
                               \/ f.kind = "answer" /\ f.to = Nobody /\ stream'[i] = f
         /\ BootAnswered' = (BootAnswered \/ f = Answer(0, 0))
<1>1. /\ Len(stream) \in Nat /\ Len(stream') = Len(stream) + 1
      /\ \A i \in 1..Len(stream) : stream'[i] = stream[i]
      /\ stream'[Len(stream) + 1] = f
      /\ \A i \in 1..Len(stream') : i \in 1..Len(stream) \/ i = Len(stream) + 1
  BY AppendFacts DEF StreamTypes
<1>2. BootAnswered' = (BootAnswered \/ f = Answer(0, 0))
  <2>1. BootAnswered' => BootAnswered \/ f = Answer(0, 0)
    BY <1>1 DEF BootAnswered
  <2>2. BootAnswered => BootAnswered'
    BY <1>1 DEF BootAnswered
  <2>3. f = Answer(0, 0) => BootAnswered'
    BY <1>1 DEF BootAnswered
  <2>4. BootAnswered \in BOOLEAN /\ BootAnswered' \in BOOLEAN
    BY DEF BootAnswered
  <2> QED
    BY <2>1, <2>2, <2>3, <2>4
<1>3. \A i \in 1..Len(stream) : ForeignAt(i)' = ForeignAt(i) /\ BootAt(i)' = BootAt(i)
  BY <1>1 DEF ForeignAt, BootAt
<1>4. ASSUME NEW i \in 1..Len(stream'), ForeignAt(i)'
      PROVE  \/ i \in 1..Len(stream) /\ ForeignAt(i)
             \/ f.kind = "answer" /\ f.to = Nobody /\ stream'[i] = f
  <2>1. CASE i \in 1..Len(stream)
    BY <1>3, <1>4, <2>1
  <2>2. CASE i = Len(stream) + 1
    BY <1>1, <1>4, <2>2 DEF ForeignAt
  <2> QED
    BY <1>1, <2>1, <2>2
<1> QED
  BY <1>1, <1>2, <1>3, <1>4

\* Fewer calls of others' are under way, or there is another writer.
LEMMA CallsFewer ==
  ASSUME ForeignInv, UNCHANGED <<how, writer, leftOver>>, BootAnswered' = BootAnswered,
         \A i : ForeignCall(i)' => ForeignCall(i) \/ writer = "other"
  PROVE  /\ ~BootAnswered' => leftOver' = {}
         /\ (Granted /\ writer = "me")' => \A i : ForeignCall(i)' => i \in leftOver'
<1>1. Granted' = Granted
  BY DEF Granted
<1> QED
  BY <1>1, Zenon DEF ForeignInv

\* Another frame that is no one else's answer, and no step of a writer's.
LEMMA OwnAppends ==
  ASSUME StreamTypes, ForeignInv, NEW f \in Frames, stream' = Append(stream, f),
         ~(f.kind = "answer" /\ f.to = Nobody), UNCHANGED <<how, writer, leftOver>>,
         asked' = asked, f = Answer(0, 0) => BootAnswered, taken' \subseteq taken
  PROVE  ForeignInv' /\ (Superseded => Superseded')
<1>0. BootAnswered' = BootAnswered
  <2>1. BootAnswered \in BOOLEAN
    BY DEF BootAnswered
  <2> QED
    BY <2>1, AppendChanges
<1>1. Superseded' = Superseded
  BY <1>0 DEF Superseded, Granted
<1>2. \A i \in 1..Len(stream') : ForeignAt(i)' =>
        /\ i \in 1..Len(stream) /\ ForeignAt(i) /\ stream'[i] = stream[i]
        /\ \A j \in 1..i : BootAt(j)' = BootAt(j)
  <2>1. ASSUME NEW i \in 1..Len(stream'), ForeignAt(i)'
        PROVE  /\ i \in 1..Len(stream) /\ ForeignAt(i) /\ stream'[i] = stream[i]
               /\ \A j \in 1..i : BootAt(j)' = BootAt(j)
    <3>1. i \in 1..Len(stream) /\ ForeignAt(i)
      BY <2>1, AppendChanges
    <3>2. \A j \in 1..i : j \in 1..Len(stream)
      BY <3>1, AppendChanges
    <3> QED
      BY <3>1, <3>2, AppendChanges
  <2> QED
    BY <2>1
<1>3. (BootAnswered => asked)' /\ (how = "spawn" /\ writer = "other" => BootAnswered)'
  BY <1>0 DEF ForeignInv
<1>4. ASSUME ~Superseded', NEW i \in 1..Len(stream'), ForeignAt(i)'
      PROVE  \/ how = "attach" /\ \A j \in 1..i : ~BootAt(j)'
             \/ stream'[i].id \in leftOver'
  BY <1>1, <1>2, <1>4 DEF ForeignInv
<1>5. \A i : ForeignCall(i)' => ForeignCall(i)
  BY DEF ForeignCall
<1>6. /\ ~BootAnswered' => leftOver' = {}
      /\ (Granted /\ writer = "me")' => \A i : ForeignCall(i)' => i \in leftOver'
  BY <1>0, <1>5, CallsFewer
<1> QED
  BY <1>1, <1>3, <1>4, <1>6 DEF ForeignInv

LEMMA NotForeign ==
  /\ \A i \in Ids : ~(Answer(i, i).kind = "answer" /\ Answer(i, i).to = Nobody)
  /\ Datum.kind # "answer" /\ Datum # Answer(0, 0)
  /\ \A i \in Ids \ {0} : Answer(i, i) # Answer(0, 0) /\ Answer(i, Nobody) # Answer(0, 0)
<1>1. Nobody \notin Ids
  BY DEF Nobody, Ids
<1>2. Datum # Answer(0, 0)
  <2>1. Datum.kind = "data" /\ Answer(0, 0).kind = "answer"
    BY DEF Datum, Answer
  <2> QED
    BY <2>1
<1>3. \A i \in Ids \ {0} : Answer(i, i) # Answer(0, 0) /\ Answer(i, Nobody) # Answer(0, 0)
  <2>1. \A i, r : Answer(i, r).id = i
    BY DEF Answer
  <2> QED
    BY <2>1
<1> QED
  BY <1>1, <1>2, <1>3 DEF Answer, Datum

LEMMA ForeignStep ==
  ASSUME StreamTypes, ForeignInv, [Next]_vars
  PROVE  ForeignInv' /\ (Superseded => Superseded') /\ how' = how /\ leftOver \subseteq leftOver'
<1>0. 0 \in Ids
  BY BoundsAssumption DEF Ids
<1>1. ASSUME UNCHANGED <<how, writer, stream, leftOver>>, asked' = asked \/ asked',
             \A i : ForeignCall(i)' => ForeignCall(i) \/ writer = "other"
      PROVE  ForeignInv' /\ (Superseded => Superseded') /\ how' = how /\ leftOver \subseteq leftOver'
  <2>1. BootAnswered' = BootAnswered
    BY <1>1 DEF BootAnswered
  <2>2. Superseded' = Superseded
    BY <1>1, <2>1 DEF Superseded, Granted
  <2>3. \A i : ForeignAt(i)' = ForeignAt(i) /\ BootAt(i)' = BootAt(i)
    BY <1>1 DEF ForeignAt, BootAt
  <2>4. /\ ~BootAnswered' => leftOver' = {}
        /\ (Granted /\ writer = "me")' => \A i : ForeignCall(i)' => i \in leftOver'
    BY <1>1, <2>1, CallsFewer
  <2> QED
    BY <1>1, <2>1, <2>2, <2>3, <2>4 DEF ForeignInv
<1>2. CASE HostStep
  <2>1. how' = how /\ asked' = asked
    BY <1>2, HostLeaves DEF fixed
  <2>2. CASE Supersede /\ UNCHANGED <<stream, kindVars>>
    <3>1. /\ BootAnswered /\ BootAnswered' /\ writer' = "other" /\ leftOver' = leftOver
          /\ Superseded'
      BY <2>2 DEF Supersede, BootAnswered, kindVars, Superseded, Granted
    <3> QED
      BY <2>1, <3>1 DEF ForeignInv
  <2>3. CASE /\ ~BootAnswered /\ asked /\ Appended(Answer(0, 0)) /\ writer' = "me"
             /\ taken' = taken /\ leftOver' = {t.id : t \in {u \in taken : u.to = Nobody}}
    <3>1. stream' = Append(stream, Answer(0, 0)) /\ Answer(0, 0) \in Frames
      BY <1>0, <2>3, FrameFacts DEF Appended
    <3>2. ~Superseded /\ leftOver = {} /\ BootAnswered'
      BY <2>3, <3>1, AppendChanges DEF ForeignInv, Superseded, Granted
    <3>3. \A i \in 1..Len(stream') : ForeignAt(i)' => i \in 1..Len(stream) /\ ForeignAt(i)
      BY <1>0, <3>1, AppendChanges, NotForeign
    <3>4. \A i \in 1..Len(stream), j \in 1..Len(stream) : j \in 1..i => BootAt(j)' = BootAt(j)
      BY <3>1, AppendChanges
    <3>5. ASSUME NEW i \in 1..Len(stream'), ForeignAt(i)'
          PROVE  how = "attach" /\ \A j \in 1..i : ~BootAt(j)'
      <4>1. i \in 1..Len(stream) /\ ForeignAt(i)
        BY <3>3, <3>5
      <4>2. \A j \in 1..i : j \in 1..Len(stream)
        BY <4>1, <3>1, AppendChanges
      <4> QED
        BY <3>2, <3>4, <4>1, <4>2 DEF ForeignInv
    <3>6. \A i : ForeignCall(i)' => i \in leftOver'
      <4>1. ASSUME NEW i, [id |-> i, to |-> Nobody] \in taken PROVE i \in leftOver'
        <5>1. [id |-> i, to |-> Nobody] \in {u \in taken : u.to = Nobody}
          BY <4>1
        <5>2. [id |-> i, to |-> Nobody].id = i
          OBVIOUS
        <5> QED
          BY <2>3, <5>1, <5>2
      <4> QED
        BY <2>3, <4>1 DEF ForeignCall
    <3>7. leftOver \subseteq leftOver'
      BY <3>2
    <3> QED
      BY <2>1, <2>3, <3>2, <3>5, <3>6, <3>7 DEF ForeignInv, Superseded
  <2>4. CASE /\ UNCHANGED <<stream, writer, leftOver>>
             /\ \A i : ForeignCall(i)' => ForeignCall(i) \/ writer = "other"
    BY <1>1, <2>1, <2>4
  <2> SUFFICES ASSUME writer' = writer, leftOver' = leftOver, taken' \subseteq taken
               PROVE  \/ how = "spawn" /\ asked' = asked /\ BootAnswered /\ Appended(Answer(0, 0))
                      \/ Appended(Datum)
                      \/ \E i \in Ids \ {0} : Appended(Answer(i, i))
                      \/ \E i \in Ids \ {0} :
                           Appended(Answer(i, Nobody)) /\ (writer = "other" \/ ForeignCall(i))
                      => ForeignInv' /\ (Superseded => Superseded')
    BY <1>2, <2>1, <2>2, <2>3, <2>4, HostAppends, Zenon
  <2>5. CASE how = "spawn" /\ BootAnswered /\ Appended(Answer(0, 0))
    <3>1. stream' = Append(stream, Answer(0, 0)) /\ Answer(0, 0) \in Frames
      BY <1>0, <2>5, FrameFacts DEF Appended
    <3> QED
      BY <1>0, <2>1, <2>5, <3>1, OwnAppends, NotForeign
  <2>6. CASE Appended(Datum)
    <3>1. stream' = Append(stream, Datum) /\ Datum \in Frames
      BY <2>6, FrameFacts DEF Appended
    <3> QED
      BY <2>1, <2>6, <3>1, OwnAppends, NotForeign
  <2>7. ASSUME NEW i \in Ids \ {0}, Appended(Answer(i, i))
        PROVE  ForeignInv' /\ (Superseded => Superseded')
    <3>1. stream' = Append(stream, Answer(i, i)) /\ Answer(i, i) \in Frames
      BY <2>7, FrameFacts DEF Appended
    <3> QED
      BY <2>1, <2>7, <3>1, OwnAppends, NotForeign
  <2>8. ASSUME NEW i \in Ids \ {0}, Appended(Answer(i, Nobody)), writer = "other" \/ ForeignCall(i)
        PROVE  ForeignInv' /\ (Superseded => Superseded')
    <3>1. stream' = Append(stream, Answer(i, Nobody)) /\ Answer(i, Nobody) \in Frames
      BY <2>8, FrameFacts DEF Appended
    <3>2. BootAnswered' = BootAnswered
      <4>1. BootAnswered' = (BootAnswered \/ Answer(i, Nobody) = Answer(0, 0))
        BY <3>1, AppendChanges
      <4>2. Answer(i, Nobody) # Answer(0, 0) /\ BootAnswered \in BOOLEAN
        BY NotForeign DEF BootAnswered
      <4> QED
        BY <4>1, <4>2
    <3>3. Superseded' = Superseded
      BY <2>1, <3>2 DEF Superseded, Granted
    <3>4. ~Superseded => (how = "attach" /\ ~BootAnswered') \/ i \in leftOver
      BY <2>8, <3>2 DEF ForeignInv, Superseded, Granted
    <3>5. ~BootAnswered' => \A k \in 1..Len(stream') : ~BootAt(k)'
      BY DEF BootAnswered, BootAt
    <3>6. ASSUME ~Superseded, NEW k \in 1..Len(stream'), ForeignAt(k)'
          PROVE  \/ how = "attach" /\ \A j \in 1..k : ~BootAt(j)'
                 \/ stream'[k].id \in leftOver
      <4>1. \A j \in 1..k : j \in 1..Len(stream')
        BY <3>1, AppendChanges
      <4>2. CASE how = "attach" /\ ~BootAnswered'
        BY <3>5, <4>1, <4>2
      <4>3. CASE i \in leftOver
        <5>1. CASE stream'[k] = Answer(i, Nobody)
          BY <4>3, <5>1 DEF Answer
        <5>2. CASE k \in 1..Len(stream) /\ ForeignAt(k)
          <6>1. stream'[k] = stream[k] /\ \A j \in 1..k : j \in 1..Len(stream) /\ BootAt(j)' = BootAt(j)
            BY <3>1, <5>2, AppendChanges
          <6> QED
            BY <3>6, <5>2, <6>1 DEF ForeignInv
        <5> QED
          BY <3>1, <3>6, <5>1, <5>2, AppendChanges
      <4> QED
        BY <3>4, <3>6, <4>2, <4>3
    <3>7. \A k : ForeignCall(k)' => ForeignCall(k)
      BY DEF ForeignCall
    <3>8. /\ ~BootAnswered' => leftOver' = {}
          /\ (Granted /\ writer = "me")' => \A k : ForeignCall(k)' => k \in leftOver'
      BY <2>1, <3>2, <3>7, CallsFewer
    <3> QED
      BY <2>1, <3>2, <3>3, <3>6, <3>8 DEF ForeignInv
  <2> QED
    BY <2>5, <2>6, <2>7, <2>8
<1>3. CASE Open \/ Ask \/ AskFails \/ StartNotifier \/ CompleteAttach
  BY <1>1, <1>3 DEF Open, Ask, AskFails, StartNotifier, CompleteAttach, hostVars, kindVars, ForeignCall, fixed
<1>4. CASE Request \/ (\E r \in Requests : Timeout(r)) \/ Pump \/ PumpFails
  BY <1>1, <1>4 DEF Request, Timeout, Pump, PumpFails, hostVars, kindVars, ForeignCall, fixed
<1>5. CASE ObserverSettles \/ ObserverFails \/ HotPollEnds \/ Wake \/ Snapshot
  BY <1>1, <1>5 DEF ObserverSettles, ObserverFails, HotPollEnds, Wake, Snapshot, hostVars, kindVars, ForeignCall, fixed
<1>6. CASE Read
  BY <1>1, <1>6 DEF Read, hostVars, kindVars, ForeignCall, fixed
<1>7. CASE ReadStatus
  BY <1>1, <1>7 DEF ReadStatus, hostVars, kindVars, ForeignCall, fixed
<1>8. CASE Close \/ Teardown
  BY <1>1, <1>8 DEF Close, Teardown, kindVars, ForeignCall, fixed
<1>9. CASE UNCHANGED vars
  BY <1>1, <1>9 DEF vars, hostVars, kindVars, ForeignCall, fixed
<1> QED
  BY <1>2, <1>3, <1>4, <1>5, <1>6, <1>7, <1>8, <1>9 DEF Next

-----------------------------------------------------------------------------
(* The requests *)

Standings == {"unmade", "pending", "own", "foreign", "failed", "timedout"}

\* The lane is this client's own.
Ready == how = "spawn" \/ outcome[0] = "own"

\* An id awaits its own request only; a grant that was worked in has been read;
\* and what was not sent too early awaits its answer since.
AwaitInv ==
  /\ awaits \in [Ids -> Int] /\ \A i \in Ids : awaits[i] \in {i, Nobody}
  /\ outcome \in [Requests -> Standings]
  /\ how = "attach" /\ outcome[0] = "own" =>
       awaits[0] = Nobody /\ phase # "opening" /\ \E j \in 1..pos : BootAt(j)
  /\ \A r \in Requests : r # 0 /\ awaits[r] = r /\ r \notin early => Ready
  /\ OwnAnswers

LEMMA IdFacts == Ids = Requests /\ 0 \in Ids /\ Ids \subseteq Nat /\ Nobody \notin Ids /\ Nobody \in Int
  BY BoundsAssumption DEF Ids, Requests, Nobody

LEMMA InitAwait == Init => AwaitInv
<1> SUFFICES ASSUME Init PROVE AwaitInv
  OBVIOUS
<1>1. /\ \A i \in Ids : awaits[i] \in {i, Nobody} /\ (awaits[i] = i => i = 0)
      /\ awaits \in [Ids -> Int]
  BY IdFacts DEF Init
<1>2. outcome \in [Requests -> Standings] /\ \A r \in Requests : outcome[r] \in {"pending", "unmade"}
  BY DEF Init, Standings
<1> QED
  BY <1>1, <1>2, IdFacts DEF AwaitInv, OwnAnswers

LEMMA LeastOf ==
  ASSUME NEW T, T \subseteq Nat, T # {}
  PROVE  \E x \in T : \A y \in T : x <= y
<1> DEFINE R == {ss \in Nat \X Nat : ss[1] < ss[2]}
<1>1. IsWellFoundedOn(R, Nat)
  BY NatLessThanWellFounded DEF OpToRel
<1>2. \A x, y \in Nat : y < x => <<y, x>> \in R
  OBVIOUS
<1> HIDE DEF R
<1>3. PICK x \in T : \A y \in T : <<y, x>> \notin R
  BY <1>1, WFMin, Zenon
<1>4. \A y \in T : x \in Nat /\ y \in Nat /\ ~(y < x)
  BY <1>2, <1>3
<1> QED
  BY <1>4

\* What settles an id lies in the range that was read and bears the id.
LEMMA SettledFacts ==
  ASSUME StreamTypes, reading = "read", NEW r \in Ids
  PROVE  \/ SettledBy(r, pos + 1, snap) = 0
         \/ /\ awaits[r] # Nobody
            /\ SettledBy(r, pos + 1, snap) \in (pos + 1)..snap
            /\ SettledBy(r, pos + 1, snap) > 0
            /\ stream[SettledBy(r, pos + 1, snap)].kind = "answer"
            /\ stream[SettledBy(r, pos + 1, snap)].id = r
<1> DEFINE hits == AnswersTo(r, pos + 1, snap)
<1>1. pos \in Nat /\ snap \in Nat /\ hits \subseteq Nat
  BY DEF StreamTypes, AnswersTo
<1>2. CASE awaits[r] = Nobody \/ hits = {}
  BY <1>2 DEF SettledBy
<1>3. CASE awaits[r] # Nobody /\ hits # {}
  <2> DEFINE least == CHOOSE i \in hits : \A j \in hits : i <= j
  <2>1. least \in hits
    <3>1. \E i \in hits : \A j \in hits : i <= j
      BY <1>1, <1>3, LeastOf
    <3> QED
      BY <3>1
  <2>2. SettledBy(r, pos + 1, snap) = least
    BY <1>3 DEF SettledBy
  <2>3. least \in (pos + 1)..snap /\ stream[least].kind = "answer" /\ stream[least].id = r
    BY <2>1 DEF AnswersTo
  <2> HIDE DEF least
  <2> QED
    BY <1>1, <1>3, <2>2, <2>3
<1> QED
  BY <1>2, <1>3

\* How a read settles the requests.
Settles(r, k) ==
  \/ stream[k] = Answer(r, r) /\ outcome'[r] = "own"
  \/ r # 0 /\ ForeignAt(k) /\ stream[k].id = r /\ outcome'[r] = "foreign"

LEMMA ReadSettles ==
  ASSUME StreamTypes, AwaitInv, Read, pos' # pos \/ awaits' # awaits \/ outcome' # outcome
  PROVE  /\ pos' = snap /\ awaits' \in [Ids -> Int] /\ outcome' \in [Requests -> Standings]
         /\ \A r \in Requests :
              \/ awaits'[r] = awaits[r] /\ outcome'[r] = outcome[r]
              \/ /\ awaits[r] = r /\ awaits'[r] = Nobody
                 /\ \E k \in (pos + 1)..snap : Settles(r, k)
<1> DEFINE by == [i \in Ids |-> SettledBy(i, pos + 1, snap)]
           who(r) == CHOOSE i \in Ids : by[i] > 0 /\ awaits[i] = r
<1>1. /\ reading = "read" /\ pos' = snap
      /\ awaits' = [i \in Ids |-> IF by[i] > 0 THEN Nobody ELSE awaits[i]]
      /\ outcome' = [r \in Requests |->
           IF \E i \in Ids : by[i] > 0 /\ awaits[i] = r
           THEN IF stream[by[who(r)]].to = r THEN "own" ELSE "foreign"
           ELSE outcome[r]]
  BY Zenon DEF Read
<1>2. awaits' \in [Ids -> Int]
  BY <1>1, IdFacts DEF AwaitInv
<1>3. outcome' \in [Requests -> Standings]
  BY <1>1 DEF AwaitInv, Standings
<1>4. ASSUME NEW r \in Requests
      PROVE  \/ awaits'[r] = awaits[r] /\ outcome'[r] = outcome[r]
             \/ /\ awaits[r] = r /\ awaits'[r] = Nobody
                /\ \E k \in (pos + 1)..snap : Settles(r, k)
  <2>1. r \in Ids /\ \A i \in Ids : awaits[i] = r => i = r
    BY IdFacts DEF AwaitInv
  <2>2. by[r] = SettledBy(r, pos + 1, snap)
    BY <2>1
  <2>3. CASE by[r] = 0
    <3>1. awaits'[r] = awaits[r]
      BY <1>1, <2>1, <2>3
    <3>2. ~\E i \in Ids : by[i] > 0 /\ awaits[i] = r
      BY <2>1, <2>3
    <3> QED
      BY <1>1, <3>1, <3>2
  <2>4. CASE by[r] # 0
    <3>1. /\ awaits[r] = r /\ by[r] \in (pos + 1)..snap /\ by[r] > 0
          /\ stream[by[r]].kind = "answer" /\ stream[by[r]].id = r
      BY <1>1, <2>1, <2>2, <2>4, SettledFacts DEF AwaitInv
    <3>2. awaits'[r] = Nobody
      BY <1>1, <2>1, <3>1
    <3>3. who(r) = r
      BY <2>1, <3>1
    <3>4. outcome'[r] = IF stream[by[r]].to = r THEN "own" ELSE "foreign"
      BY <1>1, <2>1, <3>1, <3>3
    <3>5. stream[by[r]] \in Frames
      BY <3>1 DEF StreamTypes
    <3>6. CASE stream[by[r]].to = r
      <4>1. stream[by[r]] = Answer(r, r)
        <5>1. stream[by[r]] # Datum /\ \A i \in Ids \ {0} : stream[by[r]] # Answer(i, Nobody)
          BY <2>1, <3>1, <3>6, IdFacts DEF Answer, Datum
        <5>2. PICK i \in Ids : stream[by[r]] = Answer(i, i)
          BY <3>5, <5>1 DEF Frames
        <5>3. i = r
          BY <3>1, <5>2 DEF Answer
        <5> QED
          BY <5>2, <5>3
      <4> QED
        BY <3>1, <3>2, <3>4, <3>6, <4>1 DEF Settles
    <3>7. CASE stream[by[r]].to # r
      <4>1. stream[by[r]].to = Nobody /\ r # 0
        BY <3>1, <3>5, <3>7, FrameFacts
      <4> QED
        BY <3>1, <3>2, <3>4, <3>7, <4>1 DEF Settles, ForeignAt
    <3> QED
      BY <3>6, <3>7
  <2> QED
    BY <2>3, <2>4
<1> QED
  BY <1>1, <1>2, <1>3, <1>4

\* A frame that was read stays where it is.
LEMMA ReadFramesStay ==
  ASSUME StreamTypes, [Next]_vars
  PROVE  \A j \in 1..Len(stream) : BootAt(j)' = BootAt(j)
<1>1. CASE stream' = stream
  BY <1>1 DEF BootAt
<1>2. CASE HostStep
  BY <1>1, <1>2, AppendedFrame, AppendChanges
<1>3. stream' = stream \/ HostStep
  BY DEF Next, Open, Ask, AskFails, StartNotifier, CompleteAttach, Request, Timeout, Pump, PumpFails,
         ObserverSettles, ObserverFails, HotPollEnds, Wake, Snapshot, Read, ReadStatus, Close,
         Teardown, vars, hostVars
<1> QED
  BY <1>1, <1>2, <1>3

\* Steps that leave the requests alone.
LEMMA AwaitStays ==
  ASSUME StreamTypes, ForeignInv, AwaitInv, [Next]_vars,
         UNCHANGED <<rpcVars, pos>>, phase' = phase \/ phase' \in {"started", "failed"}
  PROVE  AwaitInv'
<1>1. UNCHANGED <<how, awaits, outcome, early, pos>> /\ (Superseded => Superseded')
      /\ leftOver \subseteq leftOver'
  BY ForeignStep DEF rpcVars
<1>2. \A j \in 1..pos : BootAt(j)' = BootAt(j)
  <2>1. \A j \in 1..pos : j \in 1..Len(stream)
    BY DEF StreamTypes
  <2> QED
    BY <2>1, ReadFramesStay
<1>3. how = "attach" /\ outcome[0] = "own" =>
        awaits[0] = Nobody /\ phase' # "opening" /\ \E j \in 1..pos : BootAt(j)'
  BY <1>2 DEF AwaitInv
<1>4. OwnAnswers'
  BY <1>1 DEF AwaitInv, OwnAnswers
<1>5. Ready' = Ready
  BY <1>1 DEF Ready
<1> QED
  BY <1>1, <1>3, <1>4, <1>5 DEF AwaitInv

\* Pending requests that are given up on.
LEMMA GivenUp ==
  ASSUME StreamTypes, ForeignInv, AwaitInv, [Next]_vars, UNCHANGED <<pos, phase, early>>,
         awaits' \in [Ids -> Int], outcome' \in [Requests -> Standings],
         \A i \in Ids : awaits'[i] \in {awaits[i], Nobody},
         \A r \in Requests : outcome'[r] \in {outcome[r], "failed", "timedout"},
         outcome[0] = "own" /\ awaits[0] = Nobody => outcome'[0] = "own"
  PROVE  AwaitInv'
<1>1. how' = how /\ (Superseded => Superseded') /\ leftOver \subseteq leftOver'
  BY ForeignStep
<1>2. \A j \in 1..pos : BootAt(j)' = BootAt(j)
  <2>1. \A j \in 1..pos : j \in 1..Len(stream)
    BY DEF StreamTypes
  <2> QED
    BY <2>1, ReadFramesStay
<1>3. how = "attach" /\ outcome'[0] = "own" =>
        awaits'[0] = Nobody /\ phase' # "opening" /\ \E j \in 1..pos : BootAt(j)'
  BY <1>2, IdFacts DEF AwaitInv
<1>4. OwnAnswers'
  BY <1>1 DEF AwaitInv, OwnAnswers
<1>5. how \in {"spawn", "attach"} /\ (Ready => Ready')
  BY <1>1 DEF Ready, AwaitInv, ForeignInv
<1>6. \A i \in Ids : awaits'[i] \in {i, Nobody}
  BY DEF AwaitInv
<1>7. \A r \in Requests : r # 0 /\ awaits'[r] = r /\ r \notin early' => Ready'
  BY <1>5, IdFacts DEF AwaitInv
<1> QED
  BY <1>1, <1>3, <1>4, <1>6, <1>7 DEF AwaitInv

LEMMA AwaitRead ==
  ASSUME StreamTypes, ForeignInv, AwaitInv, [Next]_vars, Read
  PROVE  AwaitInv'
<1>1. /\ UNCHANGED <<phase, early, stream>> /\ reading = "read"
  BY DEF Read, hostVars
<1>2. CASE pos' = pos /\ awaits' = awaits /\ outcome' = outcome
  <2>1. UNCHANGED <<rpcVars, pos>>
    BY <1>2 DEF Read, rpcVars
  <2> QED
    BY <1>1, <2>1, AwaitStays
<1>3. CASE ~(pos' = pos /\ awaits' = awaits /\ outcome' = outcome)
  <2>1. /\ pos' = snap /\ awaits' \in [Ids -> Int] /\ outcome' \in [Requests -> Standings]
        /\ \A r \in Requests :
             \/ awaits'[r] = awaits[r] /\ outcome'[r] = outcome[r]
             \/ /\ awaits[r] = r /\ awaits'[r] = Nobody
                /\ \E k \in (pos + 1)..snap : Settles(r, k)
    BY <1>3, ReadSettles
  <2>2. pos \in Nat /\ snap \in Nat /\ pos <= snap /\ snap <= Len(stream) /\ Len(stream) \in Nat
    BY <1>1 DEF StreamTypes
  <2>3. how' = how /\ Superseded' = Superseded
    <3>1. writer' = writer
      BY DEF Read, hostVars
    <3> QED
      BY <1>1, <3>1, ForeignStep DEF Superseded, Granted, BootAnswered
  <2>4. \A j : BootAt(j)' = BootAt(j)
    BY <1>1 DEF BootAt
  <2>5. \A i \in Ids : awaits'[i] \in {i, Nobody}
    BY <2>1, IdFacts DEF AwaitInv
  <2>6. how = "attach" /\ outcome'[0] = "own" =>
          awaits'[0] = Nobody /\ phase # "opening" /\ \E j \in 1..snap : BootAt(j)
    <3>1. SUFFICES ASSUME how = "attach", outcome'[0] = "own"
                   PROVE  awaits'[0] = Nobody /\ phase # "opening" /\ \E j \in 1..snap : BootAt(j)
      OBVIOUS
    <3>2. CASE awaits'[0] = awaits[0] /\ outcome'[0] = outcome[0]
      <4>1. PICK j \in 1..pos : BootAt(j)
        BY <3>1, <3>2 DEF AwaitInv
      <4>2. j \in 1..snap
        BY <2>2
      <4> QED
        BY <3>1, <3>2, <4>1, <4>2 DEF AwaitInv
    <3>3. ASSUME awaits'[0] = Nobody, NEW k \in (pos + 1)..snap, Settles(0, k)
          PROVE  awaits'[0] = Nobody /\ phase # "opening" /\ \E j \in 1..snap : BootAt(j)
      <4>1. BootAt(k) /\ k \in 1..snap
        BY <2>2, <3>3 DEF Settles, BootAt
      <4>2. phase # "opening"
        BY <1>1 DEF StreamTypes
      <4> QED
        BY <3>3, <4>1, <4>2
    <3> QED
      BY <2>1, <3>2, <3>3, IdFacts
  <2>7. Ready => Ready'
    <3>1. CASE how = "spawn"
      BY <2>3, <3>1 DEF Ready
    <3>2. CASE outcome[0] = "own" /\ how = "attach"
      <4>1. awaits[0] # 0
        BY <3>2, IdFacts DEF AwaitInv
      <4> QED
        BY <2>1, <3>2, <4>1, IdFacts DEF Ready
    <3> QED
      BY <3>1, <3>2 DEF Ready, ForeignInv
  <2>8. \A r \in Requests : r # 0 /\ awaits'[r] = r /\ r \notin early => Ready'
    <3>1. ASSUME NEW r \in Requests, r # 0, awaits'[r] = r, r \notin early PROVE Ready'
      <4>1. awaits[r] = r
        BY <2>1, <3>1, IdFacts
      <4> QED
        BY <2>7, <3>1, <4>1 DEF AwaitInv
    <3> QED
      BY <3>1
  <2>9. ASSUME NEW r \in Requests, outcome'[r] = "foreign" PROVE r \in early \cup leftOver \/ Superseded
    <3>1. CASE outcome'[r] = outcome[r]
      BY <2>9, <3>1 DEF AwaitInv, OwnAnswers
    <3>2. ASSUME awaits[r] = r, NEW k \in (pos + 1)..snap, Settles(r, k)
          PROVE  r \in early \cup leftOver \/ Superseded
      <4>1. r # 0 /\ ForeignAt(k) /\ stream[k].id = r /\ k \in 1..Len(stream)
        BY <2>2, <2>9, <3>2 DEF Settles
      <4>2. CASE r \notin early /\ how = "spawn"
        BY <4>1, <4>2 DEF ForeignInv
      <4>3. CASE r \notin early /\ how # "spawn"
        <5>1. how = "attach" /\ outcome[0] = "own"
          BY <3>2, <4>1, <4>3 DEF AwaitInv, Ready, ForeignInv
        <5>2. PICK j \in 1..pos : BootAt(j)
          BY <5>1 DEF AwaitInv
        <5>3. j \in 1..k
          BY <2>2
        <5> QED
          BY <4>1, <5>2, <5>3 DEF ForeignInv
      <4> QED
        BY <4>2, <4>3
    <3> QED
      BY <2>1, <3>1, <3>2
  <2>10. OwnAnswers'
    BY <1>1, <2>3, <2>9, ForeignStep DEF OwnAnswers
  <2> QED
    BY <1>1, <2>1, <2>3, <2>4, <2>5, <2>6, <2>8, <2>10 DEF AwaitInv
<1> QED
  BY <1>2, <1>3

LEMMA AwaitStep ==
  ASSUME StreamTypes, ForeignInv, AwaitInv, [Next]_vars
  PROVE  AwaitInv'
<1>1. CASE Open
  <2>1. /\ phase = "opening" /\ phase' = "asking" /\ UNCHANGED <<outcome, early, stream>>
        /\ how' = how /\ (Superseded => Superseded') /\ leftOver \subseteq leftOver'
    BY <1>1, ForeignStep DEF Open, hostVars
  <2>2. CASE how = "attach"
    <3>1. awaits' = [awaits EXCEPT ![0] = 0] /\ outcome[0] # "own"
      BY <1>1, <2>1, <2>2 DEF Open, AwaitInv
    <3>2. awaits' \in [Ids -> Int] /\ \A i \in Ids : awaits'[i] \in {i, Nobody}
      BY <3>1, IdFacts DEF AwaitInv
    <3>3. \A r \in Requests : r # 0 /\ awaits'[r] = r => awaits[r] = r
      BY <3>1, IdFacts DEF AwaitInv
    <3>4. \A r \in Requests : r # 0 /\ awaits'[r] = r /\ r \notin early => Ready'
      BY <2>1, <3>3 DEF AwaitInv, Ready
    <3> QED
      BY <2>1, <3>1, <3>2, <3>4 DEF AwaitInv, OwnAnswers
  <2>3. CASE how # "attach"
    <3>1. UNCHANGED <<awaits, pos>>
      BY <1>1, <2>3 DEF Open
    <3> QED
      BY <2>1, <2>3, <3>1 DEF AwaitInv, OwnAnswers, Ready
  <2> QED
    BY <2>2, <2>3
<1>2. CASE AskFails
  <2>1. /\ phase' = "failed" /\ ~asked /\ outcome' = [outcome EXCEPT ![0] = "failed"]
        /\ UNCHANGED <<awaits, early, pos>>
        /\ how' = how /\ (Superseded => Superseded') /\ leftOver \subseteq leftOver'
    BY <1>2, ForeignStep DEF AskFails, wakeVars
  <2>2. how = "attach" => outcome[0] # "own"
    <3>1. \A j \in 1..Len(stream) : ~BootAt(j)
      BY <2>1 DEF ForeignInv, BootAnswered, BootAt
    <3>2. \A j \in 1..pos : j \in 1..Len(stream)
      BY DEF StreamTypes
    <3> QED
      BY <3>1, <3>2 DEF AwaitInv
  <2>3. Ready => Ready'
    BY <2>1, <2>2 DEF Ready, ForeignInv
  <2>4. outcome'[0] # "own" /\ outcome' \in [Requests -> Standings]
        /\ \A r \in Requests : outcome'[r] = "foreign" => outcome[r] = "foreign"
    BY <2>1, IdFacts DEF AwaitInv, Standings
  <2> QED
    BY <2>1, <2>3, <2>4 DEF AwaitInv, OwnAnswers
<1>3. CASE Request
  <2>1. /\ made < MaxRequests /\ made' = made + 1 /\ UNCHANGED <<pos, phase, stream>>
        /\ how' = how /\ (Superseded => Superseded') /\ leftOver \subseteq leftOver'
        /\ early' = IF UplinkReady THEN early ELSE early \cup {made + 1}
        /\ \E s \in {"failed", "pending"} : outcome' = [outcome EXCEPT ![made + 1] = s]
        /\ awaits' = awaits \/ awaits' = [awaits EXCEPT ![made + 1] = made + 1]
    BY <1>3, ForeignStep DEF Request, NextId, hostVars
  <2>2. made + 1 \in Requests /\ made + 1 # 0 /\ made + 1 \in Ids
    BY <2>1, BoundsAssumption DEF StreamTypes, Requests, Ids
  <2>3. /\ outcome' \in [Requests -> Standings] /\ outcome'[0] = outcome[0]
        /\ \A r \in Requests : outcome'[r] = "foreign" => outcome[r] = "foreign"
    BY <2>1, <2>2, IdFacts DEF AwaitInv, Standings
  <2>4. /\ awaits' \in [Ids -> Int] /\ awaits'[0] = awaits[0]
        /\ \A i \in Ids : awaits'[i] \in {i, Nobody}
        /\ \A i \in Ids : awaits'[i] = awaits[i] \/ i = made + 1
    BY <2>1, <2>2, IdFacts DEF AwaitInv
  <2>5. made + 1 \notin early' => Ready'
    BY <2>1, <2>3 DEF UplinkReady, Ready, ForeignInv
  <2>6. \A r \in Requests : r # 0 /\ awaits'[r] = r /\ r \notin early' => Ready'
    <3>1. Ready => Ready'
      BY <2>1, <2>3 DEF Ready
    <3> QED
      BY <2>1, <2>4, <2>5, <3>1, IdFacts DEF AwaitInv
  <2>7. \A j : BootAt(j)' = BootAt(j)
    BY <2>1 DEF BootAt
  <2>8. OwnAnswers'
    BY <2>1, <2>3 DEF AwaitInv, OwnAnswers
  <2>9. how = "attach" /\ outcome'[0] = "own" =>
          awaits'[0] = Nobody /\ phase # "opening" /\ \E j \in 1..pos : BootAt(j)
    BY <2>3, <2>4 DEF AwaitInv
  <2> QED
    BY <2>1, <2>3, <2>4, <2>6, <2>7, <2>8, <2>9 DEF AwaitInv
<1>4. ASSUME NEW r \in Requests, Timeout(r) PROVE AwaitInv'
  <2>1. /\ r > 0 /\ outcome' = [outcome EXCEPT ![r] = "timedout"]
        /\ awaits' = [i \in Ids |-> IF awaits[i] = r THEN Nobody ELSE awaits[i]]
        /\ UNCHANGED <<pos, phase, early>>
    BY <1>4 DEF Timeout, pageVars, wakeVars
  <2>2. awaits' \in [Ids -> Int] /\ \A i \in Ids : awaits'[i] \in {awaits[i], Nobody}
    BY <2>1, IdFacts DEF AwaitInv
  <2>3. /\ outcome' \in [Requests -> Standings]
        /\ \A q \in Requests : outcome'[q] \in {outcome[q], "timedout"}
        /\ outcome'[0] = outcome[0]
    BY <2>1, IdFacts DEF AwaitInv, Standings
  <2> QED
    BY <2>1, <2>2, <2>3, GivenUp
<1>5. CASE Close \/ Teardown
  <2>1. UNCHANGED <<rpcVars, pos, phase>> \/ (TornDown /\ UNCHANGED <<pos, phase, early>>)
    BY <1>5 DEF Close, Teardown, rpcVars
  <2>2. CASE UNCHANGED <<rpcVars, pos, phase>>
    BY <2>2, AwaitStays
  <2>3. CASE TornDown /\ UNCHANGED <<pos, phase, early>>
    <3>1. awaits' = [i \in Ids |-> Nobody] /\ outcome' = Rejected
      BY <2>3 DEF TornDown
    <3>2. awaits' \in [Ids -> Int] /\ \A i \in Ids : awaits'[i] \in {awaits[i], Nobody}
      BY <3>1, IdFacts
    <3>3. /\ outcome' \in [Requests -> Standings]
          /\ \A q \in Requests : outcome'[q] \in {outcome[q], "failed"}
      BY <3>1 DEF Rejected, AwaitInv, Standings
    <3>4. outcome[0] = "own" /\ awaits[0] = Nobody => outcome'[0] = "own"
      <4>1. awaits[0] = Nobody => ~\E i \in Ids : awaits[i] = 0
        BY IdFacts DEF AwaitInv
      <4> QED
        BY <3>1, <4>1, IdFacts DEF Rejected
    <3> QED
      BY <2>3, <3>2, <3>3, <3>4, GivenUp
  <2> QED
    BY <2>1, <2>2, <2>3
<1>6. CASE Read
  BY <1>6, AwaitRead
<1>7. CASE HostStep
  <2>1. UNCHANGED <<rpcVars, pos, phase>>
    BY <1>7, HostLeaves DEF pageVars
  <2> QED
    BY <2>1, AwaitStays
<1>8. CASE StartNotifier
  <2>1. UNCHANGED <<rpcVars, pos>> /\ phase' = "started"
    BY <1>8 DEF StartNotifier
  <2> QED
    BY <2>1, AwaitStays
<1>9. CASE Ask \/ CompleteAttach \/ Pump \/ PumpFails
  <2>1. UNCHANGED <<rpcVars, pos, phase>>
    BY <1>9 DEF Ask, CompleteAttach, Pump, PumpFails, pageVars, wakeVars
  <2> QED
    BY <2>1, AwaitStays
<1>10. CASE ObserverSettles \/ ObserverFails \/ HotPollEnds \/ Wake \/ Snapshot
  <2>1. UNCHANGED <<rpcVars, pos, phase>>
    BY <1>10 DEF ObserverSettles, ObserverFails, HotPollEnds, Wake, Snapshot, pageVars
  <2> QED
    BY <2>1, AwaitStays
<1>11. CASE ReadStatus
  <2>1. UNCHANGED <<rpcVars, pos, phase>>
    BY <1>11 DEF ReadStatus
  <2> QED
    BY <2>1, AwaitStays
<1>12. CASE UNCHANGED vars
  <2>1. UNCHANGED <<rpcVars, pos, phase>>
    BY <1>12 DEF vars, pageVars, wakeVars
  <2> QED
    BY <2>1, AwaitStays
<1> QED
  BY <1>1, <1>2, <1>3, <1>4, <1>5, <1>6, <1>7, <1>8, <1>9, <1>10, <1>11, <1>12 DEF Next

\* A request is settled by its own answer, although every client of a stream
\* numbers its requests alike, answers may come twice, in another order, under
\* another writer or after a timeout, and close, failure and takeover may come
\* at any time; but for requests made before the grant or outliving it, and for
\* the ids the predecessor had in a kind's hands when it was given
\* (RpcEndpoint.feed, #initAttach, handleRpc).
THEOREM AnswersAreOwn == Spec => []OwnAnswers
<1> DEFINE Inv == StreamTypes /\ ForeignInv /\ AwaitInv
<1>1. Init => Inv
  BY InitStream, InitForeign, InitAwait
<1>2. Inv /\ [Next]_vars => Inv'
  BY StreamStep, ForeignStep, AwaitStep
<1>3. Inv => OwnAnswers
  BY DEF AwaitInv
<1> QED
  BY <1>1, <1>2, <1>3, PTL DEF Spec

-----------------------------------------------------------------------------
(* Listing a set of places in order.  A place's rank is the number of      *)
(* members up to it; ranks are distinct, hence every one of them is taken. *)

Rank(D, i) == Cardinality({j \in D : j <= i})
Listing(D) == [k \in 1..Cardinality(D) |-> CHOOSE i \in D : Rank(D, i) = k]

\* A sequence lists a set in increasing order, each member once.
Lists(s, D) ==
  /\ s \in Seq(Nat)
  /\ \A i \in 1..Len(s) : s[i] \in D
  /\ \A i, j \in 1..Len(s) : i < j => s[i] < s[j]
  /\ \A d \in D : \E i \in 1..Len(s) : s[i] = d

LEMMA RankFacts ==
  ASSUME NEW D \in SUBSET Nat, IsFiniteSet(D)
  PROVE  /\ Cardinality(D) \in Nat
         /\ \A i \in D : Rank(D, i) \in 1..Cardinality(D)
         /\ \A i, j \in D : i < j => Rank(D, i) < Rank(D, j)
         /\ \A k \in 1..Cardinality(D) : \E i \in D : Rank(D, i) = k
<1> DEFINE upTo(i) == {j \in D : j <= i}
<1>1. Cardinality(D) \in Nat
  BY FS_CardinalityType
<1>2. ASSUME NEW i \in D
      PROVE  upTo(i) \in SUBSET D /\ IsFiniteSet(upTo(i)) /\ Cardinality(upTo(i)) \in Nat
             /\ Cardinality(upTo(i)) <= Cardinality(D) /\ i \in upTo(i)
  <2>1. upTo(i) \in SUBSET D /\ i \in upTo(i)
    OBVIOUS
  <2> HIDE DEF upTo
  <2> QED
    BY <2>1, FS_Subset, FS_CardinalityType
<1>3. ASSUME NEW i \in D PROVE Rank(D, i) = Cardinality(upTo(i))
  BY DEF Rank
<1>4. ASSUME NEW i \in D PROVE Rank(D, i) \in 1..Cardinality(D)
  <2>1. upTo(i) # {} /\ IsFiniteSet(upTo(i)) /\ Cardinality(upTo(i)) \in Nat
        /\ Cardinality(upTo(i)) <= Cardinality(D)
    BY <1>2
  <2> HIDE DEF upTo
  <2>2. Cardinality(upTo(i)) # 0
    BY <2>1, FS_EmptySet
  <2> QED
    BY <1>1, <1>3, <2>1, <2>2
<1>5. ASSUME NEW i \in D, NEW j \in D, i < j PROVE Rank(D, i) < Rank(D, j)
  <2>1. upTo(i) \in SUBSET upTo(j) /\ j \in upTo(j) /\ j \notin upTo(i)
    <3>1. \A l \in D : l \in Nat
      OBVIOUS
    <3>2. /\ \A l \in D : l <= i => l <= j
          /\ j <= j /\ ~(j <= i)
      BY <1>5, <3>1
    <3> QED
      BY <1>5, <3>2
  <2>2. IsFiniteSet(upTo(j)) /\ Cardinality(upTo(i)) \in Nat /\ Cardinality(upTo(j)) \in Nat
    BY <1>2
  <2> HIDE DEF upTo
  <2>3. /\ Cardinality(upTo(i)) <= Cardinality(upTo(j))
        /\ Cardinality(upTo(j)) = Cardinality(upTo(i)) => upTo(j) = upTo(i)
    BY <2>1, <2>2, FS_Subset
  <2> QED
    BY <1>3, <2>1, <2>2, <2>3
<1>6. ASSUME NEW k \in 1..Cardinality(D) PROVE \E i \in D : Rank(D, i) = k
  <2> DEFINE rank == [i \in D |-> Rank(D, i)]
             T == 1..Cardinality(D)
  <2>1. rank \in [D -> T]
    BY <1>4
  <2>2. \A i, j \in D : rank[i] = rank[j] => i = j
    <3> SUFFICES ASSUME NEW i \in D, NEW j \in D, Rank(D, i) = Rank(D, j) PROVE i = j
      OBVIOUS
    <3>1. Rank(D, i) \in Nat /\ Rank(D, j) \in Nat /\ i \in Nat /\ j \in Nat
      BY <1>1, <1>4
    <3>2. ~(i < j) /\ ~(j < i)
      BY <1>5, <3>1
    <3> QED
      BY <3>1, <3>2
  <2>3. IsFiniteSet(T) /\ Cardinality(T) = Cardinality(D)
    BY <1>1, FS_Interval
  <2> HIDE DEF rank, T
  <2>4. rank \in Injection(D, T)
    BY <2>1, <2>2, Fun_IsInj
  <2>5. rank \in Surjection(D, T)
    BY <2>3, <2>4, FS_Injection
  <2>6. \A t \in T : \E i \in D : rank[i] = t
    BY <2>5 DEF Surjection
  <2> QED
    BY <2>6 DEF rank, T
<1> QED
  BY <1>1, <1>4, <1>5, <1>6

LEMMA ListingLists == ASSUME NEW D \in SUBSET Nat, IsFiniteSet(D) PROVE Lists(Listing(D), D)
<1> DEFINE n == Cardinality(D)
           s == Listing(D)
<1>1. n \in Nat
  BY RankFacts
<1>2. \A k \in 1..n : s[k] \in D /\ Rank(D, s[k]) = k
  <2> SUFFICES ASSUME NEW k \in 1..n PROVE s[k] \in D /\ Rank(D, s[k]) = k
    OBVIOUS
  <2>1. \E i \in D : Rank(D, i) = k
    BY RankFacts
  <2>2. s[k] = CHOOSE i \in D : Rank(D, i) = k
    BY DEF Listing
  <2> HIDE DEF s, n
  <2> QED
    BY <2>1, <2>2
<1>3. s \in [1..n -> Nat]
  <2>1. \A k \in 1..n : s[k] \in Nat
    BY <1>2
  <2>2. s = [k \in 1..n |-> s[k]]
    BY DEF Listing
  <2> HIDE DEF s, n
  <2> QED
    BY <2>1, <2>2
<1>4. s \in Seq(Nat) /\ Len(s) = n
  <2> HIDE DEF s, n
  <2> QED
    BY <1>1, <1>3
<1>5. ASSUME NEW i \in 1..n, NEW j \in 1..n, i < j PROVE s[i] < s[j]
  <2>1. s[i] \in D /\ s[j] \in D /\ Rank(D, s[i]) = i /\ Rank(D, s[j]) = j
    BY <1>2
  <2> HIDE DEF s, n
  <2>2. i \in Nat /\ j \in Nat /\ i # j /\ ~(j < i)
    BY <1>1, <1>5
  <2>3. s[i] \in Nat /\ s[j] \in Nat /\ s[i] # s[j]
    BY <2>1, <2>2
  <2>4. ~(s[j] < s[i])
    <3>1. s[j] < s[i] => Rank(D, s[j]) < Rank(D, s[i])
      BY <2>1, RankFacts
    <3> QED
      BY <2>1, <2>2, <3>1
  <2> QED
    BY <2>3, <2>4
<1>6. ASSUME NEW d \in D PROVE \E i \in 1..n : s[i] = d
  <2>1. Rank(D, d) \in 1..n
    BY RankFacts
  <2>2. s[Rank(D, d)] \in D /\ Rank(D, s[Rank(D, d)]) = Rank(D, d)
    BY <1>2, <2>1
  <2> HIDE DEF s, n
  <2>3. s[Rank(D, d)] \in Nat /\ d \in Nat
    BY <2>2
  <2>4. ~(s[Rank(D, d)] < d) /\ ~(d < s[Rank(D, d)])
    <3>1. Rank(D, d) \in Nat /\ ~(Rank(D, d) < Rank(D, d))
      BY <1>1, <2>1
    <3>2. /\ s[Rank(D, d)] < d => Rank(D, s[Rank(D, d)]) < Rank(D, d)
          /\ d < s[Rank(D, d)] => Rank(D, d) < Rank(D, s[Rank(D, d)])
      BY <2>2, RankFacts
    <3> QED
      BY <2>2, <3>1, <3>2
  <2>5. s[Rank(D, d)] = d
    BY <2>3, <2>4
  <2> QED
    BY <2>1, <2>5
<1> HIDE DEF s, n
<1> QED
  BY <1>2, <1>4, <1>5, <1>6 DEF Lists, s

LEMMA ListsNothing == Lists(<<>>, {})
  BY NothingOf DEF Lists

\* What comes later is listed after it.
LEMMA ListsConcat ==
  ASSUME NEW s, NEW t, NEW D, NEW E, Lists(s, D), Lists(t, E), \A d \in D, e \in E : d < e
  PROVE  Lists(s \o t, D \cup E)
<1>1. s \in Seq(Nat) /\ t \in Seq(Nat) /\ Len(s) \in Nat /\ Len(t) \in Nat
  BY DEF Lists
<1>2. PICK u : u = s \o t
  OBVIOUS
<1>3. /\ u \in Seq(Nat) /\ Len(u) = Len(s) + Len(t)
      /\ \A i \in 1..Len(u) : u[i] = IF i <= Len(s) THEN s[i] ELSE t[i - Len(s)]
  BY <1>1, <1>2, ConcatProperties
<1>4. \A i \in 1..Len(u) : \/ i \in 1..Len(s) /\ u[i] = s[i]
                           \/ i > Len(s) /\ i - Len(s) \in 1..Len(t) /\ u[i] = t[i - Len(s)]
  BY <1>1, <1>3, SMTT(60)
<1>5. \A i \in 1..Len(u) : u[i] \in D \cup E
  BY <1>4 DEF Lists
<1>6. ASSUME NEW i \in 1..Len(u), NEW j \in 1..Len(u), i < j PROVE u[i] < u[j]
  <2>1. CASE j \in 1..Len(s) /\ u[j] = s[j]
    <3>1. i \in 1..Len(s) /\ u[i] = s[i]
      BY <1>1, <1>4, <1>6, <2>1
    <3> QED
      BY <1>6, <2>1, <3>1 DEF Lists
  <2>2. CASE j > Len(s) /\ j - Len(s) \in 1..Len(t) /\ u[j] = t[j - Len(s)]
    <3>1. CASE i \in 1..Len(s) /\ u[i] = s[i]
      BY <2>2, <3>1 DEF Lists
    <3>2. CASE i > Len(s) /\ i - Len(s) \in 1..Len(t) /\ u[i] = t[i - Len(s)]
      <4>1. i - Len(s) < j - Len(s)
        BY <1>1, <1>6
      <4> QED
        BY <2>2, <3>2, <4>1 DEF Lists
    <3> QED
      BY <1>4, <3>1, <3>2
  <2> QED
    BY <1>4, <2>1, <2>2
<1>7. ASSUME NEW d \in D PROVE \E i \in 1..Len(u) : u[i] = d
  <2>1. PICK i \in 1..Len(s) : s[i] = d
    BY DEF Lists
  <2>2. i \in 1..Len(u) /\ u[i] = s[i]
    BY <1>1, <1>3
  <2> QED
    BY <2>1, <2>2
<1>8. ASSUME NEW d \in E PROVE \E i \in 1..Len(u) : u[i] = d
  <2>1. PICK i \in 1..Len(t) : t[i] = d
    BY DEF Lists
  <2>2. /\ i + Len(s) \in 1..Len(u) /\ ~(i + Len(s) <= Len(s)) /\ (i + Len(s)) - Len(s) = i
    BY <1>1, <1>3
  <2>3. u[i + Len(s)] = t[i]
    BY <1>3, <2>2
  <2> QED
    BY <2>1, <2>2, <2>3
<1> QED
  BY <1>2, <1>3, <1>5, <1>6, <1>7, <1>8 DEF Lists

-----------------------------------------------------------------------------
(* What is shown.  It lists the DATA frames of one range of the stream,    *)
(* which ends where the reader is; while the attach is in flight, what is  *)
(* parked does, from the place where the attacher positioned itself.       *)

DataAt(first, last) == {i \in first..last : stream[i].kind = "data"}

ShownInv ==
  /\ head \in 0..pos
  /\ phase = "opening" => pos = 0 /\ shown = <<>> /\ held = <<>> /\ ~hold
  /\ hold => shown = <<>> /\ Lists(held, DataAt(head + 1, pos))
  /\ \E b \in 0..Len(stream) : \E a \in 1..(b + 1) :
       /\ Lists(shown, DataAt(a, b))
       /\ closing # "closed" /\ ~hold => b = pos

LEMMA ReadsInOrder ==
  ASSUME NEW first \in Nat, NEW last \in Nat, first > 0
  PROVE  Lists(DataIn(first, last), DataAt(first, last))
<1> DEFINE D == DataAt(first, last)
<1>1. D \in SUBSET Nat /\ D \in SUBSET (first..last)
  BY DEF DataAt
<1>2. IsFiniteSet(D)
  <2>1. IsFiniteSet(first..last)
    BY FS_Interval
  <2> QED
    BY <1>1, <2>1, FS_Subset
<1>3. DataIn(first, last) = Listing(D)
  BY DEF DataIn, Listing, Rank, DataAt
<1> HIDE DEF D
<1>4. Lists(Listing(D), D)
  BY <1>1, <1>2, ListingLists
<1> QED
  BY <1>3, <1>4 DEF D

LEMMA DataJoins ==
  ASSUME NEW a \in Nat, NEW b \in Nat, NEW c \in Nat, a <= b + 1, b <= c,
         NEW s, NEW t, Lists(s, DataAt(a, b)), Lists(t, DataAt(b + 1, c))
  PROVE  Lists(s \o t, DataAt(a, c))
<1>1. DataAt(a, c) = DataAt(a, b) \cup DataAt(b + 1, c)
  BY DEF DataAt
<1>2. \A d \in DataAt(a, b), e \in DataAt(b + 1, c) : d < e
  BY DEF DataAt
<1> QED
  BY <1>1, <1>2, ListsConcat

LEMMA NoData == ASSUME NEW b \in Nat PROVE DataAt(b + 1, b) = {}
  BY DEF DataAt

LEMMA InitShown == Init => ShownInv
<1> SUFFICES ASSUME Init PROVE ShownInv
  OBVIOUS
<1>1. shown = <<>> /\ Len(stream) = 0 /\ pos = 0 /\ head = 0 /\ ~hold /\ held = <<>>
  BY NothingOf DEF Init
<1>2. DataAt(1, 0) = {}
  BY NoData
<1>3. 0 \in 0..Len(stream) /\ 1 \in 1..(0 + 1)
  BY <1>1
<1> QED
  BY <1>1, <1>2, <1>3, ListsNothing DEF ShownInv

\* What the reader shows and parks, and the client's state around it.
Showing == <<phase, hold, held, head, closing, shown, pos>>

LEMMA ShownStays ==
  ASSUME ShownInv, UNCHANGED <<hold, held, head, shown, pos, stream>>,
         phase' = phase \/ phase' # "opening",
         closing' = closing \/ closing' = "closed" \/ closing = "open"
  PROVE  ShownInv'
<1>1. \A a, b : DataAt(a, b)' = DataAt(a, b)
  BY DEF DataAt
<1>2. closing' # "closed" => closing # "closed"
  OBVIOUS
<1> QED
  BY <1>1, <1>2 DEF ShownInv

\* The host appends: what is listed stays listed.
LEMMA ShownAppend == ASSUME StreamTypes, ShownInv, HostStep PROVE ShownInv'
<1>1. UNCHANGED Showing
  BY HostLeaves DEF pageVars, Showing
<1>2. /\ Len(stream) \in Nat /\ Len(stream') \in Nat /\ Len(stream) <= Len(stream')
      /\ \A i \in 1..Len(stream) : stream'[i] = stream[i]
  <2>1. CASE stream' = stream
    BY <2>1 DEF StreamTypes
  <2>2. ASSUME NEW f \in Frames, stream' = Append(stream, f)
        PROVE  /\ Len(stream) \in Nat /\ Len(stream') \in Nat /\ Len(stream) <= Len(stream')
               /\ \A i \in 1..Len(stream) : stream'[i] = stream[i]
    BY <2>2, AppendFacts DEF StreamTypes
  <2> QED
    BY <2>1, <2>2, AppendedFrame
<1>3. ASSUME NEW a \in Nat \ {0}, NEW b \in 0..Len(stream) PROVE DataAt(a, b)' = DataAt(a, b)
  BY <1>2 DEF DataAt
<1>4. pos \in 0..Len(stream) /\ head + 1 \in Nat \ {0}
  BY DEF StreamTypes, ShownInv
<1>5. hold => Lists(held, DataAt(head + 1, pos))'
  <2>1. DataAt(head + 1, pos)' = DataAt(head + 1, pos)
    <3>1. DataAt(head + 1, pos)' = {i \in (head + 1)..pos : stream'[i].kind = "data"}
      BY <1>1 DEF DataAt, Showing
    <3>2. \A i \in (head + 1)..pos : i \in 1..Len(stream)
      BY <1>2, <1>4
    <3> QED
      BY <1>2, <3>1, <3>2 DEF DataAt
  <2> QED
    BY <1>1, <2>1 DEF ShownInv, Showing
<1>6. PICK b \in 0..Len(stream) : \E a \in 1..(b + 1) :
        /\ Lists(shown, DataAt(a, b))
        /\ closing # "closed" /\ ~hold => b = pos
  BY DEF ShownInv
<1>7. PICK a \in 1..(b + 1) : Lists(shown, DataAt(a, b)) /\ (closing # "closed" /\ ~hold => b = pos)
  BY <1>6
<1>8. a \in Nat \ {0} /\ b \in 0..Len(stream')
  BY <1>2
<1>9. DataAt(a, b)' = DataAt(a, b)
  BY <1>3, <1>8
<1>10. Lists(shown', DataAt(a, b)')
  BY <1>1, <1>7, <1>9 DEF Showing
<1> QED
  BY <1>1, <1>5, <1>7, <1>8, <1>10 DEF ShownInv, Showing

\* An attacher positions itself at the head of the stream, where it starts to
\* park.
LEMMA ShownOpen == ASSUME StreamTypes, ShownInv, Open PROVE ShownInv'
<1>1. /\ phase = "opening" /\ phase' = "asking" /\ UNCHANGED <<held, closing, shown, stream>>
      /\ pos = 0 /\ shown = <<>> /\ held = <<>> /\ Len(stream) \in Nat /\ ~hold
  BY DEF Open, ShownInv, hostVars, StreamTypes
<1>2. CASE UNCHANGED <<head, pos, hold>>
  BY <1>1, <1>2, ShownStays
<1>3. CASE head' = Len(stream) /\ pos' = Len(stream) /\ hold'
  <2>1. DataAt(1, 0)' = {} /\ DataAt(head + 1, pos)' = {}
    BY <1>1, <1>3 DEF DataAt
  <2>2. 0 \in 0..Len(stream') /\ 1 \in 1..(0 + 1) /\ head' \in 0..pos'
    BY <1>1, <1>3
  <2> QED
    BY <1>1, <1>3, <2>1, <2>2, ListsNothing DEF ShownInv
<1> QED
  BY <1>2, <1>3 DEF Open

\* The history comes before what was parked.
LEMMA ShownComplete == ASSUME StreamTypes, ShownInv, CompleteAttach PROVE ShownInv'
<1>1. /\ hold /\ ~hold' /\ phase = "started" /\ phase' = "started"
      /\ UNCHANGED <<head, closing, pos, stream>>
  BY DEF CompleteAttach, wakeVars, hostVars
<1>2. /\ shown = <<>> /\ Lists(held, DataAt(head + 1, pos)) /\ head \in 0..pos /\ pos \in 0..Len(stream)
      /\ Len(stream) \in Nat /\ head \in Nat /\ pos \in Nat
  BY <1>1 DEF ShownInv, StreamTypes
<1>3. \A a, b : DataAt(a, b)' = DataAt(a, b)
  BY <1>1 DEF DataAt
<1>4. CASE closing = "closed"
  <2>1. shown' = <<>>
    BY <1>2, <1>4 DEF CompleteAttach
  <2>2. DataAt(1, 0)' = {} /\ 0 \in 0..Len(stream') /\ 1 \in 1..(0 + 1)
    BY <1>1, <1>2 DEF DataAt
  <2> QED
    BY <1>1, <1>2, <1>4, <2>1, <2>2, ListsNothing DEF ShownInv
<1>5. CASE closing # "closed"
  <2>1. PICK past \in {<<>>, DataIn(1, head)} : shown' = shown \o (past \o held)
    BY <1>5 DEF CompleteAttach, Released
  <2>2. held \in Seq(Nat) /\ Lists(DataIn(1, head), DataAt(1, head)) /\ DataIn(1, head) \in Seq(Nat)
    <3>1. 1 \in Nat /\ 1 > 0
      OBVIOUS
    <3>2. Lists(DataIn(1, head), DataAt(1, head))
      BY <1>2, <3>1, ReadsInOrder
    <3> QED
      BY <1>2, <3>2 DEF Lists
  <2>3. past \o held \in Seq(Nat) /\ shown' = past \o held
    <3>1. past \in Seq(Nat)
      BY <2>1, <2>2, NothingOf
    <3>2. past \o held \in Seq(Nat)
      BY <2>2, <3>1, ConcatProperties
    <3>3. <<>> \o (past \o held) = past \o held
      BY <3>2, ConcatEmptySeq
    <3> QED
      BY <1>2, <2>1, <3>2, <3>3
  <2>4. \E a \in 1..(pos + 1) : Lists(shown', DataAt(a, pos))
    <3>1. CASE past = <<>>
      <4>1. shown' = held /\ head + 1 \in 1..(pos + 1)
        BY <1>2, <2>2, <2>3, <3>1, ConcatEmptySeq
      <4> QED
        BY <1>2, <4>1
    <3>2. CASE past = DataIn(1, head)
      <4>1. 1 \in Nat /\ 1 <= head + 1 /\ head <= pos /\ 1 \in 1..(pos + 1)
        BY <1>2
      <4>2. Lists(past \o held, DataAt(1, pos))
        BY <1>2, <2>2, <3>2, <4>1, DataJoins
      <4> QED
        BY <2>3, <4>1, <4>2
    <3> QED
      BY <2>1, <3>1, <3>2
  <2>5. pos' \in 0..Len(stream') /\ pos' = pos /\ head' \in 0..pos'
    BY <1>1, <1>2
  <2> QED
    BY <1>1, <1>3, <2>4, <2>5 DEF ShownInv
<1> QED
  BY <1>4, <1>5

\* A read goes on where the last one stopped.
LEMMA ShownRead == ASSUME StreamTypes, ShownInv, Read PROVE ShownInv'
<1> DEFINE data == DataIn(pos + 1, snap)
<1>1. /\ reading = "read" /\ phase # "opening" /\ UNCHANGED <<phase, hold, head, closing, stream>>
      /\ pos \in 0..Len(stream) /\ snap \in 0..Len(stream) /\ pos <= snap /\ Len(stream) \in Nat
      /\ head \in 0..pos /\ pos \in Nat /\ snap \in Nat
  BY DEF Read, hostVars, StreamTypes, ShownInv
<1>2. CASE UNCHANGED <<pos, shown, held>>
  BY <1>1, <1>2, ShownStays
<1>3. CASE /\ pos' = snap
           /\ held' = IF hold THEN held \o data ELSE held
           /\ shown' = IF hold \/ closing = "closed" THEN shown ELSE shown \o data
  <2>1. Lists(data, DataAt(pos + 1, snap))
    BY <1>1, ReadsInOrder
  <2> HIDE DEF data
  <2>2. \A a, b : DataAt(a, b)' = DataAt(a, b)
    BY <1>1 DEF DataAt
  <2>3. hold => shown' = <<>> /\ Lists(held', DataAt(head + 1, snap))
    <3>1. head + 1 \in Nat /\ head + 1 <= pos + 1
      BY <1>1
    <3> QED
      BY <1>1, <1>3, <2>1, <3>1, DataJoins DEF ShownInv
  <2>4. PICK b \in 0..Len(stream) : \E a \in 1..(b + 1) :
          /\ Lists(shown, DataAt(a, b))
          /\ closing # "closed" /\ ~hold => b = pos
    BY DEF ShownInv
  <2>5. PICK a \in 1..(b + 1) : Lists(shown, DataAt(a, b)) /\ (closing # "closed" /\ ~hold => b = pos)
    BY <2>4
  <2>6. CASE hold \/ closing = "closed"
    BY <1>1, <1>3, <2>2, <2>3, <2>5, <2>6 DEF ShownInv
  <2>7. CASE ~hold /\ closing # "closed"
    <3>1. b = pos /\ a \in Nat /\ a <= pos + 1 /\ a \in 1..(snap + 1)
      BY <1>1, <2>5, <2>7
    <3>2. Lists(shown', DataAt(a, snap))
      BY <1>1, <1>3, <2>1, <2>5, <2>7, <3>1, DataJoins
    <3> QED
      BY <1>1, <1>3, <2>2, <2>7, <3>1, <3>2 DEF ShownInv
  <2> QED
    BY <2>6, <2>7
<1> QED
  BY <1>2, <1>3 DEF Read

LEMMA ShownStep == ASSUME StreamTypes, ShownInv, [Next]_vars PROVE ShownInv'
<1>1. CASE Open \/ CompleteAttach \/ HostStep \/ Read
  BY <1>1, ShownOpen, ShownComplete, ShownAppend, ShownRead
<1>2. CASE Ask \/ AskFails \/ StartNotifier
  BY <1>2, ShownStays DEF Ask, AskFails, StartNotifier, pageVars, wakeVars, hostVars
<1>3. CASE Request \/ (\E r \in Requests : Timeout(r)) \/ Pump \/ PumpFails
  BY <1>3, ShownStays DEF Request, Timeout, Pump, PumpFails, pageVars, wakeVars, hostVars
<1>4. CASE ObserverSettles \/ ObserverFails \/ HotPollEnds \/ Wake
  BY <1>4, ShownStays DEF ObserverSettles, ObserverFails, HotPollEnds, Wake, pageVars, hostVars
<1>5. CASE Snapshot \/ ReadStatus
  BY <1>5, ShownStays DEF Snapshot, ReadStatus, pageVars, hostVars
<1>6. CASE Close
  BY <1>6, ShownStays DEF Close, TornDown
<1>7. CASE Teardown
  BY <1>7, ShownStays DEF Teardown, TornDown
<1>8. CASE UNCHANGED vars
  BY <1>8, ShownStays DEF vars, pageVars, wakeVars, hostVars
<1> QED
  BY <1>1, <1>2, <1>3, <1>4, <1>5, <1>6, <1>7, <1>8 DEF Next

LEMMA ListedInOrder == ShownInv => ShownInOrder
<1> SUFFICES ASSUME ShownInv, NEW i \in 1..(Len(shown) - 1)
             PROVE  /\ shown[i] < shown[i + 1]
                    /\ \A j \in (shown[i] + 1)..(shown[i + 1] - 1) : stream[j].kind # "data"
  BY DEF ShownInOrder
<1>1. PICK b \in 0..Len(stream) : \E a \in 1..(b + 1) : Lists(shown, DataAt(a, b))
  BY DEF ShownInv
<1>2. PICK a \in 1..(b + 1) : Lists(shown, DataAt(a, b))
  BY <1>1
<1>3. Len(shown) \in Nat /\ i \in 1..Len(shown) /\ i + 1 \in 1..Len(shown)
  BY <1>2 DEF Lists
<1>4. shown[i] < shown[i + 1] /\ shown[i] \in a..b /\ shown[i + 1] \in a..b
  BY <1>2, <1>3 DEF Lists, DataAt
<1>5. ASSUME NEW j \in (shown[i] + 1)..(shown[i + 1] - 1), stream[j].kind = "data" PROVE FALSE
  <2>1. j \in DataAt(a, b) /\ shown[i] < j /\ j < shown[i + 1]
    BY <1>4, <1>5 DEF DataAt
  <2>2. PICK k \in 1..Len(shown) : shown[k] = j
    BY <1>2, <2>1 DEF Lists
  <2>3. CASE k <= i
    <3>1. k = i \/ shown[k] < shown[i]
      BY <1>2, <1>3, <2>3 DEF Lists
    <3> QED
      BY <1>4, <2>1, <2>2, <3>1
  <2>4. CASE k >= i + 1
    <3>1. k = i + 1 \/ shown[i + 1] < shown[k]
      BY <1>2, <1>3, <2>4 DEF Lists
    <3> QED
      BY <1>4, <2>1, <2>2, <3>1
  <2> QED
    BY <1>3, <2>3, <2>4
<1> QED
  BY <1>4, <1>5

\* An application sees the DATA of its session in stream order, each frame once
\* and none left out in between, however reads go stale, and though an attach
\* parks what arrives while the history is replayed (#drainSegment,
\* #completeAttach).
THEOREM DataIsShownInOrder == Spec => []ShownInOrder
<1>1. Init => StreamTypes /\ ShownInv
  BY InitStream, InitShown
<1>2. (StreamTypes /\ ShownInv) /\ [Next]_vars => (StreamTypes /\ ShownInv)'
  BY StreamStep, ShownStep
<1> QED
  BY <1>1, <1>2, ListedInOrder, PTL DEF Spec

=============================================================================
