--------------------------- MODULE ClientSession ---------------------------
(***************************************************************************)
(* One FsioSession, from its construction to its teardown                  *)
(* (packages/client/src/index.ts): how it is opened, by spawning or by     *)
(* attaching; what wakes its reader; its reader's loop; and the requests   *)
(* it correlates with answers on the stream (packages/common/src/rpc.ts).  *)
(* What makes it hard is that the observer may settle late or never, wakes *)
(* arrive while a drain runs, and the stream of an attached session also   *)
(* carries the answers to other clients' requests, under the same ids.     *)
(*                                                                         *)
(* The host and the other clients are the environment.  Chunks (Uplink),   *)
(* segments and acks (Downlink) and the grant (Takeover) have modules of   *)
(* their own: here a commit is one step and the stream one sequence.       *)
(***************************************************************************)
EXTENDS Integers, Sequences, FiniteSets

CONSTANTS
  Hows,         \* how the session may be opened: "spawn", "attach"
  Modes,        \* notifier modes: "adaptive", "hybrid", "poll", "observer"
  SafetyPoll,   \* whether safetyMs > 0, the safety poll's interval
  MaxRequests,  \* bound: requests this client makes
  MaxNoise      \* bound: DATA frames, answers to other clients' requests and
                \* answers given a second time, together

ASSUME OpeningAssumption ==
  /\ Hows \subseteq {"spawn", "attach"} /\ Modes \subseteq {"adaptive", "hybrid", "poll", "observer"}
  /\ SafetyPoll \in BOOLEAN
  \* Without the safety poll nothing looks while that observer starts; the
  \* mode is offered "for science".
  /\ "observer" \in Modes => SafetyPoll
ASSUME BoundsAssumption == MaxRequests \in Nat /\ MaxNoise \in Nat

Requests == 0..MaxRequests   \* 0 is the spawn or the attach request
Ids      == 0..MaxRequests
Nobody   == -1               \* as a request: another client's, or none

VARIABLES
  how,          \* "spawn" or "attach": fixed at construction
  \* FsioSession
  phase,        \* "opening", "asking", "started" or "failed"
  hold,         \* #hold is a list: attaching, live frames are parked
  held,         \* the frames in it
  head,         \* where the attacher positioned itself
  closing,      \* "open", "closing" or "closed"
  poisoned,     \* #pumpError
  queue,        \* requests waiting for the pump
  shown,        \* history: DATA frames emitted, by their place in the stream
  \* RpcEndpoint
  made,         \* requests made, from which _nextId follows
  awaits,       \* _pending: id -> the request awaiting it, or Nobody
  outcome,      \* request -> how its promise stands
  early,        \* history: requests made before the lane was open
  \* the notifier
  mode,         \* #mode, which may be downgraded
  observer,     \* "none", "starting", "fresh" or "adopted", "gone"
  timers,       \* which of "poll", "hot", "safety", "beat" are set
  event,        \* the platform owes the observer a callback
  reading,      \* #wake's loop: "no", "drain", "read" or "status"
  again,        \* #readAgain
  snap, pos,    \* length of the file snapshot; consumed so far
  tooSoon,      \* history: close() was called before the notifier was started
  \* the host and the other clients
  asked,        \* the bootstrap file is visible
  lane,         \* requests committed to this client's lane
  writer,       \* "me", or "other": whose requests the host takes
  stream,       \* the out stream
  taken,        \* requests a kind's method has been called with, unanswered
  lost,         \* history: requests the host died with
  leftOver      \* history: the ids others had in a kind's hands at the grant

pageVars == <<phase, hold, held, head, closing, poisoned, queue, shown>>
rpcVars  == <<made, awaits, outcome, early>>
wakeVars == <<mode, observer, timers, reading, again, snap, pos>>
kindVars == <<taken, lost, leftOver>>
hostVars == <<asked, lane, writer, stream, event, kindVars>>
fixed    == how
vars     == <<fixed, pageVars, rpcVars, wakeVars, hostVars, tooSoon>>

Answer(id, req) == [kind |-> "answer", id |-> id, to |-> req]
Datum           == [kind |-> "data", id |-> 0, to |-> Nobody]

Init ==
  /\ how \in Hows
  /\ phase = "opening" /\ hold = FALSE /\ held = <<>> /\ head = 0
  /\ closing = "open" /\ poisoned = FALSE /\ queue = <<>> /\ shown = <<>>
  /\ made = 0 /\ early = {}
  /\ awaits = [i \in Ids |-> IF i = 0 /\ how = "spawn" THEN 0 ELSE Nobody]
  /\ outcome = [r \in Requests |-> IF r = 0 THEN "pending" ELSE "unmade"]
  /\ mode \in Modes /\ observer = "none" /\ timers = {} /\ event = FALSE
  /\ reading = "no" /\ again = FALSE /\ snap = 0 /\ pos = 0
  /\ tooSoon = FALSE
  /\ asked = FALSE /\ lane = <<>>
  /\ writer = IF how = "spawn" THEN "me" ELSE "other"
  /\ stream = <<>>
  /\ taken = {} /\ lost = {} /\ leftOver = {}

-----------------------------------------------------------------------------
(* Opening *)

\* #uplinkReady: a spawned session sends once it is set up, an attached one
\* once its grant has been worked in.
UplinkReady == phase = "started" /\ ~(how = "attach" /\ (hold \/ outcome[0] # "own"))

\* #initAttach positions itself at the stream's head and starts to hold; the
\* expectation is registered before the request is written.
Open ==
  /\ phase = "opening"
  /\ phase' = "asking"
  /\ IF how = "attach"
     THEN /\ head' = Len(stream) /\ pos' = Len(stream)
          /\ hold' = TRUE
          /\ awaits' = [awaits EXCEPT ![0] = 0]
     ELSE UNCHANGED <<head, pos, hold, awaits>>
  /\ UNCHANGED <<fixed, held, closing, poisoned, queue, shown, made, outcome, early, mode,
                 observer, timers, reading, again, snap, hostVars, tooSoon>>

\* #commitBootstrap: the file lands ...
Ask ==
  /\ phase = "asking" /\ ~asked
  /\ asked' = TRUE
  /\ UNCHANGED <<fixed, pageVars, rpcVars, wakeVars, lane, writer, stream, event, kindVars, tooSoon>>

\* ... or every try fails: `ready` rejects, and with it the pump's gate.
AskFails ==
  /\ phase = "asking" /\ ~asked
  /\ phase' = "failed"
  /\ outcome' = [outcome EXCEPT ![0] = "failed"]
  /\ poisoned' = TRUE /\ queue' = <<>>
  /\ UNCHANGED <<fixed, hold, held, head, closing, shown, made, awaits, early, wakeVars,
                 hostVars, tooSoon>>

\* The timers and the observer that #startNotifier sets up for a mode.
TimersOf(m) ==
  (IF m \in {"poll", "hybrid"} THEN {"poll"} ELSE {})
    \cup (IF m = "adaptive" /\ closing # "closed" THEN {"hot"} ELSE {})
    \cup (IF SafetyPoll THEN {"safety"} ELSE {}) \cup {"beat"}

StartNotifier ==
  /\ phase = "asking" /\ asked
  /\ phase' = "started"
  /\ observer' = IF mode = "poll" THEN "none" ELSE "starting"
  /\ timers' = timers \cup TimersOf(mode)
  /\ UNCHANGED <<fixed, hold, held, head, closing, poisoned, queue, shown, rpcVars, mode,
                 reading, again, snap, pos, hostVars, tooSoon>>

\* Mutant: the frames parked during the hold come before the history.
Released_First(past) == held \o past
\* #completeAttach: first the replayed history, then what was parked.
Released(past) == past \o held

\* The places of DATA frames in a range of the stream, in order.
DataIn(first, last) ==
  LET D == {i \in first..last : stream[i].kind = "data"}
  IN  [k \in 1..Cardinality(D) |-> CHOOSE i \in D : Cardinality({j \in D : j <= i}) = k]

\* The grant has been read: the lane is known and the hold ends.  Replay is
\* the caller's choice, and given up when the segment cannot be read.
CompleteAttach ==
  /\ how = "attach" /\ hold /\ phase = "started" /\ outcome[0] = "own"
  /\ hold' = FALSE /\ held' = <<>>
  /\ \E past \in {<<>>, DataIn(1, head)} :
       shown' = IF closing = "closed" THEN shown ELSE shown \o Released(past)
  /\ UNCHANGED <<fixed, phase, head, closing, poisoned, queue, rpcVars, wakeVars, hostVars, tooSoon>>

-----------------------------------------------------------------------------
(* Requests *)

NextId == made + 1

\* request(): registered, then sent, which throws once the pump is poisoned;
\* sending also arms the adaptive hot poll.
Request ==
  /\ closing # "closed" /\ made < MaxRequests
  /\ made' = made + 1
  /\ early' = IF UplinkReady THEN early ELSE early \cup {made + 1}
  /\ IF poisoned
     THEN /\ outcome' = [outcome EXCEPT ![made + 1] = "failed"]
          /\ UNCHANGED <<awaits, queue, timers>>
     ELSE /\ outcome' = [outcome EXCEPT ![made + 1] = "pending"]
          /\ awaits' = [awaits EXCEPT ![NextId] = made + 1]
          /\ queue' = Append(queue, [id |-> NextId, req |-> made + 1])
          /\ timers' = IF mode = "adaptive" THEN timers \cup {"hot"} ELSE timers
  /\ UNCHANGED <<fixed, phase, hold, held, head, closing, poisoned, shown, mode, observer,
                 reading, again, snap, pos, hostVars, tooSoon>>

\* A request made with timeoutMs gives up.
Timeout(r) ==
  /\ r > 0 /\ outcome[r] = "pending"
  /\ outcome' = [outcome EXCEPT ![r] = "timedout"]
  /\ awaits' = [i \in Ids |-> IF awaits[i] = r THEN Nobody ELSE awaits[i]]
  /\ UNCHANGED <<fixed, pageVars, made, early, wakeVars, hostVars, tooSoon>>

\* The pump commits the whole queue, or fails for good.
Pump ==
  /\ UplinkReady /\ queue # <<>> /\ closing # "closed" /\ ~poisoned
  /\ lane' = lane \o queue /\ queue' = <<>>
  /\ UNCHANGED <<fixed, phase, hold, held, head, closing, poisoned, shown, rpcVars, wakeVars,
                 asked, writer, stream, event, kindVars, tooSoon>>

PumpFails ==
  /\ UplinkReady /\ queue # <<>> /\ closing # "closed" /\ ~poisoned
  /\ poisoned' = TRUE /\ queue' = <<>>
  /\ UNCHANGED <<fixed, phase, hold, held, head, closing, shown, rpcVars, wakeVars, hostVars, tooSoon>>

-----------------------------------------------------------------------------
(* The host and the other clients *)

\* Frames that are not the first answer to a request of this client, written
\* or still to come.
Noise ==
  Len(stream) - Cardinality({stream[i].to : i \in 1..Len(stream)} \ {Nobody})
    + Cardinality({t \in taken : t.to = Nobody})

Observing == observer \in {"fresh", "adopted"}

\* What the host writes to a client that has gone is of no interest here.
AppendFrame(f) ==
  /\ closing # "closed"
  /\ stream' = Append(stream, f)
  /\ event' = (event \/ Observing)
  /\ UNCHANGED <<fixed, pageVars, rpcVars, wakeVars, asked, tooSoon>>

\* The promises of a kind's methods die with their host.
Dies ==
  /\ taken' = {}
  /\ lost' = lost \cup ({t.to : t \in taken} \ {Nobody})
  /\ UNCHANGED leftOver

HostDies ==
  /\ taken # {}
  /\ Dies
  /\ UNCHANGED <<fixed, pageVars, rpcVars, wakeVars, asked, lane, writer, stream, event, tooSoon>>

\* The spawn or the attach is answered; a grant makes this client the writer.
BootAnswered == \E i \in 1..Len(stream) : stream[i] = Answer(0, 0)
AnswerBoot ==
  /\ asked /\ ~BootAnswered
  /\ AppendFrame(Answer(0, 0))
  /\ writer' = "me"
  /\ leftOver' = {t.id : t \in {u \in taken : u.to = Nobody}}
  /\ UNCHANGED <<lane, taken, lost>>

Granted == how = "spawn" \/ BootAnswered

\* A committed request for the host itself is answered as it is consumed; a
\* host that dies before it has deleted the chunk answers it again.
AnswerNext(deleted) ==
  /\ Granted /\ writer = "me" /\ lane # <<>>
  /\ AppendFrame(Answer(Head(lane).id, Head(lane).req))
  /\ deleted \/ Noise < MaxNoise
  /\ IF deleted THEN lane' = Tail(lane) /\ UNCHANGED kindVars
                ELSE Dies /\ UNCHANGED lane
  /\ UNCHANGED writer

\* One for a kind's method is consumed by calling it ...
Call(id, req) ==
  /\ closing # "closed"
  /\ taken' = taken \cup {[id |-> id, to |-> req]}
  /\ UNCHANGED <<fixed, pageVars, rpcVars, wakeVars, asked, writer, stream, event, lost, leftOver,
                 tooSoon>>
CallKind ==
  /\ Granted /\ writer = "me" /\ lane # <<>>
  /\ Call(Head(lane).id, Head(lane).req)
  /\ lane' = Tail(lane)

\* ... and answered when its promise settles: in any order, and whoever is
\* the writer by then.
KindAnswers ==
  \E t \in taken :
    /\ AppendFrame(Answer(t.id, t.to))
    /\ taken' = taken \ {t}
    /\ UNCHANGED <<lane, writer, lost, leftOver>>

\* A restarted host answers the spawn request again.
AnswerSpawnAgain ==
  /\ how = "spawn" /\ BootAnswered
  /\ Noise < MaxNoise
  /\ AppendFrame(Answer(0, 0))
  /\ Dies
  /\ UNCHANGED <<lane, writer>>

\* The predecessor's requests, until the grant, and the successor's after it
\* are consumed the same way and answered on the same stream.
AnswerOther(id) ==
  /\ writer = "other"
  /\ Noise < MaxNoise
  /\ AppendFrame(Answer(id, Nobody))
  /\ UNCHANGED <<lane, writer, kindVars>>
CallKindOther(id) ==
  /\ writer = "other"
  /\ Noise < MaxNoise
  /\ Call(id, Nobody)
  /\ UNCHANGED lane

Output ==
  /\ Noise < MaxNoise
  /\ AppendFrame(Datum)
  /\ UNCHANGED <<lane, writer, kindVars>>

\* Another client is granted: this one's lane is no longer read.
Supersede ==
  /\ writer = "me" /\ BootAnswered /\ closing # "closed"
  /\ writer' = "other"
  /\ event' = (event \/ Observing)
  /\ UNCHANGED <<fixed, pageVars, rpcVars, wakeVars, asked, lane, stream, kindVars, tooSoon>>

Superseded == writer = "other" /\ Granted

-----------------------------------------------------------------------------
(* The notifier *)

\* Mutant: an observer that settles is adopted also after the teardown.
Adopts_Always == TRUE
Adopts == closing # "closed"

\* #attachObserver's promise settles ...
ObserverSettles ==
  /\ observer = "starting"
  /\ observer' = IF Adopts THEN "fresh" ELSE "gone"
  /\ UNCHANGED <<fixed, pageVars, rpcVars, mode, timers, reading, again, snap, pos, hostVars, tooSoon>>

\* ... rejects, or is given up on and disconnected if it settles after all:
\* #observerFailed.
ObserverFails ==
  /\ observer = "starting"
  /\ observer' = "gone"
  /\ IF closing = "closed" THEN UNCHANGED <<mode, timers>>
     ELSE mode' = "poll" /\ timers' = timers \cup {"poll"}
  /\ UNCHANGED <<fixed, pageVars, rpcVars, reading, again, snap, pos, hostVars, tooSoon>>

\* Two seconds without activity end the hot poll.  Starting the notifier
\* counts as activity and an observer is given up on within two seconds
\* (OBSERVE_SETTLE_MS), so the hot poll outlives the observer's start and ticks
\* (every pollMs) after it, unless the observer takes that long to the tick.
HotPollEnds ==
  /\ "hot" \in timers
  /\ observer \notin {"starting", "fresh"}
  /\ timers' = timers \ {"hot"}
  /\ UNCHANGED <<fixed, pageVars, rpcVars, mode, observer, reading, again, snap, pos, hostVars, tooSoon>>

\* Mutant: a wake while the reader is busy is forgotten.
WakeBusy_Dropped == again
WakeBusy == TRUE

\* #wake, from the observer's callback or a timer.
Wake ==
  /\ \/ event
     \/ phase = "started" /\ timers \cap {"poll", "hot", "safety"} # {}
  /\ event' = FALSE
  /\ observer' = IF observer = "fresh" THEN "adopted" ELSE observer
  /\ IF reading = "no" THEN reading' = "drain" /\ again' = FALSE
                       ELSE again' = WakeBusy /\ reading' = reading
  /\ UNCHANGED <<fixed, pageVars, rpcVars, mode, timers, snap, pos,
                 asked, lane, writer, stream, kindVars, tooSoon>>

-----------------------------------------------------------------------------
(* The reader *)

\* #drainSegment takes a snapshot of the file ...
Snapshot ==
  /\ reading = "drain"
  /\ snap' = Len(stream)
  /\ reading' = "read"
  /\ UNCHANGED <<fixed, pageVars, rpcVars, mode, observer, timers, again, pos, hostVars, tooSoon>>

\* Mutant: answers are taken in order, not by id.
AnswersTo_Any(id, first, last) == {i \in first..last : stream[i].kind = "answer"}
\* The answers under an id in a range of the stream, whoever they were meant
\* for: the first of them settles what awaits the id.
AnswersTo(id, first, last) ==
  {i \in first..last : stream[i].kind = "answer" /\ stream[i].id = id}
SettledBy(id, first, last) ==
  LET hits == AnswersTo(id, first, last)
  IN  IF awaits[id] = Nobody \/ hits = {} THEN 0
      ELSE CHOOSE i \in hits : \A j \in hits : i <= j

\* ... and reads it, unless it went stale because the host appended (F11).
\* Answers settle what awaits them; DATA is emitted, or parked.
Read ==
  /\ reading = "read"
  /\ reading' = "status"
  /\ \/ /\ snap # Len(stream)
        /\ UNCHANGED <<pos, awaits, outcome, shown, held, timers>>
     \/ LET by == [i \in Ids |-> SettledBy(i, pos + 1, snap)]
            data == DataIn(pos + 1, snap)
        IN /\ pos' = snap
           /\ awaits' = [i \in Ids |-> IF by[i] > 0 THEN Nobody ELSE awaits[i]]
           /\ outcome' = [r \in Requests |->
                IF \E i \in Ids : by[i] > 0 /\ awaits[i] = r
                THEN LET i == CHOOSE i \in Ids : by[i] > 0 /\ awaits[i] = r
                     IN  IF stream[by[i]].to = r THEN "own" ELSE "foreign"
                ELSE outcome[r]]
           /\ held' = IF hold THEN held \o data ELSE held
           /\ shown' = IF hold \/ closing = "closed" THEN shown ELSE shown \o data
           /\ timers' = IF snap > pos /\ mode = "adaptive" /\ closing # "closed"
                        THEN timers \cup {"hot"} ELSE timers
  /\ UNCHANGED <<fixed, phase, hold, head, closing, poisoned, queue, made, early, mode, observer,
                 again, snap, hostVars, tooSoon>>

\* #checkStatus fences a superseded writer, not while it is attaching; then
\* the loop turns once more if there was a wake meanwhile.
ReadStatus ==
  /\ reading = "status"
  /\ IF Superseded /\ ~hold /\ ~poisoned
     THEN poisoned' = TRUE /\ queue' = <<>> /\ timers' = timers \ {"beat"}
     ELSE UNCHANGED <<poisoned, queue, timers>>
  /\ reading' = IF again THEN "drain" ELSE "no"
  /\ again' = FALSE
  /\ UNCHANGED <<fixed, phase, hold, held, head, closing, shown, rpcVars, mode, observer, snap,
                 pos, hostVars, tooSoon>>

-----------------------------------------------------------------------------
(* Closing *)

\* Mutant: what is in flight is left to itself.
Rejected_None == outcome
\* failAll: every pending request is rejected.
Rejected == [r \in Requests |-> IF \E i \in Ids : awaits[i] = r THEN "failed" ELSE outcome[r]]

\* The end of #teardown: everything pending is rejected and every wake source
\* of the notifier released.
TornDown ==
  /\ closing' = "closed"
  /\ outcome' = Rejected
  /\ awaits' = [i \in Ids |-> Nobody]
  /\ observer' = IF Observing THEN "gone" ELSE observer
  /\ event' = (event /\ ~Observing)

\* close() and detach(): no more beats; the notification itself is a chunk
\* like any other (Uplink).  With an attach in flight there is no lane to
\* wait for.
Close ==
  /\ closing = "open"
  /\ tooSoon' = (phase \in {"opening", "asking"})
  /\ IF hold
     THEN TornDown /\ timers' = {}
     ELSE /\ closing' = "closing" /\ timers' = timers \ {"beat"}
          /\ UNCHANGED <<outcome, awaits, observer, event>>
  /\ UNCHANGED <<fixed, phase, hold, held, head, poisoned, queue, shown, made, early, mode,
                 reading, again, snap, pos, asked, lane, writer, stream, kindVars>>

\* Otherwise #teardown waits for the pump, which waits for the lane.
Teardown ==
  /\ closing = "closing"
  /\ poisoned \/ (UplinkReady /\ queue = <<>>)
  /\ TornDown /\ timers' = timers \cap {"beat"}
  /\ UNCHANGED <<fixed, phase, hold, held, head, poisoned, queue, shown, made, early, mode,
                 reading, again, snap, pos, asked, lane, writer, stream, kindVars, tooSoon>>

-----------------------------------------------------------------------------
HostStep ==
  \/ AnswerBoot \/ AnswerSpawnAgain \/ Output \/ Supersede \/ HostDies
  \/ \E deleted \in BOOLEAN : AnswerNext(deleted)
  \/ CallKind \/ KindAnswers
  \/ \E id \in 1..MaxRequests : AnswerOther(id) \/ CallKindOther(id)

Next ==
  \/ Open \/ Ask \/ AskFails \/ StartNotifier \/ CompleteAttach
  \/ Request \/ (\E r \in Requests : Timeout(r)) \/ Pump \/ PumpFails
  \/ HostStep
  \/ ObserverSettles \/ ObserverFails \/ HotPollEnds
  \/ Wake \/ Snapshot \/ Read \/ ReadStatus
  \/ Close \/ Teardown

Spec == Init /\ [][Next]_vars

\* Promises of the file system settle, timers fire, the platform reports what
\* it observes, the host serves the lane it reads, and a kind's methods return.
\* A read does not go stale for ever: that takes an append each time.
FairSpec ==
  /\ Spec
  /\ WF_vars(Open \/ Ask \/ AskFails \/ StartNotifier \/ CompleteAttach)
  /\ WF_vars(Pump \/ PumpFails)
  /\ WF_vars(AnswerBoot \/ AnswerNext(TRUE) \/ CallKind) /\ WF_vars(KindAnswers)
  /\ WF_vars(ObserverSettles \/ ObserverFails)
  /\ WF_vars(Wake) /\ WF_vars(Snapshot \/ Read \/ ReadStatus)
  /\ WF_vars(Teardown)

-----------------------------------------------------------------------------
(* Properties *)

\* What the host has written is never left unread with nothing to look at it:
\* a wake that met a busy reader, an observer that settled late or never, and
\* a hot poll that ended all leave somebody who will.
NobodyAsleep ==
  phase = "started" /\ closing # "closed" /\ pos < Len(stream) =>
    \/ event \/ timers \cap {"poll", "hot", "safety"} # {}
    \/ reading = "drain" \/ (reading # "no" /\ again)
    \/ reading = "read" /\ snap = Len(stream)

\* A request is settled by its own answer only, although ids are reused by
\* every client of the stream and answers may come twice, after a timeout, in
\* another order or under another writer: unless it was made before the grant,
\* outlived this client's own turn as the writer, or has the id (a request's
\* number is its id) of a request the predecessor had in a kind's hands when
\* the grant was given.
OwnAnswers ==
  \A r \in Requests : outcome[r] = "foreign" => r \in early \cup leftOver \/ Superseded

\* A torn-down client has stopped: no timer of it fires again and no observer
\* stays connected, also when it settles after the teardown.
ClosedIsQuiet ==
  closing = "closed" /\ phase = "started" /\ ~tooSoon => timers = {} /\ ~Observing

\* DATA is emitted in stream order, each frame once and none left out between:
\* the replayed history of an attached session precedes its live output.
ShownInOrder ==
  \A i \in 1..(Len(shown) - 1) :
    /\ shown[i] < shown[i + 1]
    /\ \A j \in (shown[i] + 1)..(shown[i + 1] - 1) : stream[j].kind # "data"

\* Every request settles, by an answer or an error, unless sending failed,
\* another client took over or the host died with it in a kind's hands;
\* closing settles what is left.
RequestsSettle ==
  \A r \in Requests :
    (outcome[r] = "pending")
      ~> (outcome[r] # "pending" \/ (closing # "closed" /\ (poisoned \/ Superseded \/ r \in lost)))
=============================================================================
