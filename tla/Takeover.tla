------------------------------ MODULE Takeover ------------------------------
(***************************************************************************)
(* Attach is takeover (spec/DECISIONS.md D18).  A client asks in a file of *)
(* its own, attach.<aid>.json; HostServer.processAttach and decideAttach   *)
(* consult the policy, which may take its time, and a grant bumps the      *)
(* session's writer epoch: the uplink moves to in.<epoch>/ and status.json *)
(* names the new writer, which is how a superseded client learns that it   *)
(* must stop (packages/host/src/host-server.ts, packages/client/src/       *)
(* index.ts).                                                              *)
(*                                                                         *)
(* The uplink lanes and the answer stream are taken here as the FIFO       *)
(* channels that Uplink and Downlink describe.  The session is of a        *)
(* registered kind, whose handler runs between the policy's verdict and    *)
(* the first status record; a shell passes through the same states faster. *)
(***************************************************************************)
EXTENDS Integers, Sequences, FiniteSets

CONSTANTS
  Clients,        \* the pages that may write to the session
  Spawner,        \* the one that created it
  Outcomes,       \* what a bootstrap commit may do: "ok", "landed", "failed"
  MaxTries,       \* COMMIT_RETRY_MS.length + 1 tries for one request
  PolicyInOrder,  \* verdicts arrive in the order they were asked for
  MaxChunks,      \* bound: chunks committed by all clients
  MaxRestarts,    \* bound: host restarts
  MayExit,        \* the kind may report its exit
  MayClose        \* a writer may close the session

ASSUME ClientsAssumption == Spawner \in Clients /\ IsFiniteSet(Clients)
ASSUME OutcomesAssumption == Outcomes \subseteq {"ok", "landed", "failed"} /\ Outcomes # {}
ASSUME BoundsAssumption ==
  MaxTries \in Nat \ {0} /\ MaxChunks \in Nat /\ MaxRestarts \in Nat
ASSUME SwitchAssumption ==
  PolicyInOrder \in BOOLEAN /\ MayExit \in BOOLEAN /\ MayClose \in BOOLEAN

\* Every try of every client has an aid of its own.
Aids == Clients \X (1..MaxTries)
Epochs == 0..Cardinality(Aids)

VARIABLES
  \* the host's Session
  host,        \* "adopted", "deciding", "approved", "running", "exited", "done"
  epoch,       \* the writer epoch it consumes from
  deciding,    \* attach requests whose policy verdict is pending
  \* the session's directory
  requests,    \* attach.<aid>.json files
  lanes,       \* epoch -> chunks in in/ or in.<epoch>/, oldest first
  status,      \* status.json: the state and the writer's epoch (0: no record)
  answers,     \* attach answers on the out stream; epoch 0 is a refusal
  \* the clients
  st,          \* "off", "asking", "waiting", "granted", "writer" or "failed"
  tries,       \* attach requests attempted so far; the last is awaited
  heard,       \* answers read
  mine,        \* the epoch the client writes under
  seen,        \* the status record last read
  fenced,      \* superseded: sends fail
  inFlight,    \* the chunk being committed: "none", "data" or "close"
  \* history, read by properties only
  wrote,       \* <<client, epoch>> for every chunk ever committed
  consumed,    \* epochs of consumed chunks, in order
  chunks, restarts

hostVars    == <<host, epoch, deciding>>
dirVars     == <<requests, lanes, status, answers>>
clientVars  == <<st, tries, heard, mine, seen, fenced, inFlight>>
historyVars == <<wrote, consumed, chunks, restarts>>
vars        == <<hostVars, dirVars, clientVars, historyVars>>

NoStatus == [state |-> "none", writer |-> 0]

Init ==
  /\ host = "adopted" /\ epoch = 0 /\ deciding = <<>>
  /\ requests = {} /\ lanes = [e \in Epochs |-> <<>>]
  /\ status = NoStatus /\ answers = <<>>
  /\ st = [c \in Clients |-> IF c = Spawner THEN "writer" ELSE "off"]
  /\ tries = [c \in Clients |-> 0] /\ heard = [c \in Clients |-> 0]
  /\ mine = [c \in Clients |-> 0] /\ seen = [c \in Clients |-> NoStatus]
  /\ fenced = [c \in Clients |-> FALSE]
  /\ inFlight = [c \in Clients |-> "none"]
  /\ wrote = {} /\ consumed = <<>> /\ chunks = 0 /\ restarts = 0

-----------------------------------------------------------------------------
(* The clients *)

\* A retry carries a fresh aid: a same-aid retry of a request that landed
\* would be granted twice.
AidOf(c, k) == <<c, k>>
Awaited(c) == AidOf(c, tries[c])

\* #initAttach commits its request, and tries again with a fresh aid if the
\* browser reports a failure, whether or not the file is there.
Ask(c) ==
  /\ st[c] \in {"off", "asking"} /\ c # Spawner
  /\ tries[c] < MaxTries
  /\ tries' = [tries EXCEPT ![c] = @ + 1]
  /\ \E o \in Outcomes :
       /\ requests' = IF o = "failed" THEN requests ELSE requests \cup {AidOf(c, tries[c] + 1)}
       /\ st' = [st EXCEPT ![c] = IF o = "ok" THEN "waiting"
                                  ELSE IF tries[c] + 1 < MaxTries THEN "asking" ELSE "failed"]
  /\ UNCHANGED <<heard, mine, seen, fenced, inFlight, lanes, status, answers, hostVars, historyVars>>

\* An answer is correlated by its aid; one to an abandoned try settles an
\* expectation nobody awaits.
Hear(c) ==
  /\ st[c] = "waiting"
  /\ heard[c] < Len(answers)
  /\ heard' = [heard EXCEPT ![c] = @ + 1]
  /\ LET a == answers[heard[c] + 1]
     IN IF a.aid # Awaited(c) THEN UNCHANGED <<st, mine>>
        ELSE IF a.epoch = 0 THEN st' = [st EXCEPT ![c] = "failed"] /\ UNCHANGED mine
        ELSE st' = [st EXCEPT ![c] = "granted"] /\ mine' = [mine EXCEPT ![c] = a.epoch]
  /\ UNCHANGED <<tries, seen, fenced, inFlight, dirVars, hostVars, historyVars>>

\* #maybeFence: the record names a higher epoch than ours.
Supersedes(record, c) == record.writer > mine[c]

\* Mutant: a record read under the hold is left for the next status poll,
\* which will not show it again.
Complete_Unjudged(c) ==
  /\ st[c] = "granted"
  /\ st' = [st EXCEPT ![c] = "writer"]
  /\ UNCHANGED <<tries, heard, mine, seen, fenced, inFlight, dirVars, hostVars, historyVars>>

\* #completeAttach: the lane exists, history is replayed, the hold is lifted,
\* and a record seen while it lasted is judged now.
Complete(c) ==
  /\ st[c] = "granted"
  /\ st' = [st EXCEPT ![c] = "writer"]
  /\ fenced' = [fenced EXCEPT ![c] = Supersedes(seen[c], c)]
  /\ UNCHANGED <<tries, heard, mine, seen, inFlight, dirVars, hostVars, historyVars>>

\* Mutant: a record read while the attach is in flight is judged at once.
Judges_Always(c) == TRUE
\* The fence is held while an attach is in flight.
Judges(c) == st[c] = "writer"

\* #checkStatus: only a record that differs from the last one is looked at.
ReadStatus(c) ==
  /\ st[c] \in {"waiting", "granted", "writer"}
  /\ status # seen[c]
  /\ seen' = [seen EXCEPT ![c] = status]
  /\ fenced' = [fenced EXCEPT ![c] = @ \/ (Judges(c) /\ Supersedes(status, c))]
  /\ UNCHANGED <<st, tries, heard, mine, inFlight, dirVars, hostVars, historyVars>>

\* The pump takes its queue for the next chunk, unless it is fenced.
Pump(c, what) ==
  /\ st[c] = "writer" /\ ~fenced[c] /\ inFlight[c] = "none"
  /\ chunks < MaxChunks
  /\ what = "close" => MayClose
  /\ inFlight' = [inFlight EXCEPT ![c] = what]
  /\ chunks' = chunks + 1
  /\ UNCHANGED <<st, tries, heard, mine, seen, fenced, dirVars, hostVars, wrote, consumed, restarts>>

\* The commit lands in the client's own lane, even if the fence came down
\* since; after its close notification the client is gone.
Land(c) ==
  /\ inFlight[c] # "none"
  /\ lanes' = [lanes EXCEPT ![mine[c]] = Append(@, inFlight[c])]
  /\ st' = [st EXCEPT ![c] = IF inFlight[c] = "close" THEN "failed" ELSE @]
  /\ inFlight' = [inFlight EXCEPT ![c] = "none"]
  /\ wrote' = wrote \cup {<<c, mine[c]>>}
  /\ UNCHANGED <<tries, heard, mine, seen, fenced, requests, status, answers, hostVars, consumed, chunks, restarts>>

-----------------------------------------------------------------------------
(* The host *)

\* Mutant: the epoch is not taken from the durable record.
Restored_Zero == 0
\* The epoch to resume: that of the writer record, if status.json has one.
Restored == status.writer

\* tryStart, when spawn.json is there (it always is, here).
TryStart ==
  /\ host = "adopted"
  /\ host' = "deciding"
  /\ epoch' = Restored
  /\ UNCHANGED <<deciding, dirVars, clientVars, historyVars>>

\* decideAndStart: the spawn policy's verdict, or its verdict once more.
Approve ==
  /\ host = "deciding"
  /\ host' = "approved"
  /\ UNCHANGED <<epoch, deciding, dirVars, clientVars, historyVars>>

\* startKind: the handler is up and the status record is written anew.
Start ==
  /\ host = "approved"
  /\ host' = "running"
  /\ status' = [state |-> "running", writer |-> 0]
  /\ UNCHANGED <<epoch, deciding, requests, lanes, answers, clientVars, historyVars>>

Exit ==
  /\ MayExit
  /\ host = "running"
  /\ host' = "exited"
  /\ status' = [state |-> "exited", writer |-> 0]
  /\ UNCHANGED <<epoch, deciding, requests, lanes, answers, clientVars, historyVars>>

\* processAttach: the request is deleted before it is decided.  Names are
\* taken in order, and the aids of one client's tries are ordered in time.
TakeRequest(aid) ==
  /\ aid \in requests
  /\ \A other \in requests : other[1] = aid[1] => other[2] >= aid[2]
  /\ host \in {"approved", "running", "exited"}
  /\ requests' = requests \ {aid}
  /\ IF host = "running"
     THEN /\ deciding' = Append(deciding, aid)
          /\ UNCHANGED answers
     ELSE /\ answers' = Append(answers, [aid |-> aid, epoch |-> 0])
          /\ UNCHANGED deciding
  /\ UNCHANGED <<host, epoch, lanes, status, clientVars, historyVars>>

Without(q, i) == SubSeq(q, 1, i - 1) \o SubSeq(q, i + 1, Len(q))

\* The policy settles on the i-th pending request.
Settles(i) ==
  /\ i \in 1..Len(deciding)
  /\ PolicyInOrder => i = 1
  /\ deciding' = Without(deciding, i)

\* Mutant: an attach overtaken by the exit is dropped without an answer.
Refuse_Silent(i) ==
  /\ Settles(i)
  /\ answers' = IF host \in {"done", "exited"} THEN answers
                ELSE Append(answers, [aid |-> deciding[i], epoch |-> 0])
  /\ UNCHANGED <<host, epoch, requests, lanes, status, clientVars, historyVars>>

\* decideAttach after its await: a closed session answers nobody, an exited
\* one refuses.
Refuse(i) ==
  /\ Settles(i)
  /\ answers' = IF host = "done" THEN answers ELSE Append(answers, [aid |-> deciding[i], epoch |-> 0])
  /\ UNCHANGED <<host, epoch, requests, lanes, status, clientVars, historyVars>>

NextEpoch == epoch + 1

\* decideAttach's grant: bump, open the lane, record the writer, answer.
Grant(i) ==
  /\ host \notin {"done", "exited"}
  /\ Settles(i)
  /\ epoch' = NextEpoch
  /\ status' = [status EXCEPT !.writer = NextEpoch]
  /\ answers' = Append(answers, [aid |-> deciding[i], epoch |-> NextEpoch])
  /\ UNCHANGED <<host, requests, lanes, clientVars, historyVars>>

\* Mutant: whichever lane has chunks is consumed.
ConsumedFrom_Any(e) == TRUE
\* Mutant: the host goes on reading the first writer's lane.
ConsumedFrom_First(e) == e = 0
\* Only the current epoch's lane is.
ConsumedFrom(e) == e = epoch

\* processIncoming, one chunk; a close notification ends the session.
Consume(e) ==
  /\ host \in {"approved", "running", "exited"}
  /\ ConsumedFrom(e)
  /\ lanes[e] # <<>>
  /\ lanes' = [lanes EXCEPT ![e] = Tail(@)]
  /\ consumed' = Append(consumed, e)
  /\ IF Head(lanes[e]) = "close"
     THEN host' = "done" /\ status' = [state |-> "exited", writer |-> 0]
     ELSE UNCHANGED <<host, status>>
  /\ UNCHANGED <<epoch, deciding, requests, answers, clientVars, wrote, chunks, restarts>>

\* The host dies; the next one adopts what the directory holds.  An exited
\* session is only kept until it is removed.
Restart ==
  /\ restarts < MaxRestarts
  /\ restarts' = restarts + 1
  /\ host' = IF status.state = "exited" THEN "done" ELSE "adopted"
  /\ epoch' = 0
  /\ deciding' = <<>>
  /\ UNCHANGED <<dirVars, clientVars, wrote, consumed, chunks>>

-----------------------------------------------------------------------------
Decide == \E i \in 1..Cardinality(Aids) : Grant(i) \/ Refuse(i)
ClientRead(c) == Hear(c) \/ Complete(c)

Next ==
  \/ \E c \in Clients : \/ Ask(c) \/ Hear(c) \/ Complete(c) \/ ReadStatus(c)
                        \/ Land(c) \/ \E what \in {"data", "close"} : Pump(c, what)
  \/ TryStart \/ Approve \/ Start \/ Exit
  \/ \E aid \in Aids : TakeRequest(aid)
  \/ Decide
  \/ \E e \in Epochs : Consume(e)
  \/ Restart

Spec == Init /\ [][Next]_vars

\* Safety polls keep both sides looking at their files, and every policy
\* settles in the end.
FairSpec ==
  /\ Spec
  /\ WF_vars(TryStart) /\ WF_vars(Approve) /\ WF_vars(Start)
  /\ WF_vars(Decide) /\ WF_vars(\E aid \in Aids : TakeRequest(aid))
  /\ WF_vars(\E e \in Epochs : Consume(e))
  /\ \A c \in Clients : WF_vars(ClientRead(c)) /\ WF_vars(ReadStatus(c))

-----------------------------------------------------------------------------
(* Properties *)

TypeOK ==
  /\ host \in {"adopted", "deciding", "approved", "running", "exited", "done"}
  /\ epoch \in Epochs
  /\ deciding \in Seq(Aids) /\ requests \subseteq Aids
  /\ lanes \in [Epochs -> Seq({"data", "close"})]
  /\ status \in [state : {"none", "running", "exited"}, writer : Epochs]
  /\ answers \in Seq([aid : Aids, epoch : Epochs])
  /\ st \in [Clients -> {"off", "asking", "waiting", "granted", "writer", "failed"}]
  /\ tries \in [Clients -> 0..MaxTries] /\ heard \in [Clients -> Nat]
  /\ mine \in [Clients -> Epochs]
  /\ seen \in [Clients -> [state : {"none", "running", "exited"}, writer : Epochs]]
  /\ fenced \in [Clients -> BOOLEAN]
  /\ inFlight \in [Clients -> {"none", "data", "close"}]
  /\ wrote \subseteq Clients \X Epochs /\ consumed \in Seq(Epochs)
  /\ chunks \in Nat /\ restarts \in Nat

Granted == {answers[i] : i \in {j \in 1..Len(answers) : answers[j].epoch > 0}}

\* Each grant opens a lane of its own, and a lane has one writer (invariant 4,
\* F8): no two clients ever commit to the same lane, whatever overlaps with
\* the takeover.
LanesAreOwned ==
  /\ \A i, j \in 1..Len(answers) :
       answers[i].epoch > 0 /\ answers[i].epoch = answers[j].epoch => i = j
  /\ \A x, y \in wrote : x[2] = y[2] => x[1] = y[1]

\* A client is fenced only by a grant to somebody else.
FencedByAnother ==
  \A c \in Clients :
    fenced[c] => \E g \in Granted : g.epoch > mine[c] /\ g.aid[1] # c

\* A restarted host resumes the current writer's lane: once a session has
\* been started, its epoch is that of the last grant.
EpochIsDurable ==
  host \in {"deciding", "approved", "running"} => \A g \in Granted : g.epoch <= epoch

\* Input of a superseded writer is never acted on after input of its
\* successor, however many chunks it left behind.
NoStaleInput ==
  \A i \in 1..Len(consumed) : \A j \in 1..i : consumed[j] <= consumed[i]

\* A superseded client learns of it, so that its user does not type into a
\* lane nobody reads, unless the session ends first.
SupersededIsFenced ==
  \A c \in Clients :
    (st[c] = "writer" /\ mine[c] < epoch)
      ~> (fenced[c] \/ st[c] # "writer" \/ host \in {"exited", "done"})

\* Everything the last granted client commits is consumed.
LastWriterServed ==
  \A e \in Epochs :
    (lanes[e] # <<>> /\ e = epoch) ~> (lanes[e] = <<>> \/ epoch > e \/ host = "done")

\* An attacher that asked is answered.
AttachSettles == \A c \in Clients : (st[c] = "waiting") ~> (st[c] # "waiting")

=============================================================================
