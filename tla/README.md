# A verification project for fsio

fsio lets a web page talk to a process on the user's machine through a shared
directory: the page writes files with the File System Access API, a Node host
watches the directory, and every session, its input, its output and its control
messages are files. There is no lock server and no connection: each side finds
out what the other did by reading the directory, late, repeatedly and in its own
time. This directory models that program in TLA+, model-checks the models with
TLC and proves their main invariants with TLAPS. All paths below are relative to
`src/`; `host-server.ts` is `packages/host/src/host-server.ts`, `index.ts` is
`packages/client/src/index.ts`.

## 1. The system

### Components

| Component | State | Operations | Modelled by |
|---|---|---|---|
| Uplink (client `FsioSession` pump, host `processIncoming`) | client: queue, `outSeq`, commit in flight, lane, `pumpError`, `closed`; directory: numbered chunks, each a file or a directory whose name is the payload; host: `nextInSeq` | spawn or attach until there is a lane, `send`, `#pump`, `#commitChunk` with retries, `close`/`detach`, `#teardown`; scan, read, hand on, delete | `Uplink` |
| Downlink (host `Session.appendFrame`, client `#drainOutLog`) | host: `outGen`, `segBytes`, `prevFinal`, `outTotal`, `ackTotal`, `paused`, `doneSegs`; directory: `out.<gen>.log`, `out.sig`; client: `#gen`, `#offset`, `#cumConsumed`, `#lastAck` | append, rotate, publish, acknowledge, delete, pause, resume; wake, read the map, drain, hop, resynchronise, ack; attach at the head | `Downlink` |
| Attach and takeover (`processAttach`, `decideAttach`, `#initAttach`, `#maybeFence`) | `epoch`, `in.<epoch>/` lanes, `attach.<aid>.json`, the `writer` record of `status.json`, the client's `#epoch`, fence and fence hold | ask, retry with a fresh aid, take and decide a request, grant, refuse, read the status, fence, commit, consume, exit, close, restart | `Takeover` |
| Session life cycle (`adoptSession`, `tryStart`, `decideAndStart`, `startShell`, `startKind`, `idleSweep`, `removeSessionDir`, `Session.close`) | `started`, `approved`, `exited`, `done`, `detached`, `kindSession`, `proc`, `status.json`, the session directory, cleanup timers | adopt, ask the policy, start, answer, consume, mark, sweep, close, remove, stop, crash | `SessionLife` |
| Hub daemon singleton (`fsiod/src/lock.ts`, `daemon.ts`, `refuseLiveHost`, `heartbeat`) | the lock socket, `host.json`, each daemon's progress | bind, probe, reclaim, refuse, beat, stop, release, be killed | `HubDaemon` |
| Client session (`FsioSession`, its notifier and wake loop, `common/src/rpc.ts`) | phase of the opening, `#hold` and held frames, `#pumpError`, pending requests by id, `#mode`, the observer, timers, `#waking` and `#readAgain` | open, ask, start the notifier, wake, snapshot, read, check the status, request, time out, fence, close, tear down | `ClientSession` |
| Service directory (`publishServices`, `heartbeat`, `fresh`, `FsioClient.services`, `refreshHelper`) | host: `servicesBody`, `servicesRev`; directory: `services.json`, `host.json`; client: `servicesDoc`; page: `helperWasAlive`, `servicesRev` | start, wipe, publish or adopt, change, beat, close, be killed; look, open, read | `ServiceDirectory` |
| Page tabs and copies (`pewter/src/tabs.ts`, `pewter-shell/web/tabs.ts`, `db.ts`) | tabs, `activeId`, the catalog of copies, panes, commands in preparation; two IndexedDB stores | load and adopt the catalog; prepare and apply `tabs.add`, `focus`, `close`, `files.open`, `fling`, `show`, `drop`; store, delete, sweep; reload | `PageTabs` |
| Transcript archive (`archiveTranscript`, `sweepTranscripts`) | archived logs and their meta data | move a session's log, enforce the caps | not modelled |
| Dirname lane health (`index.ts:765`) | strikes, probe time | strike, switch off, probe | not modelled: `Uplink` lets each chunk take either lane |
| Frame codec (`common/src/frames.ts`) | none | encode, parse | not modelled: frames are atoms |
| Registry, daemon CLI | workspaces file, labels | add, remove, reload | not modelled |
| pewt: router, ask, grants, run, exec, clone, streams | commands in flight, the question on the terminal, grants file, child processes | route, receipt, ask, grant, revoke, spawn, end | not modelled (the page's half of the commands is) |
| pewter extension API, shell, UI kit, demos, workbench, scaffolding, confinement profiles | | | not modelled: rendering, wiring, text generation, measurement |

### How they interact

A client creates `sessions/<id>/` with `spawn.json`. The host adopts it in a
scan, asks the spawn policy (asynchronously), starts a process or a registered
kind, and from then on consumes the uplink and appends to the downlink. The two
directions meet in three places: acknowledgements of the downlink travel on the
uplink and let the host delete segments and resume a process; any uplink chunk
refreshes the presence record of the life cycle; and a takeover changes, in one
step on the host, the lane the uplink consumes from and the client whose acks
count. `status.json` is written by the life cycle and by the takeover, and read
by every client. A host that dies leaves all of that on disk; the next one
adopts it. The hub daemon's lock is what makes the "one host" all of this
assumes true.

A client session is what runs the two directions in the page: its wake loop is
the reader of the downlink and of `status.json`, its pump the writer of the
uplink. What a host serves is not a message but a document, `services.json`,
whose revision the heartbeat names; pages poll the heartbeat. pewter's shell is
a page over such a session: commands from terminals reach it as frames, and
from extensions through a bridge, and all of them change its tabs and its
stores.

The host is one JavaScript thread; its steps are atomic between awaits, but
another process sees the directory between any two system calls. The client is a
thread of its own that awaits at every file operation. So the grain of the
models is: one action per file operation where the other side can see between
two of them (`Uplink`, `Downlink`, `HubDaemon`, `ServiceDirectory`), one action
per handler or continuation where it cannot (`Takeover`, `SessionLife`,
`ClientSession`), one action per task of the event loop in `PageTabs`.

### What is hard

- A browser commit may fail, or land and then report failure, or show an empty
  file before its content; retries therefore meet their own earlier success.
- The reader works from one snapshot of `out.sig` while the host appends,
  rotates and deletes below it; file snapshots go stale.
- Policy verdicts, kind handlers, process events and timers find a session in
  whatever state it is by then: exited, closed, removed, of a stopped host.
- A takeover overlaps with the superseded client's commits, acks and reads.
- A host restart forgets everything but the directory.
- Two daemons start on one hub; a killed one leaves its socket and its
  heartbeat behind.
- An observer settles seconds late, or never, or after the session was closed;
  a wake meets a reader that is busy.
- Every client numbers its requests from 1, and all clients of a session read
  one stream.
- A document and the doorbell that announces it are two writes; a revision is
  compared, not a content.
- A command looks at the page, waits for a build or a store, and is applied to a
  page that has changed; the two stores have no transaction in common.

`PROJECT.json` lists each of these hazards at its line, with the properties that
would catch it going wrong, or a note.

## 2. The modules

### FifoChannel (abstract)

What either direction of a session promises: a reliable FIFO channel. `Send`
makes the sequence of sent items longer, `Deliver` hands on the next ones, in
order and without a gap, possibly several at once. `Uplink` and `Downlink`
implement it (property `ImplementsChannel`, with the refinement mapping given by
`INSTANCE ... WITH`).

### Uplink

A frame is its position in the order of `send`; chunk `s` carries the frames
between two entries of `cuts`. `TakeBatch` is the pump taking its whole queue;
`DirCommit` is the dirname lane (a `mkdir` is one step); `FileOpen` and
`FileClose` are the file lane, between which the host may see an empty file. A
commit is `ok`, `landed` (it is on disk, and an error was thrown) or `failed`;
`CommitFailed` retries the same number, and gives up after `MaxAttempts` with
`pumpError`. The pump is gated by `uplinkReady`: `Spawned`, or `AskAttach`, `GrantRead`
and `AttachDone`, any of which may fail instead (`ReadyFails`, `PumpFails`). `Close`
takes the code's two ways: while `#hold` is set (`Holding`) the session is closed at
once, otherwise `Teardown` waits for the pump. The host's scan is four steps (`ScanList`, `ScanTorn`, `ScanTake`,
`ScanAck`), because a chunk it listed may be re-created, completed or removed in
between. `Restart` and `ScanAckThrows` are its faults.

### Downlink

A frame is its position in the stream and `ends[f]` its cumulative end, so no
bytes are represented. `AppendOutput`, `AppendControl` and `Grant` append;
`Publish` is the remainder of `appendFrame` (rotation, deletion, the bump of
`out.sig`, the flow-control window), a step of its own because a reader may look
between the two. `ReadSig` takes the one snapshot a wake works from, `Drain` is
one turn of the loop: read what is readable, hop if the snapshot says the
segment is finished, otherwise ack (when the throttle `due` allows) and sleep.
A stale file snapshot reads nothing. `Attach` starts at the head that `out.sig`
names, or at 0/0 when it cannot be read (`Heads`). Answers to requests bypass flow
control: `control` counts their bytes during one pause, and `MaxControl` bounds that
count, not the number of answers; the count begins again with the next pause.

### Takeover

Requests, verdicts and answers are separate steps; verdicts settle in any order
unless `PolicyInOrder`. A client's request carries an aid per try. `Ask` may
find that a request it believes failed has landed. `Complete` lifts the fence
hold and judges the last status record read. `Land` commits in the client's own
lane, even if it was fenced since. `Restart` keeps only the directory. The
uplink and the answer stream are taken as the channels of the two modules above.

### SessionLife

One session of any kind: `pty` and `pipe` shells, a registered `kind`, `echo`.
What must not be confused is kept apart: `status` (on disk), `exited` (a process
or kind reported its end), `done` (closed: nothing may be done for it any more),
`phase` (its place in the host's table), `handler`, `child` and `proc`. Every
callback is an action of its own and may come at any time after its cause:
verdicts (`Allow`, `Deny`), `KindUp`, `KindFails`, `PipeSpawned`, `PipeError`,
`ChildExits`, `Output`, `CleanupTimer`. After `HostStop` they may still come;
after `Crash` they do not. The scans the code triggers are the `Consume...`
steps that follow, one per chunk. The three windows of silence (60 s, 3 min,
5 min by default) are three levels of one counter, in that order. A removal may
fail. The only timing assumption is that `spawn` or `error` of a child comes
before the next timer, as Node guarantees.

### HubDaemon

One action per system call of `acquireHubLock`, then `refuseLiveHost`, the first
heartbeat, stopping and releasing. The corpse of a killed daemon is a socket file
nobody listens on. A probe of a live owner may time out. `GoStale` is the passing
of three heartbeat intervals, also over a daemon that is alive but held up.
`OneAtATime` restricts who may start: see below.

### ClientSession

One `FsioSession` from construction to teardown, in any notifier mode. `Open`,
`Ask`, `StartNotifier` and `CompleteAttach` are the opening; `AskFails` is a
bootstrap file that could not be written. `ObserverSettles` and `ObserverFails`
come at any time after the start, also after the teardown; `HotPollEnds` may not
come while an observer is starting, because an observer is given up on within
the same two seconds. `Wake`, `Snapshot`, `Read` and `ReadStatus` are the loop,
split where it awaits. `Request`, `Timeout`, `Pump` and `Close`/`Teardown` are
the calls. The host and the other clients are the environment (`HostStep`): they
answer this client's requests, possibly twice, and others' under the same ids,
write output, and take the session over. The host's own methods are answered as
they are consumed, in lane order (`AnswerNext`, `AnswerOther`); a kind's are called
(`CallKind`, `CallKindOther`) and answered when their promise settles, in any order
and whoever is the writer by then (`KindAnswers`), or never if the host dies
(`Dies`). What `Uplink`, `Downlink` and
`Takeover` model is one step here.

### ServiceDirectory

`Start`, `CleanServiceDir`, `Publish` and `Heartbeat` are the awaits and writes
of a starting host, `SetServices` a change from the beginning of its start on (the
code asks only whether it is `running`), and `Kill` may come between any two of
them. `Adopts` is the comparison with the document on disk.
The page is `Look` (or `LookInVain`), then `OpenDoc` and `ReadDoc`, between which
the document may be replaced. `life` counts wipes, so that a property can tell a
revision that was given out twice (`Reused`), and `orphan` records that a fresh host
has wiped a document it had published itself.

### PageTabs

A command is delivered either alone, if its preparation waits (`DeliverWaiting`,
then `Prepared`, `Stored` or `Refused`), or in a batch of those read by one task
that prepare before the first is applied (`DeliverNow`). What is ready (`micro`)
is applied before any other task. `Reuse`, `Put`, `Focus`, `Close`, `Fling`, `Drop`
and `Refuse` are `applyTabs` together with what `answer` does before and after it:
mount a pane, remove panes, queue deletions and the catalog. Each of the two
stores carries its transactions out in order and may fail. A put is three things:
asked for, reported as a success (`PutSucceeds`, at which the fling goes on), and
committed (`BlobDone`) or not (`BlobFails`, `Reload`). `CatalogUnread` is the failed
read that yields an empty catalog. `Reload` loses the page and everything queued.
`raced`, `faulty`, `released` and `lost` record what exempts a property (section 4).

### Correspondence

`PROJECT.json` maps every definition that models code to the lines it models.
Definitions whose name ends in `_` and a word (`Window_Strict`, `Mark_Unguarded`)
are deliberately broken variants, each standing before the definition it
varies: they show that the property they belong to can fail.

## 3. The runs

| Run | Question | Bounds |
|---|---|---|
| Uplink | Does a browser that aborts or half-completes any commit, on either lane, with a host that restarts or fails to delete, ever leave a gap, reorder or lose a frame? Is it a FIFO channel, is everything sent delivered, and everything flushed before teardown? (`NoGap`, `ClosedMeansFlushed`, `ImplementsChannel`, `SentIsDelivered`) | 2 frames, 3 tries per chunk, 2 faults |
| DownlinkSteady | Flow control, rotation and deletion with stale reads, and a client that attaches once the first is gone: reliable channel, nothing unread deleted and at most two segments on disk, every pause ends, everything is read (`SegmentsKept`, `PauseMatchesWindow`, `ImplementsChannel`, `PauseEnds`, `CaughtUp`) | 8 one-byte frames, segments of 4, window 1, resume at 0, 1 byte of answers in one pause |
| DownlinkTakeover | Attaching at any moment: are the byte accounts of the two programs the same, and is nothing shown twice? (`HonestAccounts`, `NeverTwice`) | 5 frames, 1 byte of answers in one pause, segments of 2 |
| TakeoverRivals | Rival attachers with verdicts in any order, landed writes that report failure, and a kind that may exit: who is fenced, who is served, who is answered (`FencedByAnother`, `SupersededIsFenced`, `LastWriterServed`, `AttachSettles`) | 3 clients, one try each, 1 chunk |
| TakeoverRestart | One writer per lane, durable epochs, no stale input over a close and a restart (`LanesAreOwned`, `EpochIsDurable`, `NoStaleInput`) | 3 clients, 2 chunks, 1 restart |
| SessionLife | Every kind, every callback as late as can be: nothing outlives its session, writes where it is gone or takes an exit back; vanished clients are noticed, spawns answered, ended sessions removed (`NeverWritesRemoved`, `NothingOutlives`, `MarkerIsTrue`, `ShellInputQueues`, `ExitedIsFinal`, `VanishedIsMarked`, `ExitedIsSwept`, `SpawnIsAnswered`) | 3 chunks, one crash or stop |
| ClientWakes | An adaptive client without the safety poll, the mode with least to fall back on: is anything left unread with nobody to look, does output come in order with the history first, and is a client torn down quiet? (`NobodyAsleep`, `ClosedIsQuiet`, `ShownInOrder`) | 3 frames, spawning or attaching |
| ClientRequests | A polling client with a request, its timeout, second answers, answers of a kind that come late, other clients' answers under its id, failing sends, takeovers and closing: is a request settled by its own answer, and always? (`OwnAnswers`, `RequestsSettle`) | 1 request besides the opening one, 1 foreign or repeated frame |
| ServiceDirectory | Hosts that start, fresh or not, change what they serve, stop and are killed between any two writes, and a page that polls (`BellIsHonest`, `PageIsCurrent`, `PageCatchesUp`) | 2 contents, 2 changes, 3 starts |
| PageTabs | Commands that prepare together, stores that fail, also after success, and a reload at any moment (`OneTabPerReference`, `FramesFollowTabs`, `CopiesKeepBytes`, `StorageSettles`) | 1 extension, 2 paths, 3 commands of which 2 may be read at once, 1 reload; states up to a permutation of the paths (`MCPageTabs`) |
| DaemonSerial | With crashes, stops and corpses and one starter at a time: one daemon serves, and the hub is served again and again; no deadlock (`OneServes`, `HubIsServed`) | 3 daemons, 2 kills |
| DaemonRace | violated: `OneServes` with two concurrent starters | 2 daemons, 1 kill |

Why the bounds are enough. *Uplink*: a fault concerns one chunk and its
neighbour, so two chunks with all commit outcomes on either lane, and retries
beyond the lane change, show every case; the proofs lift the bounds. *Downlink*:
segments of four frames and a window of one are the smallest for which window, one
frame and one answer during a pause stay below a segment, the hypothesis of the
proofs; eight frames rotate twice and delete once under a reader that hops, and the
answer comes while the process is paused, is counted and acknowledged, and may be
the frame that rotates. The attach run rotates at two to have the same with fewer
frames. *Takeover*: three clients give two rival attachers and a superseded one;
one restart separates memory from disk. *ClientSession*: three frames are one
parked, one being read and one that arrives during the read; one request meets
its timeout, its own answer, a second one and a foreign one. With one request the run
has no two answers of one client to put in the wrong order; `AnswersAreOwn` covers any
number. The two runs split wakes from requests because their product is out of
reach, and the proofs join them again. *ServiceDirectory*: three starts give a predecessor, a fresh host and
its successor. *PageTabs*: two copies of a path and a command between them, or two
paths in one batch; the proofs lift all of its bounds. *SessionLife*: three chunks are
a heartbeat, input and a close, or any two of
them after a silence; one restart separates memory from disk. *HubDaemon*: two
starters race, a third arrives after.

`CHECK_DEADLOCK FALSE` stands in the configurations whose bounds stop the system
(no more frames, chunks or restarts); `DaemonSerial` checks deadlock, as daemons
are started for ever.

### Fairness

- *Uplink*: the pump and the host's scan go on (promise continuations, the safety
  poll of `timings.safetyPollMs`). Nothing is assumed of commits: a chunk may fail
  until the pump gives up, which the property allows for. Nor is a client promised
  its lane: `SentIsDelivered` is about what was sent once there is one.
- *Downlink*: the wake loop is woken again and again (observer, hot poll, safety
  poll); a file snapshot is not stale every time it is taken (strong fairness of
  a drain that makes progress); the host completes an append and keeps scanning.
- *Takeover*: scans, status polls and policies settle. Clients need not ask, send
  or exit.
- *SessionLife*: scans and sweeps repeat on timers, policies and handlers settle,
  a client that is gone stays silent, not every removal fails, and a stopped host
  is started again. Clients, processes, the cleanup timer and crashes have no
  fairness: `ExitedIsSwept` must not rest on the cleanup timer, which dies with
  its host.
- *ClientSession* (`FairSpec`, used by `ClientRequests`): promises of the file
  system settle, timers fire, a started read is finished, the host answers
  the lane it reads, and a kind's methods settle: that is the kind's promise, not
  the host's, and a request the host died with is exempt (`lost`). Timeouts, notifications and other clients are never
  promised.
- *ServiceDirectory*: the host's timers and the page's fire; the heartbeat is not
  in the middle of being replaced each time the page looks (strong fairness of
  `Look`). Hosts need not start, change or stop.
- *PageTabs* has safety properties only.
- *HubDaemon*: a supervisor starts what is not there, started daemons run on, and
  time passes.

## 4. What the runs and the proofs show

### Disagreement between the code and its documents

- **Two starters can both hold the daemon lock** (`DaemonRace`). Both probe the
  same corpse; the slower one unlinks the socket the faster has just bound.
  lock.ts:124-126, PROTOCOL.md:471.

### Divergences without a run

Read off the code while modelling, and seen in TLC where it says so. The
properties that would meet them are stated with the exemption named here.

*Host and protocol.*

- *A takeover can leave a process paused for ever.* An attacher starts at the head
  of segment *g*. The old writer's ack, landing later, covers *g*, which is
  rotated meanwhile and deleted. The attacher is then exactly one segment behind
  a file that is gone; it resynchronises only when more than one behind
  (index.ts:954), so it never reads, never acks, and the process is never
  resumed. PROTOCOL.md:374-376 promises that a paused pty resumes. TLC shows it
  for `PauseEnds` with `QuietTakeover = FALSE`; the run sets it to `TRUE`.
- *The writer epoch survives one restart, not two.* `tryStart` restores it from
  `status.json`, and then `setStatus({state: "running", ...})` rewrites the record
  without it. PROTOCOL.md:970-972. TLC shows it for `EpochIsDurable` with
  `MaxRestarts = 2`; the theorems of `TakeoverProofs` assume `MaxRestarts <= 1`.
- *Early input to a kind is dropped.* `decideAndStart` marks the session approved
  and scans at once; a kind's handler resolves in a later microtask, so queued
  input finds neither `kindSession` nor `proc`. PROTOCOL.md:188-190 says it queues.
  `ShellInputQueues` is about shells, which are not affected.
- *Re-created chunks.* A landed commit that is retried after the host has deleted
  its chunk re-creates it below the consumption point. PROTOCOL.md:219-220 calls
  it inert; after a restart the host rediscovers the base as the smallest chunk
  present (host-server.ts:1972) and consumes it again, then waits for a number
  that does not come. `ImplementsChannel` asks for each frame once only while the
  host is steady, and `SentIsDelivered` allows for it.
- *A host restart resets the stream.* `outGen` and `outTotal` restart at zero while
  `out.sig`, the segments and the readers' positions survive (host-server.ts:525).
  A reader resynchronises only forwards (index.ts:954), so one that was in a later
  segment waits until the new stream has come as far. `Downlink` has one host
  incarnation.
- *Two granted tries of one client.* If two tries landed and are granted in the
  reverse order, the client is fenced by its own grant; index.ts:553-557 assumes
  the awaited one is the last. `TakeoverRivals` gives each client one try.
- *A crash between unlink and decision* of an attach request (host-server.ts:
  1869) leaves the client waiting: `expect` has no timeout, although the comment
  above speaks of one. `AttachSettles` is checked without restarts.
- *Attach to a closed session.* `scanOnce` skips sessions that are done
  (host-server.ts:1495), so requests that arrive between close and removal are
  never answered; PROTOCOL.md:369-370 has them refused.
- *A corpse's heartbeat.* A daemon that holds the lock is still refused by a
  fresh `host.json` of its killed predecessor (host-server.ts:1144), where
  PROTOCOL.md:477-478 lets the lock decide. It only delays service, which
  `HubIsServed` shows.
- *Error sessions linger.* When a pipe fails to start asynchronously
  (host-server.ts:1821-1827) the session is neither exited nor done, so no sweep
  removes it, and it remains attachable; and a session in state `error` is
  started again by the next host, since adoption looks at `exited` only.
  PROTOCOL.md:889-891 has both removed. `ExitedIsSwept` is about exits.
- *Detach before the first record* is lost: `setDetached` is a no-op until then.
- *Kinds have no flow control* (documented in the host's README): `Downlink` has
  the switch `HasProc` for it.

*Client.*

- *Requests that hang.* A request made after `close()` never settles. Those pending
  when the client is fenced, when its pump gives up, or when its opening failed
  hang until `close()`, unless they have a timeout. `RequestsSettle` says so.
- *Another client's answer.* All clients of a session number their requests from 1
  and read one stream, so a request made before the grant, or still pending after
  another takeover, can be settled by an answer to another client
  (PROTOCOL.md:143, 371-374). A request made *after* the grant can be, too: a kind's
  methods are answered from a promise that looks at `s.done` only
  (host-server.ts:2059-2075), so what the predecessor had in a kind's hands at the
  grant is answered later, under an id the new client has given out again.
  `OwnAnswers` exempts these three (`early`, `Superseded`, and the ids in `leftOver`);
  TLC finds it violated without the last.
- *Closed in the middle of an attach.* `#teardown` does not wait while `#hold` is set
  (index.ts:1118), because, its comment says, no lane exists and the pump is parked
  on a grant that `failAll` rejects. With the grant in and `#completeAttach` not through
  (`#hold` is set until index.ts:584) neither holds: the lane is about to open, the
  pump then finds `#closed` (index.ts:689), and what was queued, the close notification
  included, is left unsent, without a `pumpError`. `ClosedMeansFlushed` exempts a
  client closed there (`midAttach`); TLC finds it violated without.
- *Timers after an early close.* `close()` during the opening does not stop
  `#startNotifier` from arming its timers afterwards, and a spawned session closed
  before it was set up arms its heartbeat after the teardown; index.ts:1125 says
  nothing fires after `close()`. `ClosedIsQuiet` exempts this (`tooSoon`).
- *A send before the notifier is started*, in adaptive mode, arms the hot poll,
  which calls a `#wakeFn` that is not set yet.
- *An observer at the edge.* Without the safety poll, an observer that settles
  within some 15 ms of the two seconds after which the hot poll ends may find it
  ended, with one write between them unseen. `HotPollEnds` takes the two for
  ordered.

*Service directory.*

- *A fresh host that changes early.* `setServices` or `registerKind` while a fresh
  host awaits `loadPty` writes the document (host-server.ts:977-979 asks only for
  `running`), which is then wiped; the publication that follows returns early, its
  content being the last published (host-server.ts:939), and the heartbeat names a
  document that is not there, until the next change. host-server.ts:1012-1013 rules
  that out. `SetServices` does it, and `BellIsHonest` exempts what follows
  (`orphan`; TLC finds it violated without), `PageIsCurrent` and `PageCatchesUp` a page that
  looked then (`looked` is -1, which makes it `Reused`).
- *Revisions used twice.* A fresh host counts from 1 again, so a client that cached
  a revision of its predecessor keeps the stale document. `PageIsCurrent` and
  `PageCatchesUp` exempt this (`Reused`), and it is reachable.
- A `HostServer` that is started again after `close()` with `fresh`, and rounds of
  `refreshHelper` that overlap because a read takes more than two seconds, are
  outside the model.

*Page.*

- *Commands before the catalog.* A command can arrive while `adoptCatalog` awaits:
  what it put in the catalog is overwritten, in the page and on disk, and the
  sweep deletes its bytes. tabs.ts:53-55 and db.ts:127-130 hold that it cannot
  race a command. `CopiesKeepBytes` and `StorageSettles` exempt it (`raced`); TLC
  finds both violated without the exemption.
- *An entry with no bytes*, which db.ts:127-130 rules out, comes about in three ways.
  `dropBlob` is issued before `saveCatalog`, so a page that dies between the two leaves
  an entry whose bytes are gone (`released`). `keepBlob` resolves on its request's
  `success` (db.ts:29-34), before the transaction completes: the fling is applied and
  its catalog saved, and if the commit then fails, or the page dies first, the bytes
  are not there. And `loadCatalog` answers a failed read with an empty catalog
  (db.ts:86-88), upon which the sweep deletes every copy the saved one names. The last
  two are `lost`. `CopiesKeepBytes` exempts `released` and `lost`, and TLC finds it
  violated without either.
- *A tab with no pane.* `tabs.close` of the tab on a copy and `files.show` of that
  copy, read together, leave a tab without a pane: `prepare` found the tab still
  there (tabs.ts:79-92). `FramesFollowTabs` allows it for copies; TLC finds it
  violated with `TabIds \subseteq panes`.
- `activate: false` on an empty page leaves nothing active while a tab is there
  (pewter/src/tabs.ts:310-311).
- After a host was killed and one started fresh, the shell's `session` stays set
  (session.ts:236), and there is no new one until a reload.

*pewt, read but not modelled.* A command that timed out in the router is still
executed by the page later (router.ts:129-141); the end of a clone may delete a
project another one put in place meanwhile (`clone.ts`, `rmSync(plan.dest)`);
`runOnHost` (`stream.ts`) never settles if the host is killed.

### Theorems

For every value of the constants that the modules' assumptions allow, hence for
any number of frames, clients, commands, faults, daemons, crashes and restarts
(but for the one restart of `TakeoverProofs`):

- `UplinkProofs`: `UplinkTypes`, `UplinkHasNoGap`, `UplinkClosesFlushed` and
  `UplinkIsAChannel`: the uplink implements `FifoChannel`, each frame once and in
  order until the host restarts or fails to delete, and nothing skipped ever. The
  inductive invariant adds to types and `NoGap` that chunks on disk are among
  those cut (`DirInv`), that the commit in flight carries the next number
  (`CommitInv`), that cuts grow (`CutsInv`), that there is no chunk before there is a
  lane (`ReadyInv`) and that a scan looks at its base or
  the next chunk (`ScanInv`). Without `CommitInv`, a retry could publish a number
  that was never next. For the refinement, `SteadyInv` says what the host has
  delivered in terms of its consumption point.
- `DownlinkProofs`: `AccountsStayHonest`, `NothingIsShownTwice`,
  `PausedByTheWindow`, `DiskIsTheUnacked`, `DownlinkIsAChannel`,
  `UnreadIsNotDeleted` and `SegmentsAreKept`. `LogInv` ties the host's counters to the log, `Kept` a
  reader's place to what it counted and to the map it works from (at most one
  segment ahead, and then with the right length of its own, which is what makes
  the hop exact), and `Shown` bounds what it was shown by its place. The channel
  is proved under `Windowed`: a process under flow control, no attach before the
  last client is gone, and a segment larger than the window, any one frame and
  `MaxControl`, the bytes of answers appended during one pause, together (by default
  the window takes 4 MiB of 8). Answers outside a pause, the spawn response among
  them, are not limited, and `AnswersInv` says that the count ends with the pause. Then
  the spawning client is never more than one
  segment behind (`InCharge`), so a hop never lands on a deleted segment, and it
  was shown exactly what lies before its place (`AllShown`). Without `Windowed`
  the conclusion is false: see the divergences above.
  What is on disk is, without any hypothesis, exactly what is not acknowledged and
  the segment being written (`DiskInv`). That it is also what is not read needs
  `HeirInv`: an heir attaches at a head the vanished client had not passed, so no
  late ack of that client reaches beyond it. This holds for one heir (`OneHeir`)
  that attaches when the old page is gone, for kinds too (`UnreadIsNotDeleted`). Under
  `Windowed` the backlog is at most the window, one frame, the answers of this pause and
  the one to the heir (`BacklogInv`), hence at most a segment; as finished segments are full, only the
  last of them can be waiting, and two are on disk (`SegmentsAreKept`).
- `TakeoverProofs`, all under `MaxRestarts <= 1`: `LanesStayOwned`,
  `EpochSurvivesRestart`, `StaleInputIsLeft` and `FencedByOthers`. `EpochsCover` says that the
  current epoch, or the recorded one of a session not yet started again, is not
  behind any grant or any consumed chunk; `RecordKeeps` that the first host's record
  has it. The record loses it in the second host, so the invariant is not
  inductive, and not true, for two restarts. `OwnerInv` says that who writes under an
  epoch was granted it. `FencedByOthers` needs more: that the tries of one client
  are granted in the order they were made (`OrderInv`, under `TriesInOrder`: the policy
  answers in order, or a client has one try, or a commit that failed left no file),
  and that a record naming a writer was written by a grant (`FenceInv`). Then the
  try a client awaits is its last grant, and only somebody else's can pass it.
- `SessionLifeProofs`: `SessionTypes`, `SessionLeavesNothing`,
  `SessionWritesInPlace`, `ShellsLoseNoInput`, `SessionExitIsFinal` and
  `SessionMarkerIsTrue`. The
  invariant relates the table to the directory (`PlaceInv`), bounds what can run
  by how far the session has come (`StageInv`), and says that with `exited` on
  disk no handler or child is left that could write another state (`ExitInv`).
  `NothingOutlives` is not inductive without `StageInv`: a verdict that settles
  late must find either its own session, still started, or a closed one. `MarkerInv`
  adds that there is no record before the session is served, so that the first one
  written already carries the host's mark.
- `ClientSessionProofs`: `ClosedSessionsAreQuiet`, `SessionStaysAwake`,
  `AnswersAreOwn` and `DataIsShownInOrder`, for all four modes, with and without the safety poll.
  `AwakeInv` says that each mode keeps a timer or, once the hot poll has ended,
  an adopted observer, and that with an adopted observer whatever is unread has
  somebody looking. `AwaitInv` says that an id awaits its own request only, and a
  request that was not made too early awaits its answer after the grant;
  `ForeignInv` that foreign answers lie before it or bear an id that was in a kind's
  hands then, and that the same holds of what the kinds have yet to answer. `ShownInv` says that what was
  shown lists the DATA frames of one range of the stream that ends where the reader
  is, and that while an attach is in flight the parked frames list the range from
  the attacher's head on; `ListsConcat` joins two listings of adjacent ranges, and
  `ListingLists` that `DataIn` is one (ranks in a finite set are
  injective, hence onto).
- `ServiceDirectoryProofs`: `DoorbellIsHonest` and `PageShowsWhatRang`.
  `HostAgrees` says that what the host remembers is on disk or was wiped by itself,
  `ReadersAgree` that
  within one life of the directory a revision names one document.
- `PageTabsProofs`: `PageKeepsOneTab`, `PageFramesFollow`, `PageCopiesKeepBytes`
  and `PageStoresSettle`. `FilesInv` keeps pending copies apart from used ones,
  `BytesInv` follows every copy through both queues (only what was released is
  deleted, a sweep spares what the catalog names, and what was reported as put is stored,
  being committed or lost), and `SettlesInv` says what the
  queues come to.
- `HubDaemonProofs`: under `OneAtATime`, `SerialStartsHoldTheLock` and
  `SerialStartsServeOnce`. The invariant adds that there is one starter
  (`OneStarter`) and that a corpse probed by a starter is still no live socket
  when it is unlinked (`ProbedIsDead`), which is just what `DaemonRace` breaks.

The provers take the modules' `ASSUME`s as given; each of those modules is
extended by a run, where TLC evaluates them.

Some theorems have hypotheses on the constants. `Windowed` bounds the answers written
during one pause: a client that asks more of a paused host than a segment holds, without
acknowledging, can take the backlog past two segments, and the code does not stop it,
as answers bypass `checkWindow` (host-server.ts:628-653). `QuietTakeover` (part of
`Windowed`) and `OneHeir` describe a takeover as a reload makes it, and the deletions
need both: TLC finds `ReadBeforeDeleted` violated with `QuietTakeover = FALSE`, where a
late ack of the old client deletes what the attacher has not read, and with two
heirs, where one reads and acks on while the other waits for its grant.
`TriesInOrder` of the takeover excludes the divergence named above, two granted
tries of one client in the reverse order.

### Only model-checked

All liveness (fairness is beyond the proof system): `SentIsDelivered`,
`PauseEnds`, `CaughtUp`, `SupersededIsFenced`, `LastWriterServed`, `AttachSettles`,
`HubIsServed`, `VanishedIsMarked`, `ExitedIsSwept`, `SpawnIsAnswered`,
`RequestsSettle`, `PageCatchesUp`. Every invariant, action property and refinement
of the passing runs is proved.

## 5. Not modelled, and why

- Bytes: frames, names, JSON and base64 are atoms; a torn chunk is one that is
  not full. Watch events and polls are the fairness of the scans they cause.
- Timing in numbers: windows and throttles are choices or levels.
- Of the life cycle: a kind's own methods, `resize`, `signal`, `eof`, the pacing
  of input to a pty, and the transcript archive. A host restart resets the
  downlink's counters; `Downlink` has one host incarnation.
- A process orphaned by a killed host: the system's business, not the host's.
- The frame codec and the transcript caps are sequential functions over bytes and
  files, which unit tests reach. The dirname lane's health (strikes, probes) decides
  only which lane a chunk takes, and `Uplink` allows either for each chunk.
- The registry, the daemon's CLI, `pewt`'s consent and grants: one process, one file,
  re-read before each judgment. `pewt`'s router, runs and streams are clients and
  kinds over the session API modelled here; what was met while reading them is
  listed above.
- Two one-folder hosts that start within the await between `refuseLiveHost` and the
  first heartbeat (host-server.ts:989): the case `DaemonRace` shows for the hub,
  without a lock to lose.
- Of the page: titles and `tabs.update`, `tabs.list`, and the handle store.

## 6. How the modules build on each other

`FifoChannel` is the abstract specification; `Uplink` and `Downlink` implement it.
`Takeover` and `SessionLife` take the uplink and the answers as such channels;
`ClientSession` takes `Takeover`'s grant for one step; `HubDaemon` gives the one
host. `PageTabs` and `ServiceDirectory` stand beside them. Each `<Module>Proofs`
extends its module. Every bound is a `CONSTANT` of its module, given in the
`.cfg`, so the modules are checked as they are; only `MCPageTabs` adds a symmetry.

To check a run: `tlc -workers 2 -config <run>.cfg <Module>.tla`; a proof module:
`tlapm <Module>.tla`.
