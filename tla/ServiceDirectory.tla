-------------------------- MODULE ServiceDirectory --------------------------
(***************************************************************************)
(* The service directory (spec/DECISIONS.md D24): what a host serves is    *)
(* cold state in services.json, and its revision is the doorbell in the    *)
(* heartbeat, host.json.  HostServer publishes (registerKind, setServices, *)
(* publishServices, start, close in packages/host/src/host-server.ts); a   *)
(* page polls the heartbeat and reads the document when the revision moves *)
(* (FsioClient.hostInfo and services in packages/client/src/index.ts,      *)
(* refreshHelper in packages/acp-demo/web/connection.ts).                  *)
(*                                                                         *)
(* Two files, two programs and two caches keyed by revision: the host's of *)
(* what it wrote and the client's of what it read.  The host may be killed *)
(* between any two writes, and its successor may start fresh.              *)
(***************************************************************************)
EXTENDS Integers

CONSTANTS
  Contents,    \* what buildServices may return
  MaxChanges,  \* bound: calls that change it
  MaxStarts    \* bound: hosts started

ASSUME ContentsAssumption == Contents # {}
ASSUME BoundsAssumption == MaxChanges \in Nat /\ MaxStarts \in Nat \ {0}

None == "none"
ASSUME NoneAssumption == None \notin Contents

VARIABLES
  \* HostServer
  host,     \* "down", "awaiting" (running, but loadPty awaited), "wiped", "up"
  fresh,    \* the option of this host
  input,    \* what buildServices returns now
  body,     \* servicesBody: the content last published, or None
  rev,      \* servicesRev
  owes,     \* a publication is written whose heartbeat is not
  \* the directory
  doc,      \* services.json, or NoDoc; "life" tells wiped documents apart
  bell,     \* host.json: the revision it names, or 0
  beating,  \* its mtime is recent
  \* FsioClient and the page
  cache,    \* servicesDoc
  alive,    \* helperWasAlive
  pageRev,  \* the page's servicesRev
  reading,  \* services(): "no", "opening" or "reading"
  file,     \* the snapshot being read
  shown,    \* the content the page shows, or None
  \* history
  life,     \* how often services.json was wiped
  orphan,   \* a host wiped what it had published, and the bell has not recovered
  looked,   \* life when the page last had a reason to read the document, or -1
            \* if the bell named a wiped one
  changes, starts

hostVars == <<host, fresh, input, body, rev, owes>>
dirVars  == <<doc, bell, beating>>
pageVars == <<cache, alive, pageRev, reading, file, shown>>
history  == <<life, orphan, looked, changes, starts>>
vars     == <<hostVars, dirVars, pageVars, history>>

NoDoc == [rev |-> 0, content |-> None, life |-> 0]

Init ==
  /\ host = "down" /\ fresh = FALSE /\ input \in Contents /\ body = None
  /\ rev = 0 /\ owes = FALSE
  /\ doc = NoDoc /\ bell = 0 /\ beating = FALSE
  /\ cache = NoDoc /\ alive = FALSE /\ pageRev = 0
  /\ reading = "no" /\ file = NoDoc /\ shown = None
  /\ life = 0 /\ orphan = FALSE /\ looked = 0 /\ changes = 0 /\ starts = 0

-----------------------------------------------------------------------------
(* The host *)

\* Mutant: what is on disk at a first publication is adopted unread.
Adopts_Any(content) == body = None /\ doc # NoDoc
\* A process's first publication finds its content on disk.
Adopts(content) == body = None /\ doc.content = content

\* Mutant: a new host starts counting again.
Previous_Own == rev
\* The revision to carry forward: the disk's at a first publication.
Previous == IF body = None THEN doc.rev ELSE rev

\* publishServices: nothing if the content is the one last published, no
\* rewrite if the disk has it already.
PublishServices(content) ==
  /\ body' = content
  /\ IF body = content \/ Adopts(content)
     THEN /\ rev' = Previous
          /\ UNCHANGED doc
     ELSE /\ rev' = Previous + 1
          /\ doc' = [rev |-> Previous + 1, content |-> content, life |-> life]

\* start(): running, but serving nothing before loadPty has resolved.  Each
\* start is a process of its own.
Start ==
  /\ host = "down" /\ starts < MaxStarts
  /\ starts' = starts + 1
  /\ host' = "awaiting"
  /\ fresh' \in BOOLEAN /\ input' \in Contents
  /\ body' = None /\ rev' = 0
  /\ UNCHANGED <<owes, dirVars, pageVars, life, orphan, looked, changes>>

\* cleanServiceDir, of a fresh host; what it published while it awaited goes too.
CleanServiceDir ==
  /\ host = "awaiting" /\ fresh /\ ~owes
  /\ host' = "wiped"
  /\ doc' = NoDoc /\ bell' = 0 /\ beating' = FALSE
  /\ life' = life + 1 /\ orphan' = (body # None)
  /\ UNCHANGED <<fresh, input, body, rev, owes, pageVars, looked, changes, starts>>

\* The first publication, before the first heartbeat.
Publish ==
  /\ host = IF fresh THEN "wiped" ELSE "awaiting"
  /\ ~owes
  /\ host' = "up" /\ owes' = TRUE
  /\ PublishServices(input)
  /\ UNCHANGED <<fresh, input, bell, beating, pageVars, history>>

\* setServices and registerKind publish again once running, which a host is
\* from the beginning of start().
SetServices(content) ==
  /\ host \in {"awaiting", "up"} /\ ~owes
  /\ changes < MaxChanges /\ content # input
  /\ changes' = changes + 1
  /\ input' = content
  /\ PublishServices(content)
  /\ owes' = (doc' # doc)
  /\ UNCHANGED <<host, fresh, bell, beating, pageVars, life, orphan, looked, starts>>

\* heartbeat(): after a publication, and from its timer.
Heartbeat ==
  /\ host = "up" \/ owes
  /\ owes' = FALSE
  /\ bell' = rev /\ beating' = TRUE
  /\ orphan' = (orphan /\ doc = NoDoc)
  /\ UNCHANGED <<host, fresh, input, body, rev, doc, pageVars, life, looked, changes, starts>>

\* close() retracts the heartbeat and leaves the document.
Close ==
  /\ host = "up" /\ ~owes
  /\ host' = "down" /\ bell' = 0 /\ beating' = FALSE
  /\ UNCHANGED <<fresh, input, body, rev, owes, doc, pageVars, history>>

\* The host is killed ...
Kill ==
  /\ host # "down"
  /\ host' = "down" /\ owes' = FALSE
  /\ UNCHANGED <<fresh, input, body, rev, dirVars, pageVars, history>>

\* ... and its last heartbeat goes stale.
BellAges ==
  /\ host = "down" /\ beating
  /\ beating' = FALSE
  /\ UNCHANGED <<hostVars, doc, bell, pageVars, history>>

-----------------------------------------------------------------------------
(* The page *)

\* Mutant: the page reads the document when the host appears, and only then.
Rings_First == ~alive
\* refreshHelper re-reads on the first beat and on every revision after it.
Rings == ~alive \/ bell # pageRev

\* refreshHelper, every two seconds: hostInfo, then services(rev), which
\* answers from the cache if the revision is the cached one.  One round is
\* done before the next.
Look ==
  /\ reading = "no"
  /\ beating /\ Rings
  /\ alive' = TRUE /\ pageRev' = bell
  /\ looked' = IF orphan THEN -1 ELSE life
  /\ IF cache # NoDoc /\ cache.rev = bell
     THEN shown' = cache.content /\ UNCHANGED reading
     ELSE reading' = "opening" /\ UNCHANGED shown
  /\ UNCHANGED <<hostVars, dirVars, cache, file, life, orphan, changes, starts>>

\* The heartbeat is stale, absent, or replaced while it is read.
LookInVain ==
  /\ reading = "no"
  /\ alive' = FALSE
  /\ UNCHANGED <<hostVars, dirVars, cache, pageRev, reading, file, shown, history>>

\* services() takes a snapshot of the document ...
OpenDoc ==
  /\ reading = "opening"
  /\ file' = doc
  /\ IF doc = NoDoc THEN reading' = "no" /\ shown' = None
                    ELSE reading' = "reading" /\ UNCHANGED shown
  /\ UNCHANGED <<hostVars, dirVars, cache, alive, pageRev, history>>

\* ... and reads it, in vain if it was replaced meanwhile (F11).
ReadDoc ==
  /\ reading = "reading"
  /\ reading' = "no" /\ file' = NoDoc
  /\ \/ cache' = file /\ shown' = file.content
     \/ doc # file /\ shown' = None /\ UNCHANGED cache
  /\ UNCHANGED <<hostVars, dirVars, alive, pageRev, history>>

-----------------------------------------------------------------------------
Next ==
  \/ Start \/ CleanServiceDir \/ Publish \/ Heartbeat \/ Close \/ Kill \/ BellAges
  \/ \E content \in Contents : SetServices(content)
  \/ Look \/ LookInVain \/ OpenDoc \/ ReadDoc

Spec == Init /\ [][Next]_vars

\* The host's timers and the page's fire; a heartbeat is not in the middle of
\* being replaced each time it is looked at.
FairSpec ==
  /\ Spec
  /\ WF_vars(CleanServiceDir \/ Publish) /\ WF_vars(Heartbeat) /\ WF_vars(BellAges)
  /\ SF_vars(Look) /\ WF_vars(OpenDoc \/ ReadDoc)

-----------------------------------------------------------------------------
(* Properties *)

\* A doorbell never points at a document that is not there (D24), whichever
\* step the host was killed at; and once it has rung, the document says what
\* the host serves, under the revision the doorbell names.  Exempt is a fresh
\* host that was told what to serve while it awaited loadPty: it wipes the
\* document and takes it to be there, until a beat finds the next one.
BellIsHonest ==
  beating /\ ~orphan =>
    /\ doc # NoDoc /\ doc.rev >= bell
    /\ host = "up" /\ ~owes => doc.rev = bell /\ doc.content = input

\* The revision of a wiped document was given to another one, or is still rung
\* for by the host that wiped it: the page, which compares revisions and not
\* contents, cannot tell.
Reused ==
  \/ cache # NoDoc /\ cache.life # life /\ cache.rev = bell
  \/ looked # life /\ pageRev = bell

\* A page that is through with the revision the doorbell names shows that
\* document, across restarts of the host and reads that failed.
PageIsCurrent ==
  alive /\ reading = "no" /\ pageRev = bell /\ doc.rev = bell /\ ~Reused
    => shown = doc.content

\* What a host serves reaches an open page, as long as it serves it.
PageCatchesUp ==
  \A c \in Contents :
    (host = "up" /\ input = c) ~> (host # "up" \/ input # c \/ shown = c \/ Reused)
=============================================================================
