------------------------------ MODULE PageTabs ------------------------------
(***************************************************************************)
(* The tabs of the pewter shell's page and the copies it keeps: applyTabs  *)
(* (packages/pewter/src/tabs.ts), the commands around it (answer, prepare, *)
(* adoptCatalog in packages/pewter-shell/web/tabs.ts) and the IndexedDB    *)
(* stores under it (packages/pewter-shell/web/db.ts).                      *)
(*                                                                         *)
(* A command first prepares, which may wait for a build, a file or the     *)
(* store, and then applies to whatever the tabs are by then.  Several are  *)
(* under way at once: terminals send them through the host, extensions     *)
(* through the bridge.  A step of the page is a task of its event loop:    *)
(* what a task has made ready is applied, in order, before the next one.   *)
(* Tabs die with the page; copies survive it.                              *)
(***************************************************************************)
EXTENDS Integers, Sequences

CONSTANTS
  Names,        \* extensions
  Paths,        \* files in the pewter
  Activates,    \* values of "activate" in commands that open tabs
  MaxCommands,  \* bound: commands over all the page's lives
  MaxBatch,     \* commands one read of the stream may deliver
  MaxReloads    \* bound: page reloads and crashes

ASSUME PewterAssumption == Names \cap Paths = {} /\ Activates \subseteq BOOLEAN
ASSUME BoundsAssumption == MaxCommands \in Nat /\ MaxBatch \in Nat \ {0} /\ MaxReloads \in Nat

VARIABLES
  page,       \* "opening", "loading" (the catalog is read) or "live"
  loaded,     \* what loadCatalog returned
  \* the state applyTabs works on
  tabs,       \* set of [id, kind, ref]; appended with growing ids, so its
              \* order is that of the ids
  active,     \* activeId, or None
  held,       \* the catalog: set of [id, from]
  \* the shell's own
  panes,      \* ids of tabs with a pane
  waiting,    \* commands in prepare: [cmd, step, file]
  micro,      \* commands ready to apply: [cmd, mount, file]
  \* IndexedDB: two stores, and what is queued on each
  blobs,      \* ids of copies whose bytes are stored
  catalog,    \* the saved catalog
  blobOps,    \* sequence of [op, ids]
  catalogOps, \* catalogs to save
  \* history
  released,   \* copies dropped or superseded
  lost,       \* copies whose bytes the browser did not commit after it took
              \* them, or whose catalog it could not read
  raced,      \* a fling began to store while the catalog was being read
  faulty,     \* a read, a write or a delete of the store failed
  fresh,      \* tabs made so far
  commands, reloads

tabVars   == <<tabs, active, held>>
queueVars == <<waiting, micro>>
storeVars == <<blobs, catalog>>
opsVars   == <<blobOps, catalogOps>>
history   == <<released, lost, raced, faulty, fresh, commands, reloads>>
vars == <<page, loaded, tabVars, panes, queueVars, storeVars, opsVars, history>>

None == 0

TabIds  == {t.id : t \in tabs}
HeldIds == {e.id : e \in held}

\* A copy can be asked for that an earlier page listed.
Commands ==
  [op : {"add"}, ref : Names, activate : Activates]
    \cup [op : {"open", "fling"}, ref : Paths, activate : Activates]
    \cup [op : {"show"}, ref : {e.id : e \in held \cup catalog}, activate : Activates]
    \cup [op : {"close", "focus"}, ref : TabIds, activate : {TRUE}]
    \cup [op : {"drop"}, ref : HeldIds, activate : {TRUE}]

Init ==
  /\ page = "opening" /\ loaded = {}
  /\ tabs = {} /\ active = None /\ held = {} /\ panes = {}
  /\ waiting = {} /\ micro = <<>>
  /\ blobs = {} /\ catalog = {} /\ blobOps = <<>> /\ catalogOps = <<>>
  /\ released = {} /\ lost = {} /\ raced = FALSE /\ faulty = FALSE /\ fresh = 0 /\ commands = 0 /\ reloads = 0

\* The tabs on a reference: at most one, it should be.
Showing(kind, ref) == {t \in tabs : t.kind = kind /\ t.ref = ref}

-----------------------------------------------------------------------------
(* Opening the page *)

\* adoptCatalog reads the saved catalog ...
LoadCatalog ==
  /\ page = "opening" /\ micro = <<>>
  /\ page' = "loading" /\ loaded' = catalog
  /\ UNCHANGED <<tabVars, panes, queueVars, storeVars, opsVars, history>>

\* ... or cannot, and goes on with an empty one ...
CatalogUnread ==
  /\ page = "opening" /\ micro = <<>>
  /\ page' = "loading" /\ loaded' = {}
  /\ lost' = lost \cup {e.id : e \in catalog} /\ faulty' = TRUE
  /\ UNCHANGED <<tabVars, panes, queueVars, storeVars, opsVars, released, raced, fresh, commands, reloads>>

\* ... takes it for its own, and has what it does not name swept.
AdoptCatalog ==
  /\ page = "loading" /\ micro = <<>>
  /\ page' = "live" /\ loaded' = {}
  /\ held' = loaded
  /\ blobOps' = Append(blobOps, [op |-> "sweep", ids |-> {e.id : e \in loaded}])
  /\ UNCHANGED <<tabs, active, panes, queueVars, storeVars, catalogOps, history>>

-----------------------------------------------------------------------------
(* Commands *)

\* The part of prepare before its first await: these commands wait ...
Waits(c) == c.op \in {"add", "open", "fling"}
\* ... and files.show looks whether it will need a pane, when the read comes.
Mounts(c) == c.op \in {"add", "open", "fling"} \/ (c.op = "show" /\ Showing("held", c.ref) = {})

Ready(c, file) == [cmd |-> c, mount |-> Mounts(c), file |-> file]

\* A command that waits is started.  It reads nothing of the tabs before, so
\* commands read with it make no difference.
DeliverWaiting(c) ==
  /\ micro = <<>> /\ page \in {"loading", "live"}
  /\ commands < MaxCommands /\ commands' = commands + 1
  /\ waiting' = waiting \cup {[cmd |-> c, step |-> "reading", file |-> 2 * commands']}
  /\ UNCHANGED <<page, loaded, tabVars, panes, micro, storeVars, opsVars, released, lost, raced, faulty, fresh, reloads>>

\* Commands that wait for nothing, read by one task: each has prepared before
\* the first is applied.
DeliverNow(batch) ==
  /\ micro = <<>> /\ page \in {"loading", "live"}
  /\ commands + Len(batch) <= MaxCommands /\ commands' = commands + Len(batch)
  /\ micro' = [i \in 1..Len(batch) |-> Ready(batch[i], None)]
  /\ UNCHANGED <<page, loaded, tabVars, panes, waiting, storeVars, opsVars, released, lost, raced, faulty, fresh, reloads>>

\* The build or the file a command waited for is there; a fling's bytes are
\* put into the store first.
Prepared(w) ==
  /\ micro = <<>> /\ w \in waiting /\ w.step = "reading"
  /\ IF w.cmd.op = "fling"
     THEN /\ waiting' = (waiting \ {w}) \cup {[w EXCEPT !.step = "storing"]}
          /\ blobOps' = Append(blobOps, [op |-> "put", ids |-> {w.file}])
          /\ raced' = (raced \/ page = "loading")
          /\ UNCHANGED micro
     ELSE /\ waiting' = waiting \ {w}
          /\ micro' = <<Ready(w.cmd, None)>>
          /\ UNCHANGED <<blobOps, raced>>
  /\ UNCHANGED <<page, loaded, tabVars, panes, storeVars, catalogOps, released, lost, faulty, fresh, commands, reloads>>

\* Or it is not, and the command is refused.
Refused(w) ==
  /\ micro = <<>> /\ w \in waiting /\ w.step = "reading"
  /\ waiting' = waiting \ {w}
  /\ UNCHANGED <<page, loaded, tabVars, panes, micro, storeVars, opsVars, history>>

\* Mutant: files.fling goes on before its bytes are in.
Stored_Early(w) ==
  /\ micro = <<>> /\ w \in waiting /\ w.step \in {"storing", "stored"}
  /\ waiting' = waiting \ {w}
  /\ micro' = <<Ready(w.cmd, w.file)>>
  /\ UNCHANGED <<page, loaded, tabVars, panes, storeVars, opsVars, history>>

Stored(w) ==
  /\ micro = <<>> /\ w \in waiting /\ w.step = "stored"
  /\ waiting' = waiting \ {w}
  /\ micro' = <<Ready(w.cmd, w.file)>>
  /\ UNCHANGED <<page, loaded, tabVars, panes, storeVars, opsVars, history>>

-----------------------------------------------------------------------------
(* applyTabs, and what answer does around it *)

KindOf == [add |-> "extension", open |-> "file", show |-> "held"]
Now == Head(micro)

\* Mutant: files.show goes by what prepare saw.
Reused_Prepared(r) ==
  IF r.cmd.op = "add" \/ (r.cmd.op = "show" /\ r.mount) THEN {} ELSE Showing(KindOf[r.cmd.op], r.cmd.ref)

\* The tab a command reuses rather than making a second one.
Reused(r) == IF r.cmd.op = "add" THEN {} ELSE Showing(KindOf[r.cmd.op], r.cmd.ref)
\* The entry a fling supersedes.
Previous(path) == {e \in held : e.from = path}

\* answer mounts the pane prepare made unless the tab has one.
WithPane(r, id) == IF r.mount THEN panes \cup {id} ELSE panes
\* The last of some tabs, or None.
LastOf(ts) == IF ts = {} THEN None ELSE (CHOOSE t \in ts : \A u \in ts : u.id <= t.id).id
NewTab(kind, ref) == [id |-> 2 * fresh + 1, kind |-> kind, ref |-> ref]

\* applyTabs refuses what names no tab or no copy of this page.
Knows(c) ==
  /\ c.op \in {"close", "focus"} => c.ref \in TabIds
  /\ c.op \in {"show", "drop"} => c.ref \in HeldIds
Refuse ==
  /\ micro # <<>> /\ ~Knows(Now.cmd)
  /\ micro' = Tail(micro)
  /\ UNCHANGED <<page, loaded, tabVars, panes, waiting, storeVars, opsVars, history>>

\* tabs.add, files.open and files.show, on a tab that is there or on a new one.
Reuse ==
  /\ micro # <<>> /\ Now.cmd.op \in {"add", "open", "show"} /\ Knows(Now.cmd)
  /\ \E t \in Reused(Now) : active' = t.id /\ panes' = WithPane(Now, t.id)
  /\ micro' = Tail(micro)
  /\ UNCHANGED <<page, loaded, tabs, held, waiting, storeVars, opsVars, history>>

Put ==
  /\ micro # <<>> /\ Now.cmd.op \in {"add", "open", "show"} /\ Knows(Now.cmd)
  /\ Reused(Now) = {}
  /\ LET t == NewTab(KindOf[Now.cmd.op], Now.cmd.ref)
     IN  /\ tabs' = tabs \cup {t}
         /\ active' = IF Now.cmd.activate THEN t.id ELSE active
         /\ panes' = WithPane(Now, t.id)
  /\ micro' = Tail(micro) /\ fresh' = fresh + 1
  /\ UNCHANGED <<page, loaded, held, waiting, storeVars, opsVars, released, lost, raced, faulty, commands, reloads>>

Focus ==
  /\ micro # <<>> /\ Now.cmd.op = "focus" /\ Knows(Now.cmd)
  /\ active' = Now.cmd.ref
  /\ micro' = Tail(micro)
  /\ UNCHANGED <<page, loaded, tabs, held, panes, waiting, storeVars, opsVars, history>>

\* Closing the tab on screen hands the stage to the last of the others.
Close ==
  /\ micro # <<>> /\ Now.cmd.op = "close" /\ Knows(Now.cmd)
  /\ tabs' = {t \in tabs : t.id # Now.cmd.ref}
  /\ active' = IF active = Now.cmd.ref THEN LastOf(tabs') ELSE active
  /\ panes' = panes \ {Now.cmd.ref}
  /\ micro' = Tail(micro)
  /\ UNCHANGED <<page, loaded, held, waiting, storeVars, opsVars, history>>

\* Mutant: the superseded bytes are not deleted.
Deletes_None(old) == blobOps

\* What answer sends to the stores: the bytes that are nobody's now, and the
\* catalog as the command left it.
Deletes(old) == IF old = {} THEN blobOps ELSE Append(blobOps, [op |-> "delete", ids |-> {e.id : e \in old}])
Saves(copies) == Append(catalogOps, copies)

\* A fling takes the place of the copy it supersedes, and the tabs on that one
\* follow it over.
Fling ==
  /\ micro # <<>> /\ Now.cmd.op = "fling"
  /\ LET old  == Previous(Now.cmd.ref)
         file == [id |-> Now.file, from |-> Now.cmd.ref]
         over == {t \in tabs : t.kind = "held" /\ \E e \in old : t.ref = e.id}
         id   == IF over = {} THEN 2 * fresh + 1 ELSE LastOf(over)
     IN  /\ held' = (held \ old) \cup {file}
         /\ tabs' = IF over = {} THEN tabs \cup {NewTab("held", file.id)}
                    ELSE (tabs \ over) \cup {[t EXCEPT !.ref = file.id] : t \in over}
         /\ fresh' = IF over = {} THEN fresh + 1 ELSE fresh
         /\ active' = IF Now.cmd.activate THEN id ELSE active
         /\ panes' = WithPane(Now, id)
         /\ blobOps' = Deletes(old)
         /\ released' = released \cup {e.id : e \in old}
         /\ catalogOps' = Saves(held')
  /\ micro' = Tail(micro)
  /\ UNCHANGED <<page, loaded, waiting, storeVars, lost, raced, faulty, commands, reloads>>

\* Mutant: files.drop looks for its tabs after the rules took them away.
Dropped_After(file) == {t.id : t \in {u \in tabs' : u.kind = "held" /\ u.ref = file}}

\* The panes that go with a dropped copy: those of the tabs on it.
Dropped(file) == {t.id : t \in Showing("held", file)}
Drop ==
  /\ micro # <<>> /\ Now.cmd.op = "drop" /\ Knows(Now.cmd)
  /\ LET old  == {e \in held : e.id = Now.cmd.ref}
     IN  /\ tabs' = tabs \ Showing("held", Now.cmd.ref)
         /\ active' = IF \E t \in tabs' : t.id = active THEN active ELSE LastOf(tabs')
         /\ panes' = panes \ Dropped(Now.cmd.ref)
         /\ held' = held \ old
         /\ blobOps' = Deletes(old)
         /\ released' = released \cup {Now.cmd.ref}
         /\ catalogOps' = Saves(held')
  /\ micro' = Tail(micro)
  /\ UNCHANGED <<page, loaded, waiting, storeVars, lost, raced, faulty, fresh, commands, reloads>>

-----------------------------------------------------------------------------
(* The stores, each of which takes its transactions in order *)

\* keepBlob goes by the success of its request: the fling goes on while the
\* transaction is still to be committed.
PutSucceeds ==
  /\ micro = <<>> /\ blobOps # <<>> /\ Head(blobOps).op = "put"
  /\ blobOps' = <<[Head(blobOps) EXCEPT !.op = "commit"]>> \o Tail(blobOps)
  /\ waiting' = {IF w.step = "storing" /\ w.file \in Head(blobOps).ids
                 THEN [w EXCEPT !.step = "stored"] ELSE w : w \in waiting}
  /\ UNCHANGED <<page, loaded, tabVars, panes, micro, storeVars, catalogOps, history>>

\* The bytes the browser took and has not committed.
Committing == IF blobOps # <<>> /\ Head(blobOps).op = "commit" THEN Head(blobOps).ids ELSE {}

\* The head of blobOps is committed.
BlobsAfter(op) ==
  CASE op.op = "commit" -> blobs \cup op.ids
    [] op.op = "delete" -> blobs \ op.ids
    [] op.op = "sweep"  -> blobs \cap op.ids
BlobDone ==
  /\ micro = <<>> /\ blobOps # <<>> /\ Head(blobOps).op # "put"
  /\ blobOps' = Tail(blobOps)
  /\ blobs' = BlobsAfter(Head(blobOps))
  /\ UNCHANGED <<page, loaded, tabVars, panes, queueVars, catalog, catalogOps, history>>

\* Or it fails: a put refuses its fling, the others are let go, and a fling
\* that has gone on does not hear of it.
BlobFails ==
  /\ micro = <<>> /\ blobOps # <<>>
  /\ blobOps' = Tail(blobOps)
  /\ faulty' = (faulty \/ Head(blobOps).op \in {"delete", "sweep"})
  /\ lost' = lost \cup Committing
  /\ waiting' = {w \in waiting : ~(Head(blobOps).op = "put" /\ w.file \in Head(blobOps).ids)}
  /\ UNCHANGED <<page, loaded, tabVars, panes, micro, storeVars, catalogOps,
                 released, raced, fresh, commands, reloads>>

CatalogSaved ==
  /\ micro = <<>> /\ catalogOps # <<>>
  /\ catalogOps' = Tail(catalogOps) /\ catalog' = Head(catalogOps)
  /\ UNCHANGED <<page, loaded, tabVars, panes, queueVars, blobs, blobOps, history>>
CatalogFails ==
  /\ micro = <<>> /\ catalogOps # <<>>
  /\ catalogOps' = Tail(catalogOps) /\ faulty' = TRUE
  /\ UNCHANGED <<page, loaded, tabVars, panes, queueVars, storeVars, blobOps,
                 released, lost, raced, fresh, commands, reloads>>

\* The page is reloaded or dies, with whatever the stores have not carried out.
Reload ==
  /\ reloads < MaxReloads /\ reloads' = reloads + 1
  /\ page' = "opening" /\ loaded' = {}
  /\ tabs' = {} /\ active' = None /\ held' = {} /\ panes' = {}
  /\ waiting' = {} /\ micro' = <<>> /\ blobOps' = <<>> /\ catalogOps' = <<>>
  /\ lost' = lost \cup Committing
  /\ UNCHANGED <<storeVars, released, raced, faulty, fresh, commands>>

Next ==
  \/ LoadCatalog \/ CatalogUnread \/ AdoptCatalog
  \/ \E c \in {d \in Commands : Waits(d)} : DeliverWaiting(c)
  \/ \E n \in 1..MaxBatch : \E batch \in [1..n -> {d \in Commands : ~Waits(d)}] : DeliverNow(batch)
  \/ \E w \in waiting : Prepared(w) \/ Refused(w) \/ Stored(w)
  \/ Refuse \/ Reuse \/ Put \/ Focus \/ Close \/ Fling \/ Drop
  \/ PutSucceeds \/ BlobDone \/ BlobFails \/ CatalogSaved \/ CatalogFails
  \/ Reload

Spec == Init /\ [][Next]_vars

-----------------------------------------------------------------------------
(* Properties *)

\* "Opening the same file twice is a request to look at it, not to collect
\* tabs": no two tabs are on one path or on one copy, though commands that
\* prepared together looked at tabs that have changed since.
OneTabPerReference ==
  \A t, u \in tabs : t.kind # "extension" /\ t.kind = u.kind /\ t.ref = u.ref => t = u

\* A frame runs only for a tab in the strip, and a tab that runs or shows a
\* file has its frame; only a tab on a copy can be without one (show decides
\* before the commands read with it are applied).
FramesFollowTabs ==
  /\ panes \subseteq TabIds
  /\ \A t \in tabs : t.id \notin panes => t.kind = "held"

\* "Never an entry with no bytes": a copy the page shows, or would find on its
\* next load, has its bytes or has them in a transaction, whatever died or
\* failed between the two stores.  Copies dropped or superseded are past that
\* (their bytes go first), and so are flings that raced the load of the
\* catalog.  The copies lost are those of a put that succeeded and was not
\* committed, and those a catalog named that could not be read: no other.
CopiesKeepBytes ==
  ~raced => \A e \in held \cup loaded \cup catalog :
              e.id \in blobs \cup Committing \cup released \cup lost

\* Once the stores are quiet they agree with the page: the saved catalog is
\* the one it shows, and no bytes are kept that nobody names.
StorageSettles ==
  page = "live" /\ waiting = {} /\ micro = <<>> /\ blobOps = <<>> /\ catalogOps = <<>>
    /\ ~raced /\ ~faulty
  => catalog = held /\ blobs \subseteq HeldIds

=============================================================================
