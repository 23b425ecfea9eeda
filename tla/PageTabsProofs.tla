--------------------------- MODULE PageTabsProofs ---------------------------
(***************************************************************************)
(* The page's tabs and copies for any number of names, paths, commands and *)
(* reloads, and every failure of the stores: a copy keeps its bytes, no    *)
(* reference gets two tabs, and frames follow tabs.                        *)
(***************************************************************************)
EXTENDS PageTabs, TLAPS

Refs    == Names \cup Paths \cup Nat
Files   == [id : Nat, from : Paths]
Kinds   == {"extension", "file", "held"}
Ops     == {"add", "open", "fling", "show", "close", "focus", "drop"}
Command == {c \in [op : Ops, ref : Refs, activate : BOOLEAN] : c.op \in {"open", "fling"} => c.ref \in Paths}
Steps   == [cmd : Command, step : {"reading", "storing", "stored"}, file : Nat]
Applies == {r \in [cmd : Command, mount : BOOLEAN, file : Nat] : Waits(r.cmd) => r.mount}
BlobOps == [op : {"put", "commit", "delete", "sweep"}, ids : SUBSET Nat]

PageTypes ==
  /\ page \in {"opening", "loading", "live"}
  /\ loaded \subseteq Files /\ held \subseteq Files /\ catalog \subseteq Files
  /\ tabs \subseteq [id : Nat, kind : Kinds, ref : Refs]
  /\ waiting \subseteq Steps /\ micro \in Seq(Applies)
  /\ blobOps \in Seq(BlobOps) /\ catalogOps \in Seq(SUBSET Files)
  /\ blobs \subseteq Nat /\ released \subseteq Nat
  /\ fresh \in Nat /\ commands \in Nat

-----------------------------------------------------------------------------
(* Sequences *)

\* What is left of a queue whose head was taken.
LEMMA TailFacts ==
  ASSUME NEW S, NEW s \in Seq(S), s # <<>>
  PROVE  /\ Head(s) \in S /\ Head(s) = s[1] /\ Tail(s) \in Seq(S)
         /\ Len(s) \in Nat /\ Len(s) > 0 /\ Len(Tail(s)) = Len(s) - 1
         /\ \A i \in 1..Len(Tail(s)) : Tail(s)[i] = s[i + 1] /\ i + 1 \in 1..Len(s)
  OBVIOUS

\* A queue with one more at its end.
LEMMA AppendFacts ==
  ASSUME NEW S, NEW s \in Seq(S), NEW e \in S
  PROVE  /\ Append(s, e) \in Seq(S) /\ Len(Append(s, e)) = Len(s) + 1 /\ Len(s) \in Nat
         /\ Append(s, e) # <<>>
         /\ \A i \in 1..Len(s) : Append(s, e)[i] = s[i]
         /\ Append(s, e)[Len(s) + 1] = e
  OBVIOUS

\* A queue whose head is exchanged.
LEMMA HeadFacts ==
  ASSUME NEW S, NEW s \in Seq(S), s # <<>>, NEW e \in S
  PROVE  /\ <<e>> \o Tail(s) \in Seq(S) /\ Len(<<e>> \o Tail(s)) = Len(s)
         /\ <<e>> \o Tail(s) # <<>> /\ Head(<<e>> \o Tail(s)) = e
         /\ (<<e>> \o Tail(s))[1] = e
         /\ \A i \in 1..Len(s) : i # 1 => (<<e>> \o Tail(s))[i] = s[i]
  OBVIOUS

LEMMA SingleFacts ==
  ASSUME NEW S, NEW e \in S
  PROVE  <<e>> \in Seq(S) /\ Len(<<e>>) = 1 /\ <<e>>[1] = e /\ <<e>> # <<>>
  OBVIOUS

LEMMA EmptyFacts ==
  ASSUME NEW S
  PROVE  <<>> \in Seq(S) /\ Len(<<>>) = 0
  OBVIOUS

-----------------------------------------------------------------------------
(* Types *)

LEMMA InitTypes == Init => PageTypes
  BY EmptyFacts DEF Init, PageTypes

\* What a command can be is well typed.
LEMMA CommandTypes ==
  ASSUME PageTypes, NEW c \in Commands
  PROVE  c \in Command
  BY PewterAssumption, ZenonT(60) DEF Commands, Command, Ops, Refs, PageTypes, Files, TabIds, HeldIds

LEMMA ReadyTypes ==
  ASSUME NEW c \in Command, NEW file \in Nat
  PROVE  Ready(c, file) \in Applies
  BY DEF Ready, Applies, Mounts, Waits

\* What is applied next, and what is left.
LEMMA NowFacts ==
  ASSUME PageTypes, micro # <<>>
  PROVE  /\ Now \in Applies /\ Now = micro[1] /\ Tail(micro) \in Seq(Applies)
         /\ Len(micro) \in Nat /\ Len(micro) > 0 /\ Len(Tail(micro)) = Len(micro) - 1
         /\ \A i \in 1..Len(Tail(micro)) : Tail(micro)[i] = micro[i + 1] /\ i + 1 \in 1..Len(micro)
  BY TailFacts DEF Now, PageTypes

LEMMA BatchTypes ==
  ASSUME PageTypes, NEW n \in Nat, NEW batch \in [1..n -> {d \in Commands : ~Waits(d)}],
         DeliverNow(batch)
  PROVE  /\ micro' \in Seq(Applies) /\ Len(micro') = n /\ Len(batch) = n
         /\ \A i \in 1..n : micro'[i] = Ready(batch[i], None) /\ batch[i] \in Command /\ ~Waits(batch[i])
<1>1. Len(batch) = n
  OBVIOUS
<1>2. \A i \in 1..n : batch[i] \in Command /\ ~Waits(batch[i])
  BY CommandTypes
<1>3. micro' = [i \in 1..n |-> Ready(batch[i], None)]
  BY <1>1 DEF DeliverNow
<1>4. \A i \in 1..n : Ready(batch[i], None) \in Applies
  BY <1>2, ReadyTypes DEF None
<1> HIDE DEF Ready, None
<1>5. micro' \in Seq(Applies) /\ Len(micro') = n
  BY <1>3, <1>4
<1> QED
  BY <1>1, <1>2, <1>3, <1>5

\* The last of some tabs is one of them, when there is only one.
LEMMA LastOfOne ==
  ASSUME NEW ts, NEW t \in ts, \A u \in ts : u = t, t.id \in Nat
  PROVE  LastOf(ts) = t.id
  BY DEF LastOf

LEMMA TypesStep == PageTypes /\ [Next]_vars => PageTypes'
<1> SUFFICES ASSUME PageTypes, [Next]_vars PROVE PageTypes'
  OBVIOUS
<1> USE EmptyFacts, BoundsAssumption
<1>1. CASE LoadCatalog \/ CatalogUnread \/ AdoptCatalog
  <2>1. CASE LoadCatalog \/ CatalogUnread
    BY <2>1 DEF LoadCatalog, CatalogUnread, PageTypes, tabVars, queueVars, storeVars, opsVars, history
  <2>2. CASE AdoptCatalog
    <3> DEFINE op == [op |-> "sweep", ids |-> {e.id : e \in loaded}]
    <3>1. op \in BlobOps
      BY DEF PageTypes, Files, BlobOps
    <3>2. blobOps' \in Seq(BlobOps)
      BY <2>2, <3>1, AppendFacts DEF AdoptCatalog, PageTypes
    <3> QED
      BY <2>2, <3>2 DEF AdoptCatalog, PageTypes, queueVars, storeVars, history
  <2> QED
    BY <1>1, <2>1, <2>2
<1>2. ASSUME NEW c \in {d \in Commands : Waits(d)}, DeliverWaiting(c) PROVE PageTypes'
  <2>1. c \in Command
    BY CommandTypes
  <2>2. commands' \in Nat /\ 2 * commands' \in Nat
    BY <1>2 DEF DeliverWaiting, PageTypes
  <2>3. waiting' \subseteq Steps
    BY <1>2, <2>1, <2>2 DEF DeliverWaiting, PageTypes, Steps
  <2> QED
    BY <1>2, <2>2, <2>3 DEF DeliverWaiting, PageTypes, tabVars, storeVars, opsVars
<1>3. ASSUME NEW n \in 1..MaxBatch, NEW batch \in [1..n -> {d \in Commands : ~Waits(d)}],
             DeliverNow(batch)
      PROVE  PageTypes'
  <2>1. n \in Nat
    OBVIOUS
  <2>2. micro' \in Seq(Applies) /\ Len(batch) = n
    BY <1>3, <2>1, BatchTypes
  <2>3. commands' \in Nat
    BY <1>3, <2>1, <2>2 DEF DeliverNow, PageTypes
  <2> QED
    BY <1>3, <2>2, <2>3 DEF DeliverNow, PageTypes, tabVars, storeVars, opsVars
<1>4. ASSUME NEW w \in waiting, Prepared(w) PROVE PageTypes'
  <2> DEFINE op == [op |-> "put", ids |-> {w.file}]
  <2>1. w \in Steps /\ w.cmd \in Command /\ op \in BlobOps /\ Ready(w.cmd, None) \in Applies
    BY ReadyTypes DEF PageTypes, Steps, BlobOps, None
  <2>2. Append(blobOps, op) \in Seq(BlobOps) /\ <<Ready(w.cmd, None)>> \in Seq(Applies)
    BY <2>1, AppendFacts, SingleFacts DEF PageTypes
  <2>3. CASE w.cmd.op = "fling"
    <3>1. [w EXCEPT !.step = "storing"] \in Steps
      BY <2>1 DEF Steps
    <3>2. /\ waiting' = (waiting \ {w}) \cup {[w EXCEPT !.step = "storing"]}
          /\ blobOps' = Append(blobOps, op) /\ UNCHANGED micro
          /\ UNCHANGED <<page, loaded, tabVars, panes, storeVars, catalogOps, released, lost, faulty,
                         fresh, commands, reloads>>
      BY <1>4, <2>3 DEF Prepared
    <3>3. waiting' \subseteq Steps /\ blobOps' \in Seq(BlobOps)
      BY <2>2, <3>1, <3>2 DEF PageTypes
    <3> QED
      BY <3>2, <3>3 DEF PageTypes, tabVars, storeVars
  <2>4. CASE w.cmd.op # "fling"
    BY <1>4, <2>1, <2>2, <2>4
      DEF Prepared, PageTypes, tabVars, storeVars
  <2> QED
    BY <2>3, <2>4
<1>5. ASSUME NEW w \in waiting, Refused(w) \/ Stored(w) PROVE PageTypes'
  <2>1. w \in Steps /\ Ready(w.cmd, w.file) \in Applies
    BY ReadyTypes DEF PageTypes, Steps
  <2>2. <<Ready(w.cmd, w.file)>> \in Seq(Applies)
    BY <2>1, SingleFacts
  <2> QED
    BY <1>5, <2>2 DEF Refused, Stored, PageTypes, tabVars, storeVars, opsVars, history
<1>6. CASE Refuse \/ Reuse \/ Focus
  BY <1>6, NowFacts DEF Refuse, Reuse, Focus, PageTypes, tabVars, storeVars, opsVars, history
<1>7. CASE Put
  <2>1. Now \in Applies /\ Tail(micro) \in Seq(Applies) /\ Now.cmd \in Command
    BY <1>7, NowFacts DEF Put, Applies
  <2>2. NewTab(KindOf[Now.cmd.op], Now.cmd.ref) \in [id : Nat, kind : Kinds, ref : Refs]
    BY <1>7, <2>1 DEF Put, NewTab, KindOf, PageTypes, Kinds, Command
  <2>3. tabs' = tabs \cup {NewTab(KindOf[Now.cmd.op], Now.cmd.ref)}
    BY <1>7 DEF Put
  <2>4. fresh' \in Nat
    BY <1>7 DEF Put, PageTypes
  <2> QED
    BY <1>7, <2>1, <2>2, <2>3, <2>4 DEF Put, PageTypes, storeVars, opsVars
<1>8. CASE Close
  BY <1>8, NowFacts DEF Close, PageTypes, storeVars, opsVars, history
<1>9. CASE Fling
  <2> DEFINE old  == Previous(Now.cmd.ref)
             file == [id |-> Now.file, from |-> Now.cmd.ref]
  <2>1. Now \in Applies /\ Tail(micro) \in Seq(Applies) /\ Now.cmd \in Command
    BY <1>9, NowFacts DEF Fling, Applies
  <2>2. file \in Files /\ Now.file \in Nat /\ Now.file \in Refs
    BY <1>9, <2>1 DEF Fling, Applies, Command, Files, Refs
  <2>3. held' = (held \ old) \cup {file} /\ held' \subseteq Files
    BY <1>9, <2>2 DEF Fling, PageTypes
  <2>4. catalogOps' \in Seq(SUBSET Files)
    BY <1>9, <2>3, AppendFacts DEF Fling, Saves, PageTypes
  <2>5. old \subseteq held
    BY DEF Previous
  <2>6. blobOps' \in Seq(BlobOps) /\ released' \subseteq Nat
    <3>1. [op |-> "delete", ids |-> {e.id : e \in old}] \in BlobOps /\ {e.id : e \in old} \subseteq Nat
      BY <2>5 DEF PageTypes, Files, BlobOps
    <3> QED
      BY <1>9, <3>1, AppendFacts DEF Fling, Deletes, PageTypes
  <2>7. fresh' \in Nat
    BY <1>9 DEF Fling, PageTypes
  <2>8. tabs' \subseteq [id : Nat, kind : Kinds, ref : Refs]
    <3> DEFINE over == {t \in tabs : t.kind = "held" /\ \E e \in old : t.ref = e.id}
    <3>1. tabs' = IF over = {} THEN tabs \cup {NewTab("held", Now.file)}
                  ELSE (tabs \ over) \cup {[t EXCEPT !.ref = Now.file] : t \in over}
      BY <1>9 DEF Fling
    <3>2. NewTab("held", Now.file) \in [id : Nat, kind : Kinds, ref : Refs]
      BY <2>2 DEF NewTab, Kinds, PageTypes
    <3>3. \A t \in over : [t EXCEPT !.ref = Now.file] \in [id : Nat, kind : Kinds, ref : Refs]
      BY <2>2 DEF PageTypes
    <3> QED
      BY <3>1, <3>2, <3>3 DEF PageTypes
  <2> QED
    BY <1>9, <2>1, <2>3, <2>4, <2>6, <2>7, <2>8 DEF Fling, PageTypes, storeVars
<1>10. CASE Drop
  <2> DEFINE old == {e \in held : e.id = Now.cmd.ref}
  <2>1. Tail(micro) \in Seq(Applies)
    BY <1>10, NowFacts DEF Drop
  <2>2. held' = held \ old /\ held' \subseteq Files
    BY <1>10 DEF Drop, PageTypes
  <2>3. catalogOps' \in Seq(SUBSET Files)
    BY <1>10, <2>2, AppendFacts DEF Drop, Saves, PageTypes
  <2>4. blobOps' \in Seq(BlobOps) /\ released' \subseteq Nat
    <3>1. [op |-> "delete", ids |-> {e.id : e \in old}] \in BlobOps /\ {e.id : e \in old} \subseteq Nat
      BY DEF PageTypes, Files, BlobOps
    <3>2. Now.cmd.ref \in Nat
      BY <1>10 DEF Drop, Knows, HeldIds, PageTypes, Files
    <3> QED
      BY <1>10, <3>1, <3>2, AppendFacts DEF Drop, Deletes, PageTypes
  <2>5. tabs' \subseteq tabs
    BY <1>10 DEF Drop
  <2> QED
    BY <1>10, <2>1, <2>2, <2>3, <2>4, <2>5 DEF Drop, PageTypes, storeVars
<1>11. CASE PutSucceeds \/ BlobDone \/ BlobFails
  <2>1. blobOps # <<>>
    BY <1>11 DEF PutSucceeds, BlobDone, BlobFails
  <2>2. Tail(blobOps) \in Seq(BlobOps) /\ Head(blobOps) \in BlobOps
    BY <2>1, TailFacts DEF PageTypes
  <2>3. CASE PutSucceeds
    <3> DEFINE op == [Head(blobOps) EXCEPT !.op = "commit"]
    <3>1. op \in BlobOps
      BY <2>2 DEF BlobOps
    <3>2. blobOps' \in Seq(BlobOps)
      BY <2>1, <2>3, <3>1, HeadFacts DEF PutSucceeds, PageTypes
    <3>3. \A w \in waiting : [w EXCEPT !.step = "stored"] \in Steps
      BY DEF PageTypes, Steps
    <3>4. waiting' \subseteq Steps
      BY <2>3, <3>3 DEF PutSucceeds, PageTypes
    <3> QED
      BY <2>3, <3>2, <3>4 DEF PutSucceeds, PageTypes, tabVars, storeVars, history
  <2>4. CASE BlobDone
    <3>1. BlobsAfter(Head(blobOps)) \subseteq Nat
      BY <2>2, <2>4 DEF BlobDone, BlobsAfter, PageTypes, BlobOps
    <3> QED
      BY <2>2, <2>4, <3>1 DEF BlobDone, PageTypes, tabVars, queueVars, history
  <2>5. CASE BlobFails
    BY <2>2, <2>5 DEF BlobFails, PageTypes, tabVars, storeVars
  <2> QED
    BY <1>11, <2>3, <2>4, <2>5
<1>12. CASE CatalogSaved \/ CatalogFails
  <2>1. Tail(catalogOps) \in Seq(SUBSET Files) /\ Head(catalogOps) \in SUBSET Files
    BY <1>12, TailFacts DEF CatalogSaved, CatalogFails, PageTypes
  <2> QED
    BY <1>12, <2>1
      DEF CatalogSaved, CatalogFails, PageTypes, tabVars, queueVars, storeVars, history
<1>13. CASE Reload
  BY <1>13 DEF Reload, PageTypes, storeVars
<1>14. CASE UNCHANGED vars
  BY <1>14 DEF vars, PageTypes, tabVars, queueVars, storeVars, opsVars, history
<1> QED
  BY <1>1, <1>2, <1>3, <1>4, <1>5, <1>6, <1>7, <1>8, <1>9, <1>10, <1>11, <1>12, <1>13, <1>14
    DEF Next

-----------------------------------------------------------------------------
(* A file that is on its way to become a copy is not one yet. *)

Copy(e)    == e \in held \/ e \in loaded \/ e \in catalog \/ \E i \in 1..Len(catalogOps) : e \in catalogOps[i]
Used(x)    == \/ \E t \in tabs : t.kind = "held" /\ t.ref = x
              \/ \E e \in Files : Copy(e) /\ e.id = x
              \/ x \in released
Pending(x) == \/ \E w \in waiting : w.file = x
              \/ \E i \in 1..Len(micro) : micro[i].cmd.op = "fling" /\ micro[i].file = x

PendingIsNew ==
  \A x \in Nat : /\ Used(x) \/ Pending(x) => x <= 2 * commands
                 /\ ~(Used(x) /\ Pending(x))

\* Each is on its way once.
PendingOnce ==
  /\ \A v, w \in waiting : v.file = w.file => v = w
  /\ \A i \in 1..Len(micro) : micro[i].cmd.op = "fling" =>
       Len(micro) = 1 /\ \A w \in waiting : w.file # micro[i].file

\* A path has one copy at most.
OnePerPath(copies) == \A d, e \in copies : d.from = e.from => d = e
PathsHaveOneCopy ==
  /\ OnePerPath(held) /\ OnePerPath(loaded) /\ OnePerPath(catalog)
  /\ \A i \in 1..Len(catalogOps) : OnePerPath(catalogOps[i])

FilesInv == PendingIsNew /\ PendingOnce /\ PathsHaveOneCopy

LEMMA InitFiles == Init => FilesInv
<1> SUFFICES ASSUME Init PROVE FilesInv
  OBVIOUS
<1>1. \A x \in Nat : ~Used(x) /\ ~Pending(x)
  BY EmptyFacts DEF Init, Used, Pending, Copy
<1>2. PendingOnce /\ PathsHaveOneCopy
  BY EmptyFacts DEF Init, PendingOnce, PathsHaveOneCopy, OnePerPath
<1> QED
  BY <1>1, <1>2 DEF FilesInv, PendingIsNew

LEMMA Doubles ==
  ASSUME NEW a \in Nat, NEW b \in Nat, a <= b
  PROVE  /\ 2 * a \in Nat /\ 2 * b \in Nat /\ 2 * a <= 2 * b /\ (b = a + 1 => 2 * a < 2 * b)
         /\ \A x \in Nat : x <= 2 * a => x <= 2 * b
  OBVIOUS

LEMMA LessIsNew ==
  ASSUME PendingIsNew, commands \in Nat, commands' \in Nat, commands' >= commands,
         \A x \in Nat : Used(x)' => Used(x), \A x \in Nat : Pending(x)' => Pending(x)
  PROVE  PendingIsNew'
<1> SUFFICES ASSUME NEW x \in Nat
             PROVE  /\ Used(x)' \/ Pending(x)' => x <= 2 * commands'
                    /\ ~(Used(x)' /\ Pending(x)')
  BY DEF PendingIsNew
<1>1. (Used(x)' => Used(x)) /\ (Pending(x)' => Pending(x))
  OBVIOUS
<1>2. (Used(x) \/ Pending(x) => x <= 2 * commands) /\ ~(Used(x) /\ Pending(x))
  BY DEF PendingIsNew
<1>3. x <= 2 * commands => x <= 2 * commands'
  BY Doubles
<1> QED
  BY <1>1, <1>2, <1>3, Zenon

\* A task that applies a command leaves fewer of them.
LEMMA AppliedIsLess ==
  ASSUME PageTypes, PendingOnce, micro # <<>>, micro' = Tail(micro), waiting' = waiting
  PROVE  PendingOnce' /\ \A x \in Nat : Pending(x)' => Pending(x)
<1>1. /\ Len(micro') = Len(micro) - 1 /\ Len(micro) \in Nat
      /\ \A i \in 1..Len(micro') : micro'[i] = micro[i + 1] /\ i + 1 \in 1..Len(micro)
  BY NowFacts
<1>2. \A x \in Nat : Pending(x)' => Pending(x)
  BY <1>1 DEF Pending
<1>3. ASSUME NEW i \in 1..Len(micro') PROVE micro'[i].cmd.op # "fling"
  BY <1>1 DEF PendingOnce
<1>4. PendingOnce'
  BY <1>3 DEF PendingOnce
<1> QED
  BY <1>2, <1>4

\* A catalog of the page's copies is saved behind the others.
LEMMA SavedFacts ==
  ASSUME PageTypes, NEW copies \in SUBSET Files, catalogOps' = Saves(copies)
  PROVE  /\ Len(catalogOps') = Len(catalogOps) + 1 /\ Len(catalogOps) \in Nat
         /\ catalogOps'[Len(catalogOps) + 1] = copies
         /\ \A i \in 1..Len(catalogOps) : catalogOps'[i] = catalogOps[i]
         /\ \A i \in 1..Len(catalogOps') : i \in 1..Len(catalogOps) \/ i = Len(catalogOps) + 1
<1>1. catalogOps \in Seq(SUBSET Files)
  BY DEF PageTypes
<1> QED
  BY <1>1, AppendFacts DEF Saves

\* A fling's file is the only one that becomes used, and it is not pending then.
LEMMA FlingFiles == PageTypes /\ FilesInv /\ Fling => FilesInv'
<1> SUFFICES ASSUME PageTypes, FilesInv, Fling PROVE FilesInv'
  OBVIOUS
<1> DEFINE old  == Previous(Now.cmd.ref)
           file == [id |-> Now.file, from |-> Now.cmd.ref]
           over == {t \in tabs : t.kind = "held" /\ \E e \in old : t.ref = e.id}
<1>1. /\ Now \in Applies /\ Now = micro[1] /\ Len(micro) = 1 /\ Len(micro') = 0
      /\ \A w \in waiting : w.file # Now.file
      /\ Now.cmd \in Command /\ Now.file \in Nat /\ Now.cmd.ref \in Paths
  <2>1. Now \in Applies /\ Now = micro[1] /\ Len(micro) \in Nat /\ Len(micro) > 0
        /\ Len(micro') = Len(micro) - 1
    BY NowFacts DEF Fling
  <2> QED
    BY <2>1 DEF Fling, FilesInv, PendingOnce, Applies, Command
<1>2. /\ held' = (held \ old) \cup {file} /\ waiting' = waiting /\ commands' = commands
      /\ loaded' = loaded /\ catalog' = catalog /\ catalogOps' = Saves(held')
      /\ released' = released \cup {e.id : e \in old}
      /\ tabs' = IF over = {} THEN tabs \cup {NewTab("held", Now.file)}
                 ELSE (tabs \ over) \cup {[t EXCEPT !.ref = Now.file] : t \in over}
  BY DEF Fling, storeVars
<1>3. file \in Files /\ held' \in SUBSET Files /\ old \subseteq held /\ commands \in Nat
      /\ held \subseteq Files
  BY <1>1, <1>2 DEF Files, PageTypes, Previous
<1>4. ASSUME NEW e \in Files, Copy(e)' PROVE Copy(e) \/ e = file
  BY <1>2, <1>3, <1>4, SavedFacts DEF Copy
<1>5. ASSUME NEW x \in Nat, Used(x)' PROVE Used(x) \/ x = Now.file
  <2>1. CASE \E t \in tabs' : t.kind = "held" /\ t.ref = x
    <3>1. PICK t \in tabs' : t.kind = "held" /\ t.ref = x
      BY <2>1
    <3>2. CASE t \in tabs
      BY <3>1, <3>2 DEF Used
    <3>3. CASE t = NewTab("held", Now.file)
      BY <3>1, <3>3 DEF NewTab
    <3>4. CASE \E u \in over : t = [u EXCEPT !.ref = Now.file]
      BY <3>1, <3>4 DEF PageTypes
    <3> QED
      BY <1>2, <3>2, <3>3, <3>4
  <2>2. CASE \E e \in Files : Copy(e)' /\ e.id = x
    BY <1>4, <2>2 DEF Used
  <2>3. CASE x \in released'
    <3>1. \A e \in old : Copy(e) /\ e \in Files
      BY <1>3 DEF Copy
    <3> QED
      BY <1>2, <2>3, <3>1 DEF Used
  <2> QED
    BY <1>5, <2>1, <2>2, <2>3 DEF Used
<1>6. Pending(Now.file)
  BY <1>1 DEF Fling, Pending
<1>7. ASSUME NEW x \in Nat, Pending(x)' PROVE Pending(x) /\ x # Now.file
  BY <1>1, <1>2, <1>7 DEF Pending
<1>8. PendingIsNew'
  BY <1>1, <1>2, <1>3, <1>5, <1>6, <1>7 DEF FilesInv, PendingIsNew
<1>9. PendingOnce'
  BY <1>1, <1>2 DEF FilesInv, PendingOnce
<1>10. OnePerPath(held')
  BY <1>2 DEF FilesInv, PathsHaveOneCopy, OnePerPath, Previous
<1>11. PathsHaveOneCopy'
  <2>1. \A i \in 1..Len(catalogOps') : OnePerPath(catalogOps'[i])
    <3>1. \A i \in 1..Len(catalogOps') : i \in 1..Len(catalogOps) \/ i = Len(catalogOps) + 1
      BY <1>2, <1>3, SavedFacts
    <3>2. catalogOps'[Len(catalogOps) + 1] = held'
      BY <1>2, <1>3, SavedFacts
    <3>3. \A i \in 1..Len(catalogOps) : catalogOps'[i] = catalogOps[i] /\ OnePerPath(catalogOps[i])
      BY <1>2, <1>3, SavedFacts DEF FilesInv, PathsHaveOneCopy
    <3> QED
      BY <1>10, <3>1, <3>2, <3>3
  <2> QED
    BY <1>2, <1>10, <2>1 DEF FilesInv, PathsHaveOneCopy, OnePerPath
<1> QED
  BY <1>8, <1>9, <1>11 DEF FilesInv

LEMMA FilesStep == PageTypes /\ PageTypes' /\ FilesInv /\ [Next]_vars => FilesInv'
<1> SUFFICES ASSUME PageTypes, PageTypes', FilesInv, [Next]_vars PROVE FilesInv'
  OBVIOUS
<1> USE EmptyFacts DEF FilesInv
<1>0. commands \in Nat /\ commands' \in Nat
  BY DEF PageTypes
<1>1. CASE LoadCatalog \/ CatalogUnread \/ AdoptCatalog
  <2>1. /\ UNCHANGED <<tabs, waiting, micro, catalog, catalogOps, released, commands>>
        /\ loaded' \subseteq catalog \cup loaded /\ held' \subseteq held \cup loaded
        /\ held' = held \/ held' = loaded
        /\ loaded' = catalog \/ loaded' = {}
    BY <1>1 DEF LoadCatalog, CatalogUnread, AdoptCatalog, tabVars, queueVars, storeVars, opsVars, history
  <2>2. \A x \in Nat : (Used(x)' => Used(x)) /\ (Pending(x)' => Pending(x))
    BY <2>1 DEF Used, Copy, Pending
  <2>3. PendingOnce' /\ PathsHaveOneCopy'
    BY <2>1 DEF PendingOnce, PathsHaveOneCopy, OnePerPath
  <2> QED
    BY <1>0, <2>1, <2>2, <2>3, LessIsNew
<1>2. ASSUME NEW c \in {d \in Commands : Waits(d)}, DeliverWaiting(c) PROVE FilesInv'
  <2> DEFINE new == [cmd |-> c, step |-> "reading", file |-> 2 * commands']
  <2>1. /\ waiting' = waiting \cup {new} /\ commands' = commands + 1 /\ micro = <<>> /\ micro' = <<>>
        /\ UNCHANGED <<tabs, held, loaded, catalog, catalogOps, released>>
    BY <1>2 DEF DeliverWaiting, tabVars, storeVars, opsVars
  <2>2. ASSUME NEW x \in Nat PROVE /\ Used(x)' => Used(x)
                                   /\ Pending(x)' => Pending(x) \/ x = 2 * commands'
    BY <2>1 DEF Used, Copy, Pending
  <2>3. \A x \in Nat : Used(x) \/ Pending(x) => x # 2 * commands' /\ x <= 2 * commands'
    BY <1>0, <2>1 DEF PendingIsNew
  <2>4. PendingIsNew'
    <3> SUFFICES ASSUME NEW x \in Nat
                 PROVE  /\ Used(x)' \/ Pending(x)' => x <= 2 * commands'
                        /\ ~(Used(x)' /\ Pending(x)')
      BY DEF PendingIsNew
    <3>0. commands' <= commands'
      BY <1>0
    <3>1. 2 * commands' <= 2 * commands'
      BY <1>0, <3>0, Doubles, Zenon
    <3>2. ~(Used(x) /\ Pending(x))
      BY DEF PendingIsNew
    <3> QED
      BY <2>2, <2>3, <3>1, <3>2, Zenon
  <2>5. \A w \in waiting : w.file # new.file
    BY <2>3 DEF Pending, PageTypes, Steps
  <2>6. PendingOnce'
    BY <2>1, <2>5 DEF PendingOnce
  <2>7. PathsHaveOneCopy'
    BY <2>1 DEF PathsHaveOneCopy
  <2> QED
    BY <2>4, <2>6, <2>7
<1>3. ASSUME NEW n \in 1..MaxBatch, NEW batch \in [1..n -> {d \in Commands : ~Waits(d)}],
             DeliverNow(batch)
      PROVE  FilesInv'
  <2>1. n \in Nat
    BY BoundsAssumption
  <2>2. \A i \in 1..Len(micro') : micro'[i].cmd.op # "fling"
    <3>1. Len(micro') = n /\ \A i \in 1..n : micro'[i] = Ready(batch[i], None) /\ ~Waits(batch[i])
      BY <1>3, <2>1, BatchTypes
    <3>2. \A i \in 1..n : Ready(batch[i], None).cmd = batch[i]
      BY DEF Ready
    <3>3. \A c : ~Waits(c) => c.op # "fling"
      BY DEF Waits
    <3> QED
      BY <3>1, <3>2, <3>3
  <2>3. /\ UNCHANGED <<tabs, held, loaded, catalog, catalogOps, released, waiting>>
        /\ commands' >= commands
    BY <1>0, <1>3, <2>1, BatchTypes DEF DeliverNow, tabVars, storeVars, opsVars
  <2>4. \A x \in Nat : (Used(x)' => Used(x)) /\ (Pending(x)' => Pending(x))
    BY <2>2, <2>3 DEF Used, Copy, Pending
  <2>5. PendingOnce' /\ PathsHaveOneCopy'
    BY <2>2, <2>3 DEF PendingOnce, PathsHaveOneCopy
  <2> QED
    BY <1>0, <2>3, <2>4, <2>5, LessIsNew
<1>4. ASSUME NEW w \in waiting, Prepared(w) PROVE FilesInv'
  <2>1. /\ UNCHANGED <<tabs, held, loaded, catalog, catalogOps, released, commands>>
        /\ micro = <<>> /\ w \in Steps
    BY <1>4 DEF Prepared, tabVars, storeVars, PageTypes
  <2>2. CASE w.cmd.op = "fling"
    <3>1. waiting' = (waiting \ {w}) \cup {[w EXCEPT !.step = "storing"]} /\ micro' = <<>>
      BY <1>4, <2>1, <2>2 DEF Prepared
    <3>2. [w EXCEPT !.step = "storing"].file = w.file
      BY <2>1 DEF Steps
    <3>3. \A x \in Nat : (Used(x)' => Used(x)) /\ (Pending(x)' => Pending(x))
      BY <2>1, <3>1, <3>2 DEF Used, Copy, Pending
    <3> DEFINE next == [w EXCEPT !.step = "storing"]
    <3>4. \A u, v \in waiting' : u.file = v.file => u = v
      <4>1. waiting' = (waiting \ {w}) \cup {next} /\ next.file = w.file
        BY <3>1, <3>2
      <4> HIDE DEF next
      <4> QED
        BY <4>1 DEF PendingOnce
    <3>5. PendingOnce' /\ PathsHaveOneCopy'
      BY <2>1, <3>1, <3>4 DEF PendingOnce, PathsHaveOneCopy
    <3> QED
      BY <1>0, <2>1, <3>3, <3>5, LessIsNew
  <2>3. CASE w.cmd.op # "fling"
    <3>1. waiting' = waiting \ {w} /\ micro' = <<Ready(w.cmd, None)>>
      BY <1>4, <2>3 DEF Prepared
    <3>2. Len(micro') = 1 /\ micro'[1].cmd.op # "fling"
      BY <2>3, <3>1 DEF Ready
    <3>3. \A x \in Nat : (Used(x)' => Used(x)) /\ (Pending(x)' => Pending(x))
      BY <2>1, <3>1, <3>2 DEF Used, Copy, Pending
    <3>4. PendingOnce' /\ PathsHaveOneCopy'
      BY <2>1, <3>1, <3>2 DEF PendingOnce, PathsHaveOneCopy
    <3> QED
      BY <1>0, <2>1, <3>3, <3>4, LessIsNew
  <2> QED
    BY <2>2, <2>3
<1>5. ASSUME NEW w \in waiting, Refused(w) \/ Stored(w) PROVE FilesInv'
  <2>1. /\ UNCHANGED <<tabs, held, loaded, catalog, catalogOps, released, commands>>
        /\ micro = <<>> /\ waiting' = waiting \ {w}
        /\ micro' = <<>> \/ micro' = <<Ready(w.cmd, w.file)>>
    BY <1>5 DEF Refused, Stored, tabVars, storeVars, opsVars, history
  <2>2. Len(micro') \in {0, 1} /\ (Len(micro') = 1 => micro'[1].file = w.file)
    BY <2>1 DEF Ready
  <2>3. \A x \in Nat : (Used(x)' => Used(x)) /\ (Pending(x)' => Pending(x))
    BY <2>1, <2>2 DEF Used, Copy, Pending
  <2>4. PendingOnce' /\ PathsHaveOneCopy'
    BY <2>1, <2>2 DEF PendingOnce, PathsHaveOneCopy
  <2> QED
    BY <1>0, <2>1, <2>3, <2>4, LessIsNew
<1>6. CASE Refuse \/ Reuse \/ Focus \/ Close
  <2>1. /\ UNCHANGED <<held, loaded, catalog, catalogOps, released, commands, waiting>>
        /\ tabs' \subseteq tabs /\ micro # <<>> /\ micro' = Tail(micro)
    BY <1>6 DEF Refuse, Reuse, Focus, Close, tabVars, storeVars, opsVars, history
  <2>2. \A x \in Nat : Used(x)' => Used(x)
    BY <2>1 DEF Used, Copy
  <2>3. PathsHaveOneCopy'
    BY <2>1 DEF PathsHaveOneCopy
  <2> QED
    BY <1>0, <2>1, <2>2, <2>3, AppliedIsLess, LessIsNew
<1>7. CASE Put
  <2> DEFINE t == NewTab(KindOf[Now.cmd.op], Now.cmd.ref)
  <2>1. /\ UNCHANGED <<held, loaded, catalog, catalogOps, released, commands, waiting>>
        /\ tabs' = tabs \cup {t} /\ micro # <<>> /\ micro' = Tail(micro)
    BY <1>7 DEF Put, storeVars, opsVars
  <2>2. t.kind = "held" => \E e \in held : t.ref = e.id
    BY <1>7 DEF Put, Knows, HeldIds, NewTab, KindOf
  <2>3. \A x \in Nat : Used(x)' => Used(x)
    BY <2>1, <2>2 DEF Used, Copy, PageTypes
  <2>4. PathsHaveOneCopy'
    BY <2>1 DEF PathsHaveOneCopy
  <2> QED
    BY <1>0, <2>1, <2>3, <2>4, AppliedIsLess, LessIsNew
<1>8. CASE Fling
  BY <1>8, FlingFiles
<1>9. CASE Drop
  <2>1. /\ UNCHANGED <<loaded, catalog, commands, waiting>> /\ held' \subseteq held
        /\ tabs' \subseteq tabs /\ micro # <<>> /\ micro' = Tail(micro)
        /\ catalogOps' = Saves(held') /\ released' = released \cup {Now.cmd.ref}
    BY <1>9 DEF Drop, storeVars
  <2>2. \E e \in held : e.id = Now.cmd.ref
    BY <1>9 DEF Drop, Knows, HeldIds
  <2>3. held' \in SUBSET Files /\ held \subseteq Files
    BY <2>1 DEF PageTypes
  <2>4. \A e \in Files : Copy(e)' => Copy(e)
    BY <2>1, <2>3, SavedFacts DEF Copy
  <2>5. \A x \in Nat : Used(x)' => Used(x)
    <3>1. \A e \in held : Copy(e) /\ e \in Files
      BY <2>3 DEF Copy
    <3> QED
      BY <2>1, <2>2, <2>4, <3>1 DEF Used
  <2>6. PathsHaveOneCopy'
    BY <2>1, <2>3, SavedFacts DEF PathsHaveOneCopy, OnePerPath
  <2> QED
    BY <1>0, <2>1, <2>5, <2>6, AppliedIsLess, LessIsNew
<1>10. CASE PutSucceeds \/ BlobDone \/ BlobFails
  <2>1. /\ UNCHANGED <<tabs, held, loaded, catalog, catalogOps, released, commands, micro>>
        /\ micro = <<>>
    BY <1>10 DEF PutSucceeds, BlobDone, BlobFails, tabVars, queueVars, storeVars, history
  <2>2. /\ \A v \in waiting' : \E w \in waiting : v.file = w.file
        /\ \A v, w \in waiting' : v.file = w.file => v = w
    <3>1. CASE PutSucceeds
      <4> DEFINE mark(w) == IF w.step = "storing" /\ w.file \in Head(blobOps).ids
                            THEN [w EXCEPT !.step = "stored"] ELSE w
      <4>1. waiting' = {mark(w) : w \in waiting}
        BY <3>1 DEF PutSucceeds
      <4>2. \A w \in waiting : mark(w).file = w.file
        BY DEF PageTypes, Steps
      <4> HIDE DEF mark
      <4> QED
        BY <4>1, <4>2 DEF PendingOnce
    <3>2. CASE BlobDone \/ BlobFails
      BY <3>2 DEF BlobDone, BlobFails, PendingOnce, queueVars
    <3> QED
      BY <1>10, <3>1, <3>2
  <2>3. \A x \in Nat : (Used(x)' => Used(x)) /\ (Pending(x)' => Pending(x))
    BY <2>1, <2>2 DEF Used, Copy, Pending
  <2>4. PendingOnce' /\ PathsHaveOneCopy'
    BY <2>1, <2>2 DEF PendingOnce, PathsHaveOneCopy
  <2> QED
    BY <1>0, <2>1, <2>3, <2>4, LessIsNew
<1>11. CASE CatalogSaved \/ CatalogFails
  <2>1. /\ UNCHANGED <<tabs, held, loaded, released, commands, micro, waiting>>
        /\ catalogOps # <<>> /\ catalogOps' = Tail(catalogOps)
        /\ catalog' = catalog \/ catalog' = Head(catalogOps)
    BY <1>11 DEF CatalogSaved, CatalogFails, tabVars, queueVars, storeVars, history
  <2>2. /\ Head(catalogOps) = catalogOps[1] /\ Len(catalogOps) \in Nat /\ 1 \in 1..Len(catalogOps)
        /\ \A i \in 1..Len(catalogOps') : catalogOps'[i] = catalogOps[i + 1] /\ i + 1 \in 1..Len(catalogOps)
    BY <2>1, TailFacts DEF PageTypes
  <2>3. \A e \in Files : Copy(e)' => Copy(e)
    BY <2>1, <2>2 DEF Copy
  <2>4. \A x \in Nat : (Used(x)' => Used(x)) /\ (Pending(x)' => Pending(x))
    BY <2>1, <2>3 DEF Used, Pending
  <2>5. PendingOnce' /\ PathsHaveOneCopy'
    BY <2>1, <2>2 DEF PendingOnce, PathsHaveOneCopy
  <2> QED
    BY <1>0, <2>1, <2>4, <2>5, LessIsNew
<1>12. CASE Reload
  <2>1. /\ UNCHANGED <<catalog, released, commands>> /\ tabs' = {} /\ held' = {} /\ loaded' = {}
        /\ waiting' = {} /\ micro' = <<>> /\ catalogOps' = <<>>
    BY <1>12 DEF Reload, storeVars
  <2>2. \A x \in Nat : (Used(x)' => Used(x)) /\ (Pending(x)' => Pending(x))
    BY <2>1 DEF Used, Copy, Pending
  <2>3. PendingOnce' /\ PathsHaveOneCopy'
    BY <2>1 DEF PendingOnce, PathsHaveOneCopy, OnePerPath
  <2> QED
    BY <1>0, <2>1, <2>2, <2>3, LessIsNew
<1>13. CASE UNCHANGED vars
  BY <1>13 DEF vars, PendingIsNew, PendingOnce, PathsHaveOneCopy, Used, Pending, Copy,
               tabVars, queueVars, storeVars, opsVars, history
<1> QED
  BY <1>1, <1>2, <1>3, <1>4, <1>5, <1>6, <1>7, <1>8, <1>9, <1>10, <1>11, <1>12, <1>13
    DEF Next

-----------------------------------------------------------------------------
(* Tabs and frames *)

\* Ids name tabs, and the next one is new.
TabIdsAreNew ==
  /\ \A t \in tabs : t.id <= 2 * fresh
  /\ \A t, u \in tabs : t.id = u.id => t = u

TabInv == TabIdsAreNew /\ OneTabPerReference /\ FramesFollowTabs

LEMMA InitTabs == Init => TabInv
  BY DEF Init, TabInv, TabIdsAreNew, OneTabPerReference, FramesFollowTabs, TabIds

\* A new tab on a reference that has none, with its pane unless it is a copy's.
LEMMA NewTabFacts ==
  ASSUME PageTypes, TabInv, NEW kind, NEW ref,
         kind # "extension" => Showing(kind, ref) = {},
         tabs' = tabs \cup {NewTab(kind, ref)}, fresh' = fresh + 1,
         panes' = panes \cup {2 * fresh + 1} \/ (panes' = panes /\ kind = "held")
  PROVE  TabInv'
<1> DEFINE t == NewTab(kind, ref)
<1>1. t.id = 2 * fresh + 1 /\ t.kind = kind /\ t.ref = ref
  BY DEF NewTab
<1>2. 2 * fresh < 2 * fresh' /\ 2 * fresh <= 2 * fresh' /\ fresh \in Nat
      /\ 2 * fresh \in Nat /\ 2 * fresh' \in Nat
  BY Doubles DEF PageTypes
<1>3. t.id <= 2 * fresh' /\ \A u \in tabs : u.id <= 2 * fresh' /\ u.id # t.id
  BY <1>1, <1>2 DEF TabInv, TabIdsAreNew, PageTypes
<1> HIDE DEF t
<1>4. tabs' = tabs \cup {t}
  BY DEF t
<1>5. TabIdsAreNew'
  BY <1>3, <1>4 DEF TabInv, TabIdsAreNew
<1>6. OneTabPerReference'
  BY <1>1, <1>4 DEF TabInv, OneTabPerReference, Showing
<1>7. FramesFollowTabs'
  BY <1>1, <1>4 DEF TabInv, FramesFollowTabs, TabIds
<1> QED
  BY <1>5, <1>6, <1>7 DEF TabInv

\* A fling that takes over the tab of the copy it supersedes.
LEMMA TakenOver ==
  ASSUME PageTypes, TabInv, NEW t \in tabs, t.kind = "held", NEW file,
         Showing("held", file) = {},
         tabs' = (tabs \ {t}) \cup {[t EXCEPT !.ref = file]}, fresh' = fresh,
         panes' = panes \cup {t.id}
  PROVE  TabInv'
<1> DEFINE n == [t EXCEPT !.ref = file]
<1>1. n.id = t.id /\ n.kind = "held" /\ n.ref = file
  BY DEF PageTypes
<1> HIDE DEF n
<1>2. tabs' = (tabs \ {t}) \cup {n}
  BY DEF n
<1>3. TabIdsAreNew'
  <2>1. \A u \in tabs' : u.id <= 2 * fresh
    BY <1>1, <1>2 DEF TabInv, TabIdsAreNew
  <2>2. \A u, v \in tabs' : u.id = v.id => u = v
    BY <1>1, <1>2 DEF TabInv, TabIdsAreNew
  <2> QED
    BY <2>1, <2>2 DEF TabIdsAreNew
<1>4. OneTabPerReference'
  BY <1>1, <1>2 DEF TabInv, OneTabPerReference, Showing
<1>5. FramesFollowTabs'
  BY <1>1, <1>2 DEF TabInv, FramesFollowTabs, TabIds
<1> QED
  BY <1>3, <1>4, <1>5 DEF TabInv

LEMMA FlingTabs == PageTypes /\ FilesInv /\ TabInv /\ Fling => TabInv'
<1> SUFFICES ASSUME PageTypes, FilesInv, TabInv, Fling PROVE TabInv'
  OBVIOUS
<1> DEFINE old  == Previous(Now.cmd.ref)
           over == {t \in tabs : t.kind = "held" /\ \E e \in old : t.ref = e.id}
           id   == IF over = {} THEN 2 * fresh + 1 ELSE LastOf(over)
<1>1. /\ Now \in Applies /\ Now = micro[1] /\ 1 \in 1..Len(micro) /\ Now.file \in Nat /\ Now.mount
  <2>1. Now \in Applies /\ Now = micro[1] /\ Len(micro) \in Nat /\ Len(micro) > 0
    BY NowFacts DEF Fling
  <2>2. Now.mount
    BY <2>1 DEF Applies, Waits, Fling
  <2> QED
    BY <2>1, <2>2 DEF Applies
<1>2. Showing("held", Now.file) = {}
  <2>1. Pending(Now.file)
    BY <1>1 DEF Fling, Pending
  <2>2. ~Used(Now.file)
    BY <1>1, <2>1 DEF FilesInv, PendingIsNew
  <2> QED
    BY <2>2 DEF Used, Showing
<1>3. /\ tabs' = IF over = {} THEN tabs \cup {NewTab("held", Now.file)}
                 ELSE (tabs \ over) \cup {[t EXCEPT !.ref = Now.file] : t \in over}
      /\ fresh' = IF over = {} THEN fresh + 1 ELSE fresh
      /\ panes' = panes \cup {id}
  BY <1>1 DEF Fling, WithPane
<1>4. CASE over = {}
  BY <1>2, <1>3, <1>4, NewTabFacts
<1>5. CASE over # {}
  <2>1. PICK t \in over : TRUE
    BY <1>5
  <2>2. \A d, e \in old : d = e
    BY DEF Previous, FilesInv, PathsHaveOneCopy, OnePerPath
  <2>3. \A u \in over : u = t
    <3>1. \A u \in over : u.ref = t.ref /\ u.kind = "held" /\ u \in tabs /\ t.kind = "held" /\ t \in tabs
      BY <2>1, <2>2
    <3> HIDE DEF over
    <3> QED
      BY <2>1, <3>1 DEF TabInv, OneTabPerReference
  <2>4. t.id \in Nat /\ t \in tabs /\ t.kind = "held"
    BY <2>1 DEF PageTypes
  <2>5. LastOf(over) = t.id
    BY <2>1, <2>3, <2>4, LastOfOne
  <2>6. over = {t}
    BY <2>1, <2>3
  <2>7. tabs' = (tabs \ {t}) \cup {[t EXCEPT !.ref = Now.file]} /\ fresh' = fresh
        /\ panes' = panes \cup {t.id}
    BY <1>3, <1>5, <2>5, <2>6
  <2> QED
    BY <1>2, <2>4, <2>7, TakenOver
<1> QED
  BY <1>4, <1>5

LEMMA TabsStep == PageTypes /\ FilesInv /\ TabInv /\ [Next]_vars => TabInv'
<1> SUFFICES ASSUME PageTypes, FilesInv, TabInv, [Next]_vars PROVE TabInv'
  OBVIOUS
<1>1. CASE UNCHANGED <<tabs, panes, fresh>>
  BY <1>1 DEF TabInv, TabIdsAreNew, OneTabPerReference, FramesFollowTabs, TabIds
<1>2. CASE Reuse
  <2>1. UNCHANGED <<tabs, fresh>> /\ \E t \in tabs : panes' = panes \/ panes' = panes \cup {t.id}
    BY <1>2 DEF Reuse, Reused, Showing, WithPane, history
  <2> QED
    BY <2>1 DEF TabInv, TabIdsAreNew, OneTabPerReference, FramesFollowTabs, TabIds
<1>3. CASE Put
  <2> DEFINE kind == KindOf[Now.cmd.op]
  <2>1. Now \in Applies /\ (Now.cmd.op \in {"add", "open"} => Now.mount)
    BY <1>3, NowFacts DEF Put, Applies, Waits
  <2>2. kind # "extension" => Showing(kind, Now.cmd.ref) = {}
    BY <1>3 DEF Put, Reused, KindOf
  <2>3. panes' = panes \cup {2 * fresh + 1} \/ (panes' = panes /\ kind = "held")
    BY <1>3, <2>1 DEF Put, WithPane, NewTab, KindOf
  <2>4. tabs' = tabs \cup {NewTab(kind, Now.cmd.ref)} /\ fresh' = fresh + 1
    BY <1>3 DEF Put
  <2> HIDE DEF kind
  <2> QED
    BY <2>2, <2>3, <2>4, NewTabFacts
<1>4. CASE Close
  <2>1. tabs' = {t \in tabs : t.id # Now.cmd.ref} /\ panes' = panes \ {Now.cmd.ref} /\ fresh' = fresh
    BY <1>4 DEF Close, history
  <2> QED
    BY <2>1 DEF TabInv, TabIdsAreNew, OneTabPerReference, FramesFollowTabs, TabIds
<1>5. CASE Fling
  BY <1>5, FlingTabs
<1>6. CASE Drop
  <2>1. /\ tabs' = tabs \ Showing("held", Now.cmd.ref) /\ fresh' = fresh
        /\ panes' = panes \ {t.id : t \in Showing("held", Now.cmd.ref)}
    BY <1>6 DEF Drop, Dropped
  <2> QED
    BY <2>1 DEF TabInv, TabIdsAreNew, OneTabPerReference, FramesFollowTabs, TabIds, Showing
<1>7. CASE Reload
  <2>1. tabs' = {} /\ panes' = {}
    BY <1>7 DEF Reload
  <2> QED
    BY <2>1 DEF TabInv, TabIdsAreNew, OneTabPerReference, FramesFollowTabs, TabIds
<1>8. CASE \/ LoadCatalog \/ CatalogUnread \/ AdoptCatalog \/ Refuse \/ Focus
           \/ PutSucceeds \/ BlobDone \/ BlobFails \/ CatalogSaved \/ CatalogFails \/ UNCHANGED vars
  <2>1. UNCHANGED <<tabs, panes, fresh>>
    BY <1>8 DEF LoadCatalog, CatalogUnread, AdoptCatalog, Refuse, Focus, PutSucceeds, BlobDone,
                BlobFails, CatalogSaved, CatalogFails, vars, tabVars, history
  <2> QED
    BY <1>1, <2>1
<1>9. ASSUME NEW c \in Commands, DeliverWaiting(c) PROVE TabInv'
  BY <1>1, <1>9 DEF DeliverWaiting, tabVars
<1>10. ASSUME NEW batch, DeliverNow(batch) PROVE TabInv'
  BY <1>1, <1>10 DEF DeliverNow, tabVars
<1>11. ASSUME NEW w \in waiting, Prepared(w) \/ Refused(w) \/ Stored(w) PROVE TabInv'
  BY <1>1, <1>11 DEF Prepared, Refused, Stored, tabVars, history
<1> QED
  BY <1>2, <1>3, <1>4, <1>5, <1>6, <1>7, <1>8, <1>9, <1>10, <1>11 DEF Next

-----------------------------------------------------------------------------
(* Bytes *)

\* The bytes of a fling that may go on were taken by the store.
InStore(x) == \/ \E w \in waiting : w.step = "stored" /\ w.file = x
              \/ \E i \in 1..Len(micro) : micro[i].cmd.op = "fling" /\ micro[i].file = x

\* Before it is live the page sends the stores nothing.
QuietUntilLive ==
  /\ page # "live" =>
       /\ blobOps = <<>> /\ catalogOps = <<>> /\ held = {}
       /\ \A w \in waiting : w.step = "reading"
       /\ \A x \in Nat : ~InStore(x)
  /\ page = "opening" => waiting = {} /\ micro = <<>> /\ loaded = {}
  /\ page = "loading" => \A e \in catalog : e \in loaded \/ e.id \in lost

\* Only what was released is deleted, a sweep is the first thing asked, and
\* only the first transaction is being committed.
DeletesAreReleased ==
  \A i \in 1..Len(blobOps) : /\ blobOps[i].op = "delete" => blobOps[i].ids \subseteq released
                             /\ blobOps[i].op \in {"sweep", "commit"} => i = 1

\* A sweep comes before anything could be stored, and spares the copies.
SweepSpares ==
  blobOps # <<>> /\ blobOps[1].op = "sweep" =>
    /\ \A x \in Nat : ~InStore(x)
    /\ \A e \in Files : Copy(e) => e.id \in blobOps[1].ids \cup released \cup lost

\* Bytes that are there, are on their way, or were lost.
Kept == blobs \cup Committing \cup lost

BytesThere ==
  /\ \A x \in Nat : InStore(x) => x \in Kept
  /\ \A e \in Files : Copy(e) => e.id \in Kept \cup released

BytesInv == QuietUntilLive /\ DeletesAreReleased /\ SweepSpares /\ BytesThere

LEMMA InitBytes == Init => BytesInv
<1> SUFFICES ASSUME Init PROVE BytesInv
  OBVIOUS
<1>1. /\ \A x \in Nat : ~InStore(x)
      /\ \A e \in Files : ~Copy(e)
  BY EmptyFacts DEF Init, InStore, Copy
<1> QED
  BY <1>1, EmptyFacts
    DEF Init, BytesInv, QuietUntilLive, DeletesAreReleased, SweepSpares, BytesThere

\* What is queued is not being committed yet.
LEMMA QueuedCommits ==
  ASSUME PageTypes, NEW op \in BlobOps, op.op # "commit", blobOps' = Append(blobOps, op)
  PROVE  Committing' = Committing
<1>1. blobOps \in Seq(BlobOps) /\ blobOps' # <<>>
  BY AppendFacts DEF PageTypes
<1>2. CASE blobOps = <<>>
  <2>1. Head(blobOps') = op
    BY <1>2
  <2> QED
    BY <1>2, <2>1 DEF Committing
<1>3. CASE blobOps # <<>>
  <2>1. Head(blobOps') = Head(blobOps)
    BY <1>1, <1>3
  <2> QED
    BY <1>1, <1>3, <2>1 DEF Committing
<1> QED
  BY <1>2, <1>3

\* A transaction is queued behind the others, and is no sweep.
LEMMA QueuedFacts ==
  ASSUME PageTypes, DeletesAreReleased, NEW op \in BlobOps, op.op \notin {"sweep", "commit"},
         blobOps' = Append(blobOps, op), released \subseteq released',
         op.op = "delete" => op.ids \subseteq released'
  PROVE  /\ DeletesAreReleased' /\ Committing' = Committing
         /\ blobOps'[1].op = "sweep" => blobOps # <<>> /\ blobOps'[1] = blobOps[1]
<1>1. /\ Len(blobOps') = Len(blobOps) + 1 /\ Len(blobOps) \in Nat
      /\ \A i \in 1..Len(blobOps) : blobOps'[i] = blobOps[i]
      /\ blobOps'[Len(blobOps) + 1] = op
  BY AppendFacts DEF PageTypes
<1>2. \A i \in 1..Len(blobOps') : i \in 1..Len(blobOps) \/ i = Len(blobOps) + 1
  BY <1>1
<1>3. DeletesAreReleased'
  BY <1>1, <1>2 DEF DeletesAreReleased
<1>4. blobOps = <<>> \/ 1 \in 1..Len(blobOps)
  BY <1>1 DEF PageTypes
<1>5. Committing' = Committing
  BY QueuedCommits
<1> QED
  BY <1>1, <1>3, <1>4, <1>5

\* Nothing was stored, copied or forgotten: less was.
LEMMA LessIsThere ==
  ASSUME SweepSpares, BytesThere, Kept \subseteq Kept', lost \subseteq lost',
         released \subseteq released',
         \A x \in Nat : InStore(x)' => InStore(x),
         \A e \in Files : Copy(e)' => Copy(e),
         blobOps' # <<>> /\ blobOps'[1].op = "sweep" => blobOps # <<>> /\ blobOps'[1] = blobOps[1]
  PROVE  SweepSpares' /\ BytesThere'
<1>1. BytesThere'
  BY DEF BytesThere
<1>2. ASSUME blobOps' # <<>>, blobOps'[1].op = "sweep"
      PROVE  /\ \A x \in Nat : ~InStore(x)'
             /\ \A e \in Files : Copy(e)' => e.id \in blobOps'[1].ids \cup released' \cup lost'
  BY <1>2 DEF SweepSpares
<1>3. SweepSpares'
  BY <1>2 DEF SweepSpares
<1> QED
  BY <1>1, <1>3

LEMMA AppliedStoresLess ==
  ASSUME PageTypes, PendingOnce, micro # <<>>, micro' = Tail(micro), waiting' = waiting
  PROVE  /\ \A x \in Nat : InStore(x)' => InStore(x)
         /\ \A i \in 1..Len(micro') : micro'[i].cmd.op # "fling"
<1>1. /\ Len(micro') = Len(micro) - 1 /\ Len(micro) \in Nat
      /\ \A i \in 1..Len(micro') : micro'[i] = micro[i + 1] /\ i + 1 \in 1..Len(micro)
  BY NowFacts
<1>2. \A i \in 1..Len(micro') : micro'[i].cmd.op # "fling"
  BY <1>1 DEF PendingOnce
<1> QED
  BY <1>2 DEF InStore

LEMMA DeleteFacts ==
  ASSUME PageTypes, BytesInv, NEW old \in SUBSET held, blobOps' = Deletes(old),
         released' = released \cup {e.id : e \in old}
  PROVE  /\ DeletesAreReleased' /\ Committing' = Committing
         /\ blobOps' # <<>> /\ blobOps'[1].op = "sweep" => blobOps # <<>> /\ blobOps'[1] = blobOps[1]
<1> DEFINE op == [op |-> "delete", ids |-> {e.id : e \in old}]
<1>1. op \in BlobOps /\ op.op = "delete" /\ op.ids = {e.id : e \in old}
  BY DEF PageTypes, Files, BlobOps
<1>2. CASE old = {}
  BY <1>2 DEF Deletes, BytesInv, DeletesAreReleased, Committing
<1>3. CASE old # {}
  <2>1. blobOps' = Append(blobOps, op)
    BY <1>3 DEF Deletes
  <2> HIDE DEF op
  <2> QED
    BY <1>1, <2>1, QueuedFacts DEF BytesInv
<1> QED
  BY <1>2, <1>3

\* What the head of the queue does to the store.
LEMMA BlobDoneBytes == PageTypes /\ FilesInv /\ BytesInv /\ BlobDone => BytesInv'
<1> SUFFICES ASSUME PageTypes, FilesInv, BytesInv, BlobDone PROVE BytesInv'
  OBVIOUS
<1> DEFINE op == Head(blobOps)
<1>1. /\ UNCHANGED <<page, loaded, tabs, held, micro, waiting, catalog, catalogOps, released, lost>>
      /\ micro = <<>> /\ blobOps # <<>> /\ blobOps' = Tail(blobOps) /\ blobs' = BlobsAfter(op)
      /\ op.op # "put"
  BY DEF BlobDone, tabVars, queueVars, history
<1>2. /\ op = blobOps[1] /\ op \in BlobOps /\ Len(blobOps) \in Nat /\ 1 \in 1..Len(blobOps)
      /\ \A i \in 1..Len(blobOps') : blobOps'[i] = blobOps[i + 1] /\ i + 1 \in 1..Len(blobOps)
      /\ blobOps' # <<>> => /\ 1 \in 1..Len(blobOps') /\ blobOps'[1] = blobOps[2] /\ 2 \in 1..Len(blobOps)
                            /\ Head(blobOps') = blobOps'[1]
  BY <1>1, TailFacts DEF PageTypes
<1>3. Committing = IF op.op = "commit" THEN op.ids ELSE {}
  BY <1>1 DEF Committing
<1> HIDE DEF op
<1>4. \A x \in Nat : InStore(x)' => InStore(x)
  BY <1>1 DEF InStore
<1>5. \A x \in Nat : InStore(x) => x \notin released
  BY DEF InStore, FilesInv, PendingIsNew, Pending, Used
<1>6. QuietUntilLive'
  BY <1>1 DEF BytesInv, QuietUntilLive
<1>7. DeletesAreReleased'
  BY <1>1, <1>2 DEF BytesInv, DeletesAreReleased
<1>8. SweepSpares'
  BY <1>2 DEF BytesInv, SweepSpares, DeletesAreReleased
<1>9. \A e \in Files : Copy(e)' => Copy(e)
  BY <1>1 DEF Copy
<1>10. BytesThere'
  <2>1. CASE op.op = "commit"
    <3>1. Kept \subseteq Kept'
      BY <1>1, <1>3, <2>1 DEF BlobsAfter, Kept
    <3> QED
      BY <1>1, <1>4, <1>9, <3>1 DEF BytesInv, BytesThere
  <2>2. CASE op.op = "delete"
    <3>1. blobs' = blobs \ op.ids /\ op.ids \subseteq released
      BY <1>1, <1>2, <2>2 DEF BlobsAfter, BytesInv, DeletesAreReleased
    <3>2. Kept \subseteq Kept' \cup released
      BY <1>1, <1>3, <2>2, <3>1 DEF Kept
    <3> QED
      BY <1>1, <1>4, <1>5, <1>9, <3>2 DEF BytesInv, BytesThere
  <2>3. CASE op.op = "sweep"
    <3>1. blobs' = blobs \cap op.ids
      BY <1>1, <2>3 DEF BlobsAfter
    <3>2. \A x \in Nat : ~InStore(x)'
      BY <1>1, <1>2, <1>4, <2>3 DEF BytesInv, SweepSpares
    <3>3. \A e \in Files : Copy(e) => e.id \in op.ids \cup released \cup lost
      BY <1>1, <1>2, <2>3 DEF BytesInv, SweepSpares
    <3>4. Kept \cap op.ids \subseteq Kept' /\ lost \subseteq Kept'
      BY <1>1, <1>3, <2>3, <3>1 DEF Kept
    <3> QED
      BY <1>1, <1>9, <3>2, <3>3, <3>4 DEF BytesInv, BytesThere
  <2> QED
    BY <1>1, <1>2, <2>1, <2>2, <2>3 DEF BlobOps
<1> QED
  BY <1>6, <1>7, <1>8, <1>10 DEF BytesInv

\* A put that succeeds has its bytes on the way.
LEMMA PutSucceedsBytes == PageTypes /\ BytesInv /\ PutSucceeds => BytesInv'
<1> SUFFICES ASSUME PageTypes, BytesInv, PutSucceeds PROVE BytesInv'
  OBVIOUS
<1> DEFINE op == Head(blobOps)
           new == [op EXCEPT !.op = "commit"]
           mark(w) == IF w.step = "storing" /\ w.file \in op.ids THEN [w EXCEPT !.step = "stored"] ELSE w
<1>1. /\ UNCHANGED <<page, loaded, held, micro, blobs, catalog, catalogOps, released, lost>>
      /\ micro = <<>> /\ blobOps # <<>> /\ blobOps' = <<new>> \o Tail(blobOps) /\ op.op = "put"
      /\ waiting' = {mark(w) : w \in waiting}
  BY DEF PutSucceeds, tabVars, storeVars, history
<1>2. op \in BlobOps /\ new \in BlobOps /\ new.op = "commit" /\ new.ids = op.ids
  <2>1. op \in BlobOps
    BY <1>1, TailFacts DEF PageTypes
  <2> HIDE DEF op
  <2> QED
    BY <2>1 DEF BlobOps
<1>3. ASSUME NEW w \in waiting
      PROVE  /\ mark(w).file = w.file
             /\ mark(w).step = "stored" => w.step = "stored" \/ w.file \in op.ids
  BY DEF PageTypes, Steps
<1> HIDE DEF new, mark
<1>4. /\ blobOps' # <<>> /\ Head(blobOps') = new /\ blobOps'[1] = new /\ Len(blobOps') = Len(blobOps)
      /\ \A i \in 1..Len(blobOps) : i # 1 => blobOps'[i] = blobOps[i]
  BY <1>1, <1>2, HeadFacts DEF PageTypes
<1>5. Committing' = op.ids /\ Committing = {}
  BY <1>1, <1>2, <1>4 DEF Committing
<1> HIDE DEF op
<1>6. ASSUME NEW x \in Nat, InStore(x)' PROVE InStore(x) \/ x \in op.ids
  <2>1. PICK v \in waiting' : v.step = "stored" /\ v.file = x
    BY <1>1, <1>6, EmptyFacts DEF InStore
  <2>2. PICK w \in waiting : v = mark(w)
    BY <1>1, <2>1
  <2> QED
    BY <1>3, <2>1, <2>2 DEF InStore
<1>7. QuietUntilLive'
  BY <1>1 DEF BytesInv, QuietUntilLive
<1>8. DeletesAreReleased'
  BY <1>1, <1>2, <1>4 DEF BytesInv, DeletesAreReleased
<1>9. SweepSpares'
  BY <1>2, <1>4 DEF SweepSpares
<1>10. \A e \in Files : Copy(e)' => Copy(e)
  BY <1>1 DEF Copy
<1>11. Kept' = Kept \cup op.ids
  BY <1>1, <1>5 DEF Kept
<1>12. BytesThere'
  BY <1>1, <1>6, <1>10, <1>11 DEF BytesInv, BytesThere
<1> QED
  BY <1>7, <1>8, <1>9, <1>12 DEF BytesInv

LEMMA FlingBytes == PageTypes /\ FilesInv /\ BytesInv /\ Fling => BytesInv'
<1> SUFFICES ASSUME PageTypes, FilesInv, BytesInv, Fling PROVE BytesInv'
  OBVIOUS
<1> DEFINE old  == Previous(Now.cmd.ref)
           file == [id |-> Now.file, from |-> Now.cmd.ref]
<1>1. /\ Now \in Applies /\ Now = micro[1] /\ 1 \in 1..Len(micro) /\ Now.cmd.op = "fling"
      /\ Now.file \in Nat /\ Now.cmd \in Command /\ Now.cmd.ref \in Paths
  BY NowFacts DEF Fling, Applies, Command
<1>2. /\ held' = (held \ old) \cup {file} /\ waiting' = waiting /\ page' = page
      /\ loaded' = loaded /\ catalog' = catalog /\ catalogOps' = Saves(held') /\ blobs' = blobs
      /\ released' = released \cup {e.id : e \in old} /\ blobOps' = Deletes(old)
      /\ micro # <<>> /\ micro' = Tail(micro) /\ lost' = lost
  BY DEF Fling, storeVars
<1>3. file \in Files /\ file.id = Now.file /\ held' \in SUBSET Files /\ old \in SUBSET held
  BY <1>1, <1>2 DEF Files, PageTypes, Previous
<1>4. InStore(Now.file)
  BY <1>1 DEF InStore
<1>5. page = "live"
  BY <1>1, <1>4 DEF BytesInv, QuietUntilLive, PageTypes
<1>6. ~(blobOps # <<>> /\ blobOps[1].op = "sweep")
  BY <1>1, <1>4 DEF BytesInv, SweepSpares
<1>7. /\ DeletesAreReleased' /\ Committing' = Committing
      /\ ~(blobOps' # <<>> /\ blobOps'[1].op = "sweep")
  BY <1>2, <1>3, <1>6, DeleteFacts
<1> HIDE DEF old, file
<1>8. ASSUME NEW e \in Files, Copy(e)' PROVE Copy(e) \/ e = file
  BY <1>2, <1>3, <1>8, SavedFacts, ZenonT(60) DEF Copy
<1>9. \A x \in Nat : InStore(x)' => InStore(x)
  BY <1>2, AppliedStoresLess DEF FilesInv
<1>10. BytesThere'
  <2>1. Kept' = Kept
    BY <1>2, <1>7 DEF Kept
  <2> QED
    BY <1>1, <1>2, <1>3, <1>4, <1>8, <1>9, <2>1 DEF BytesInv, BytesThere
<1>11. QuietUntilLive' /\ SweepSpares'
  BY <1>2, <1>5, <1>7 DEF QuietUntilLive, SweepSpares
<1> QED
  BY <1>7, <1>10, <1>11 DEF BytesInv

LEMMA DropBytes == PageTypes /\ FilesInv /\ BytesInv /\ Drop => BytesInv'
<1> SUFFICES ASSUME PageTypes, FilesInv, BytesInv, Drop PROVE BytesInv'
  OBVIOUS
<1> DEFINE old == {e \in held : e.id = Now.cmd.ref}
<1>1. /\ held' = held \ old /\ waiting' = waiting /\ page' = page
      /\ loaded' = loaded /\ catalog' = catalog /\ catalogOps' = Saves(held') /\ blobs' = blobs
      /\ released' = released \cup {Now.cmd.ref} /\ blobOps' = Deletes(old)
      /\ lost' = lost /\ micro # <<>> /\ micro' = Tail(micro) /\ \E e \in held : e.id = Now.cmd.ref
  BY DEF Drop, storeVars, Knows, HeldIds
<1>2. held' \in SUBSET Files /\ old \in SUBSET held /\ {e.id : e \in old} = {Now.cmd.ref}
  BY <1>1 DEF PageTypes
<1>3. page = "live"
  BY <1>1 DEF BytesInv, QuietUntilLive, PageTypes
<1>4. /\ DeletesAreReleased' /\ Committing' = Committing
      /\ blobOps' # <<>> /\ blobOps'[1].op = "sweep" => blobOps # <<>> /\ blobOps'[1] = blobOps[1]
  BY <1>1, <1>2, DeleteFacts
<1>5. \A e \in Files : Copy(e)' => Copy(e)
  BY <1>1, <1>2, SavedFacts DEF Copy
<1>6. \A x \in Nat : InStore(x)' => InStore(x)
  BY <1>1, AppliedStoresLess DEF FilesInv
<1>7. SweepSpares' /\ BytesThere'
  <2>1. released \subseteq released' /\ Kept' = Kept
    BY <1>1, <1>4 DEF Kept
  <2> QED
    BY <1>1, <1>4, <1>5, <1>6, <2>1, LessIsThere DEF BytesInv
<1>8. QuietUntilLive'
  BY <1>1, <1>3 DEF QuietUntilLive
<1> QED
  BY <1>4, <1>7, <1>8 DEF BytesInv

\* The catalog is adopted before anything else was done with the stores.
LEMMA AdoptBytes == PageTypes /\ BytesInv /\ AdoptCatalog => BytesInv'
<1> SUFFICES ASSUME PageTypes, BytesInv, AdoptCatalog PROVE BytesInv'
  OBVIOUS
<1> DEFINE op == [op |-> "sweep", ids |-> {e.id : e \in loaded}]
<1>1. /\ page = "loading" /\ page' = "live" /\ loaded' = {} /\ held' = loaded
      /\ blobOps' = Append(blobOps, op)
      /\ UNCHANGED <<waiting, micro, blobs, catalog, catalogOps, released, lost>>
  BY DEF AdoptCatalog, queueVars, storeVars, history
<1>2. /\ blobOps = <<>> /\ catalogOps = <<>>
      /\ \A e \in catalog : e \in loaded \/ e.id \in lost
      /\ \A x \in Nat : ~InStore(x)
  BY <1>1 DEF BytesInv, QuietUntilLive
<1>3. op \in BlobOps /\ op.op = "sweep" /\ op.ids = {e.id : e \in loaded}
  BY DEF PageTypes, Files, BlobOps
<1> HIDE DEF op
<1>4. Len(blobOps') = 1 /\ blobOps'[1] = op
  BY <1>1, <1>2
<1>5. \A e \in Files : Copy(e)' => (e \in loaded \/ e.id \in lost) /\ Copy(e)
  BY <1>1, <1>2, EmptyFacts DEF Copy
<1>6. \A x \in Nat : ~InStore(x)'
  BY <1>1, <1>2 DEF InStore
<1>7. DeletesAreReleased' /\ QuietUntilLive'
  BY <1>1, <1>3, <1>4 DEF DeletesAreReleased, QuietUntilLive
<1>8. SweepSpares'
  BY <1>1, <1>3, <1>4, <1>5, <1>6 DEF SweepSpares
<1>9. BytesThere'
  <2>1. Kept' = Kept
    BY <1>1, <1>3, QueuedCommits DEF Kept
  <2> QED
    BY <1>1, <1>5, <1>6, <2>1 DEF BytesInv, BytesThere
<1> QED
  BY <1>7, <1>8, <1>9 DEF BytesInv

LEMMA BytesStep ==
  ASSUME PageTypes, PageTypes', FilesInv, BytesInv, [Next]_vars,
         \A w \in waiting : Prepared(w) /\ w.cmd.op = "fling" => page # "loading"
  PROVE  BytesInv'
<1> USE EmptyFacts
<1>1. CASE LoadCatalog \/ CatalogUnread
  <2>1. /\ page = "opening" /\ page' = "loading"
        /\ UNCHANGED <<waiting, micro, blobs, catalog, catalogOps, released, held, blobOps>>
        /\ loaded' \subseteq catalog /\ lost \subseteq lost'
        /\ \A e \in catalog : e \in loaded' \/ e.id \in lost'
    BY <1>1 DEF LoadCatalog, CatalogUnread, tabVars, queueVars, storeVars, opsVars, history
  <2>2. \A x \in Nat : InStore(x)' => InStore(x)
    BY <2>1 DEF InStore
  <2>3. \A e \in Files : Copy(e)' => Copy(e)
    BY <2>1 DEF Copy
  <2>4. SweepSpares' /\ BytesThere'
    BY <2>1, <2>2, <2>3, LessIsThere DEF BytesInv, Kept, Committing
  <2>5. QuietUntilLive' /\ DeletesAreReleased'
    BY <2>1, <2>2 DEF BytesInv, QuietUntilLive, DeletesAreReleased
  <2> QED
    BY <2>4, <2>5 DEF BytesInv
<1>2. CASE AdoptCatalog
  BY <1>2, AdoptBytes
<1>3. ASSUME UNCHANGED <<page, loaded, blobs, catalog, catalogOps, released, lost, held, blobOps>>,
             \A x \in Nat : InStore(x)' => InStore(x),
             page # "opening" \/ (waiting' = {} /\ micro' = <<>>),
             page # "live" => \A w \in waiting' : w.step = "reading"
      PROVE  BytesInv'
  <2>1. \A e \in Files : Copy(e)' => Copy(e)
    BY <1>3 DEF Copy
  <2>2. SweepSpares' /\ BytesThere'
    BY <1>3, <2>1, LessIsThere DEF BytesInv, Kept, Committing
  <2>3. QuietUntilLive' /\ DeletesAreReleased'
    BY <1>3 DEF BytesInv, QuietUntilLive, DeletesAreReleased
  <2> QED
    BY <2>2, <2>3 DEF BytesInv
<1>4. ASSUME NEW c \in {d \in Commands : Waits(d)}, DeliverWaiting(c) PROVE BytesInv'
  <2> DEFINE new == [cmd |-> c, step |-> "reading", file |-> 2 * commands']
  <2>1. /\ waiting' = waiting \cup {new} /\ new.step = "reading" /\ micro = <<>> /\ micro' = <<>>
        /\ page # "opening"
        /\ UNCHANGED <<page, loaded, blobs, catalog, catalogOps, released, lost, held, blobOps>>
    BY <1>4 DEF DeliverWaiting, tabVars, storeVars, opsVars
  <2> HIDE DEF new
  <2>2. \A x \in Nat : InStore(x)' => InStore(x)
    BY <2>1 DEF InStore
  <2>3. page # "live" => \A w \in waiting' : w.step = "reading"
    BY <2>1 DEF BytesInv, QuietUntilLive
  <2> QED
    BY <1>3, <2>1, <2>2, <2>3
<1>5. ASSUME NEW n \in 1..MaxBatch, NEW batch \in [1..n -> {d \in Commands : ~Waits(d)}],
             DeliverNow(batch)
      PROVE  BytesInv'
  <2>1. /\ waiting' = waiting /\ page # "opening"
        /\ UNCHANGED <<page, loaded, blobs, catalog, catalogOps, released, lost, held, blobOps>>
    BY <1>5 DEF DeliverNow, tabVars, storeVars, opsVars
  <2>2. \A i \in 1..Len(micro') : micro'[i].cmd.op # "fling"
    <3>1. n \in Nat
      BY BoundsAssumption
    <3>2. Len(micro') = n /\ \A i \in 1..n : micro'[i] = Ready(batch[i], None) /\ ~Waits(batch[i])
      BY <1>5, <3>1, BatchTypes
    <3>3. \A i \in 1..n : Ready(batch[i], None).cmd = batch[i]
      BY DEF Ready
    <3>4. \A c : ~Waits(c) => c.op # "fling"
      BY DEF Waits
    <3> QED
      BY <3>2, <3>3, <3>4
  <2>3. \A x \in Nat : InStore(x)' => InStore(x)
    BY <2>1, <2>2 DEF InStore
  <2>4. page # "live" => \A w \in waiting' : w.step = "reading"
    BY <2>1 DEF BytesInv, QuietUntilLive
  <2> QED
    BY <1>3, <2>1, <2>3, <2>4
<1>6. ASSUME NEW w \in waiting, Prepared(w) PROVE BytesInv'
  <2>1. /\ UNCHANGED <<page, loaded, blobs, catalog, catalogOps, released, lost, held>>
        /\ micro = <<>> /\ w \in Steps /\ w.step = "reading" /\ page # "opening"
    BY <1>6 DEF Prepared, tabVars, storeVars, PageTypes, BytesInv, QuietUntilLive
  <2>2. CASE w.cmd.op = "fling"
    <3> DEFINE op   == [op |-> "put", ids |-> {w.file}]
               next == [w EXCEPT !.step = "storing"]
    <3>1. page = "live"
      BY <1>6, <2>1, <2>2 DEF PageTypes
    <3>2. waiting' = (waiting \ {w}) \cup {next} /\ micro' = <<>> /\ blobOps' = Append(blobOps, op)
      BY <1>6, <2>1, <2>2 DEF Prepared
    <3>3. next.step = "storing" /\ op \in BlobOps /\ op.op = "put"
      BY <2>1 DEF Steps, BlobOps
    <3> HIDE DEF op, next
    <3>4. \A x \in Nat : InStore(x)' => InStore(x)
      BY <3>2, <3>3 DEF InStore
    <3>5. \A e \in Files : Copy(e)' => Copy(e)
      BY <2>1 DEF Copy
    <3>6. /\ DeletesAreReleased' /\ Committing' = Committing
          /\ blobOps'[1].op = "sweep" => blobOps # <<>> /\ blobOps'[1] = blobOps[1]
      BY <2>1, <3>2, <3>3, QueuedFacts DEF BytesInv
    <3>7. SweepSpares' /\ BytesThere'
      BY <2>1, <3>4, <3>5, <3>6, LessIsThere DEF BytesInv, Kept
    <3>8. QuietUntilLive'
      BY <2>1, <3>1 DEF QuietUntilLive
    <3> QED
      BY <3>6, <3>7, <3>8 DEF BytesInv
  <2>3. CASE w.cmd.op # "fling"
    <3>1. waiting' = waiting \ {w} /\ micro' = <<Ready(w.cmd, None)>> /\ blobOps' = blobOps
      BY <1>6, <2>3 DEF Prepared
    <3>2. Len(micro') = 1 /\ micro'[1].cmd.op # "fling"
      BY <2>3, <3>1 DEF Ready
    <3>3. \A x \in Nat : InStore(x)' => InStore(x)
      BY <3>1, <3>2 DEF InStore
    <3>4. page # "live" => \A v \in waiting' : v.step = "reading"
      BY <3>1 DEF BytesInv, QuietUntilLive
    <3> QED
      BY <1>3, <2>1, <3>1, <3>3, <3>4
  <2> QED
    BY <2>2, <2>3
<1>7. ASSUME NEW w \in waiting, Refused(w) \/ Stored(w) PROVE BytesInv'
  <2>1. /\ UNCHANGED <<page, loaded, blobs, catalog, catalogOps, released, lost, held, blobOps>>
        /\ micro = <<>> /\ waiting' = waiting \ {w}
        /\ micro' = <<>> \/ (w.step = "stored" /\ micro' = <<Ready(w.cmd, w.file)>>)
    BY <1>7 DEF Refused, Stored, tabVars, storeVars, opsVars, history
  <2>2. page # "opening"
    BY DEF BytesInv, QuietUntilLive
  <2>3. Len(micro') \in {0, 1} /\ (Len(micro') = 1 => micro'[1].file = w.file /\ w.step = "stored")
    BY <2>1 DEF Ready
  <2>4. \A x \in Nat : InStore(x)' => InStore(x)
    BY <2>1, <2>3 DEF InStore
  <2>5. page # "live" => \A v \in waiting' : v.step = "reading"
    BY <2>1 DEF BytesInv, QuietUntilLive
  <2> QED
    BY <1>3, <2>1, <2>2, <2>4, <2>5
<1>8. CASE Refuse \/ Reuse \/ Put \/ Focus \/ Close
  <2>1. /\ UNCHANGED <<page, loaded, blobs, catalog, catalogOps, released, lost, held, blobOps, waiting>>
        /\ micro # <<>> /\ micro' = Tail(micro)
    BY <1>8 DEF Refuse, Reuse, Put, Focus, Close, tabVars, storeVars, opsVars, history
  <2>2. \A x \in Nat : InStore(x)' => InStore(x)
    BY <2>1, AppliedStoresLess DEF FilesInv
  <2>3. page # "opening" /\ (page # "live" => \A v \in waiting' : v.step = "reading")
    BY <2>1 DEF BytesInv, QuietUntilLive
  <2> QED
    BY <1>3, <2>1, <2>2, <2>3
<1>9. CASE Fling
  BY <1>9, FlingBytes
<1>10. CASE Drop
  BY <1>10, DropBytes
<1>11. CASE BlobDone \/ PutSucceeds
  BY <1>11, BlobDoneBytes, PutSucceedsBytes
<1>12. CASE BlobFails
  <2>1. /\ UNCHANGED <<page, loaded, held, micro, catalog, catalogOps, released, blobs>>
        /\ blobOps # <<>> /\ blobOps' = Tail(blobOps) /\ waiting' \subseteq waiting
        /\ lost' = lost \cup Committing
    BY <1>12 DEF BlobFails, tabVars, storeVars
  <2>2. /\ Len(blobOps) \in Nat
        /\ \A i \in 1..Len(blobOps') : blobOps'[i] = blobOps[i + 1] /\ i + 1 \in 1..Len(blobOps)
        /\ blobOps' # <<>> => blobOps'[1] = blobOps[2] /\ 2 \in 1..Len(blobOps)
    BY <2>1, TailFacts DEF PageTypes
  <2>3. DeletesAreReleased'
    BY <2>1, <2>2 DEF BytesInv, DeletesAreReleased
  <2>4. \A x \in Nat : InStore(x)' => InStore(x)
    BY <2>1 DEF InStore
  <2>5. \A e \in Files : Copy(e)' => Copy(e)
    BY <2>1 DEF Copy
  <2>6. SweepSpares'
    BY <2>2 DEF BytesInv, SweepSpares, DeletesAreReleased
  <2>7. BytesThere'
    <3>1. Kept \subseteq Kept'
      BY <2>1 DEF Kept
    <3> QED
      BY <2>1, <2>4, <2>5, <3>1 DEF BytesInv, BytesThere
  <2>8. QuietUntilLive'
    BY <2>1 DEF BytesInv, QuietUntilLive
  <2> QED
    BY <2>3, <2>6, <2>7, <2>8 DEF BytesInv
<1>13. CASE CatalogSaved \/ CatalogFails
  <2>1. /\ UNCHANGED <<page, loaded, held, micro, waiting, released, lost, blobs, blobOps>>
        /\ catalogOps # <<>> /\ catalogOps' = Tail(catalogOps)
        /\ catalog' = catalog \/ catalog' = Head(catalogOps)
    BY <1>13 DEF CatalogSaved, CatalogFails, tabVars, queueVars, storeVars, history
  <2>2. /\ Head(catalogOps) = catalogOps[1] /\ Len(catalogOps) \in Nat /\ 1 \in 1..Len(catalogOps)
        /\ \A i \in 1..Len(catalogOps') : catalogOps'[i] = catalogOps[i + 1] /\ i + 1 \in 1..Len(catalogOps)
    BY <2>1, TailFacts DEF PageTypes
  <2>3. \A e \in Files : Copy(e)' => Copy(e)
    BY <2>1, <2>2 DEF Copy
  <2>4. \A x \in Nat : InStore(x)' => InStore(x)
    BY <2>1 DEF InStore
  <2>5. SweepSpares' /\ BytesThere'
    BY <2>1, <2>3, <2>4, LessIsThere DEF BytesInv, Kept, Committing
  <2>6. QuietUntilLive' /\ DeletesAreReleased'
    BY <2>1 DEF BytesInv, QuietUntilLive, DeletesAreReleased, PageTypes
  <2> QED
    BY <2>5, <2>6 DEF BytesInv
<1>14. CASE Reload
  <2>1. /\ UNCHANGED <<catalog, released, blobs>> /\ held' = {} /\ loaded' = {} /\ page' = "opening"
        /\ waiting' = {} /\ micro' = <<>> /\ catalogOps' = <<>> /\ blobOps' = <<>>
        /\ lost' = lost \cup Committing
    BY <1>14 DEF Reload, storeVars
  <2>2. \A x \in Nat : ~InStore(x)'
    BY <2>1 DEF InStore
  <2>3. \A e \in Files : Copy(e)' => Copy(e)
    BY <2>1 DEF Copy
  <2>4. Kept \subseteq Kept'
    BY <2>1 DEF Kept
  <2> QED
    BY <2>1, <2>2, <2>3, <2>4
      DEF BytesInv, QuietUntilLive, DeletesAreReleased, SweepSpares, BytesThere
<1>15. CASE UNCHANGED vars
  <2>1. /\ UNCHANGED <<page, loaded, blobs, catalog, catalogOps, released, lost, held, blobOps>>
        /\ UNCHANGED <<waiting, micro>>
    BY <1>15 DEF vars, tabVars, queueVars, storeVars, opsVars, history
  <2>2. \A x \in Nat : InStore(x)' => InStore(x)
    BY <2>1 DEF InStore
  <2>3. \A e \in Files : Copy(e)' => Copy(e)
    BY <2>1 DEF Copy
  <2>4. SweepSpares' /\ BytesThere'
    BY <2>1, <2>2, <2>3, LessIsThere DEF BytesInv, Kept, Committing
  <2>5. QuietUntilLive' /\ DeletesAreReleased'
    BY <2>1, <2>2 DEF BytesInv, QuietUntilLive, DeletesAreReleased
  <2> QED
    BY <2>4, <2>5 DEF BytesInv
<1> QED
  BY <1>1, <1>2, <1>4, <1>5, <1>6, <1>7, <1>8, <1>9, <1>10, <1>11, <1>12, <1>13, <1>14, <1>15
    DEF Next

-----------------------------------------------------------------------------
(* What the stores come to *)

\* The catalog that will be saved last is the one the page shows.
LatestIsHeld ==
  IF catalogOps = <<>> THEN catalog = held ELSE catalogOps[Len(catalogOps)] = held

\* Bytes that a queued transaction will remove.
Doomed(x) == \E i \in 1..Len(blobOps) : \/ blobOps[i].op = "delete" /\ x \in blobOps[i].ids
                                        \/ blobOps[i].op = "sweep" /\ x \notin blobOps[i].ids

BytesAreNamed == \A x \in blobs \cup Committing : x \in HeldIds \/ InStore(x) \/ Doomed(x)

\* Each queued put is that of one fling, which waits for it.
PutsAreAwaited ==
  /\ \A w \in waiting : w.step # "reading" => w.cmd.op = "fling"
  /\ \A i \in 1..Len(blobOps) : blobOps[i].op = "put" =>
       \A x \in blobOps[i].ids : \E w \in waiting : w.step = "storing" /\ w.file = x
  /\ \A i, j \in 1..Len(blobOps) :
       blobOps[i].op = "put" /\ blobOps[j].op = "put" /\ blobOps[i].ids \cap blobOps[j].ids # {} => i = j

SettlesInv ==
  /\ PutsAreAwaited
  /\ page = "loading" => loaded = catalog
  /\ page = "live" => LatestIsHeld /\ BytesAreNamed

LEMMA InitSettles == Init => SettlesInv
<1> SUFFICES ASSUME Init PROVE SettlesInv
  OBVIOUS
<1>1. waiting = {} /\ Len(blobOps) = 0 /\ page = "opening"
  BY EmptyFacts DEF Init
<1> QED
  BY <1>1 DEF SettlesInv, PutsAreAwaited

\* What a transaction that is queued does not change.
LEMMA QueuedDooms ==
  ASSUME PageTypes, NEW op \in BlobOps, blobOps' = Append(blobOps, op)
  PROVE  /\ \A x : Doomed(x) => Doomed(x)'
         /\ \A x : op.op = "delete" /\ x \in op.ids => Doomed(x)'
         /\ \A x : op.op = "sweep" /\ x \notin op.ids => Doomed(x)'
<1>1. /\ Len(blobOps') = Len(blobOps) + 1 /\ Len(blobOps) \in Nat
      /\ \A i \in 1..Len(blobOps) : blobOps'[i] = blobOps[i]
      /\ blobOps'[Len(blobOps) + 1] = op
  BY AppendFacts DEF PageTypes
<1>2. Len(blobOps) + 1 \in 1..Len(blobOps') /\ \A i \in 1..Len(blobOps) : i \in 1..Len(blobOps')
  BY <1>1
<1> QED
  BY <1>1, <1>2 DEF Doomed

\* A queued transaction that is no put leaves the puts alone.
LEMMA QueuedAwaits ==
  ASSUME PageTypes, PutsAreAwaited, NEW op \in BlobOps, op.op \notin {"put", "commit"}, waiting' = waiting,
         blobOps' = Append(blobOps, op)
  PROVE  PutsAreAwaited' /\ Committing' = Committing
<1>1. /\ Len(blobOps') = Len(blobOps) + 1 /\ Len(blobOps) \in Nat
      /\ \A i \in 1..Len(blobOps) : blobOps'[i] = blobOps[i]
      /\ blobOps'[Len(blobOps) + 1] = op
  BY AppendFacts DEF PageTypes
<1>2. \A i \in 1..Len(blobOps') : i \in 1..Len(blobOps) \/ i = Len(blobOps) + 1
  BY <1>1
<1>3. \A i \in 1..Len(blobOps') : blobOps'[i].op = "put" => i \in 1..Len(blobOps) /\ blobOps'[i] = blobOps[i]
  BY <1>1, <1>2
<1> QED
  BY <1>3, QueuedCommits DEF PutsAreAwaited

\* The copies a fling or a drop lets go are doomed.
LEMMA DeletesDoom ==
  ASSUME PageTypes, PutsAreAwaited, NEW old \in SUBSET held, blobOps' = Deletes(old), waiting' = waiting
  PROVE  /\ PutsAreAwaited' /\ Committing' = Committing
         /\ \A x : Doomed(x) => Doomed(x)'
         /\ \A e \in old : Doomed(e.id)'
<1> DEFINE op == [op |-> "delete", ids |-> {e.id : e \in old}]
<1>1. op \in BlobOps /\ op.op = "delete" /\ op.ids = {e.id : e \in old}
  BY DEF PageTypes, Files, BlobOps
<1>2. CASE old = {}
  BY <1>2 DEF Deletes, PutsAreAwaited, Doomed, Committing
<1>3. CASE old # {}
  <2>1. blobOps' = Append(blobOps, op)
    BY <1>3 DEF Deletes
  <2> HIDE DEF op
  <2> QED
    BY <1>1, <2>1, QueuedDooms, QueuedAwaits
<1> QED
  BY <1>2, <1>3

LEMMA SavedIsLatest ==
  ASSUME PageTypes, held' \in SUBSET Files, catalogOps' = Saves(held')
  PROVE  LatestIsHeld'
<1>1. Len(catalogOps') = Len(catalogOps) + 1 /\ catalogOps'[Len(catalogOps) + 1] = held'
  BY SavedFacts
<1>2. catalogOps' # <<>>
  BY AppendFacts DEF Saves, PageTypes
<1> QED
  BY <1>1, <1>2 DEF LatestIsHeld

\* A transaction that leaves the queue takes no other's bytes with it.
LEMMA HeadLeaves ==
  ASSUME PageTypes, PutsAreAwaited, blobOps # <<>>, blobOps' = Tail(blobOps), NEW op, op = blobOps[1],
         \A w \in waiting : w.step = "storing" /\ ~(op.op = "put" /\ w.file \in op.ids) => w \in waiting',
         \A w \in waiting' : w.step # "reading" => w.cmd.op = "fling"
  PROVE  /\ PutsAreAwaited'
         /\ \A x : Doomed(x) => \/ Doomed(x)'
                                \/ op.op = "delete" /\ x \in op.ids
                                \/ op.op = "sweep" /\ x \notin op.ids
<1>1. /\ Len(blobOps) \in Nat /\ 1 \in 1..Len(blobOps)
      /\ Len(blobOps') = Len(blobOps) - 1
      /\ \A i \in 1..Len(blobOps') : blobOps'[i] = blobOps[i + 1] /\ i + 1 \in 1..Len(blobOps) /\ i \in Nat
  BY TailFacts DEF PageTypes
<1>2. ASSUME NEW i \in 1..Len(blobOps'), blobOps'[i].op = "put", NEW x \in blobOps'[i].ids
      PROVE  \E w \in waiting' : w.step = "storing" /\ w.file = x
  <2>1. blobOps[i + 1].op = "put" /\ x \in blobOps[i + 1].ids /\ i + 1 # 1 /\ i + 1 \in 1..Len(blobOps)
    BY <1>1, <1>2
  <2>2. ~(op.op = "put" /\ x \in op.ids)
    BY <1>1, <2>1 DEF PutsAreAwaited
  <2> QED
    BY <2>1, <2>2 DEF PutsAreAwaited
<1>3. \A i, j \in 1..Len(blobOps') :
        blobOps'[i].op = "put" /\ blobOps'[j].op = "put" /\ blobOps'[i].ids \cap blobOps'[j].ids # {} => i = j
  <2>1. \A i, j \in 1..Len(blobOps') : i + 1 = j + 1 => i = j
    BY <1>1
  <2> QED
    BY <1>1, <2>1, SMTT(60) DEF PutsAreAwaited
<1>4. PutsAreAwaited'
  BY <1>2, <1>3 DEF PutsAreAwaited
<1>5. ASSUME NEW x, Doomed(x), ~(op.op = "delete" /\ x \in op.ids), ~(op.op = "sweep" /\ x \notin op.ids)
      PROVE  Doomed(x)'
  <2>1. PICK i \in 1..Len(blobOps) : \/ blobOps[i].op = "delete" /\ x \in blobOps[i].ids
                                     \/ blobOps[i].op = "sweep" /\ x \notin blobOps[i].ids
    BY <1>5 DEF Doomed
  <2>2. i # 1
    BY <1>5, <2>1
  <2>3. i - 1 \in 1..Len(blobOps') /\ (i - 1) + 1 = i
    BY <1>1, <2>2
  <2>4. blobOps'[i - 1] = blobOps[i]
    BY <1>1, <2>3
  <2> QED
    BY <2>1, <2>3, <2>4 DEF Doomed
<1> QED
  BY <1>4, <1>5, Zenon

\* What is behind the head is not being committed.
LEMMA NextIsNoCommit ==
  ASSUME PageTypes, DeletesAreReleased, blobOps # <<>>, blobOps' = Tail(blobOps)
  PROVE  Committing' = {}
<1>1. /\ Len(blobOps) \in Nat /\ blobOps' \in Seq(BlobOps)
      /\ \A i \in 1..Len(blobOps') : blobOps'[i] = blobOps[i + 1] /\ i + 1 \in 1..Len(blobOps)
  BY TailFacts DEF PageTypes
<1>2. blobOps' # <<>> => Head(blobOps') = blobOps'[1] /\ 1 \in 1..Len(blobOps')
  BY <1>1
<1>3. blobOps' # <<>> => Head(blobOps').op # "commit"
  BY <1>1, <1>2 DEF DeletesAreReleased
<1> QED
  BY <1>3 DEF Committing

\* A transaction is carried out: its bytes go where they belong.
LEMMA BlobDoneSettles == PageTypes /\ FilesInv /\ BytesInv /\ SettlesInv /\ BlobDone => SettlesInv'
<1> SUFFICES ASSUME PageTypes, FilesInv, BytesInv, SettlesInv, BlobDone PROVE SettlesInv'
  OBVIOUS
<1> DEFINE op == Head(blobOps)
<1>1. /\ UNCHANGED <<page, loaded, held, micro, waiting, catalog, catalogOps>>
      /\ blobOps # <<>> /\ blobOps' = Tail(blobOps) /\ blobs' = BlobsAfter(op) /\ op.op # "put"
  BY DEF BlobDone, tabVars, queueVars, history
<1>2. op = blobOps[1] /\ op \in BlobOps
  BY <1>1, TailFacts DEF PageTypes
<1>3. Committing = IF op.op = "commit" THEN op.ids ELSE {}
  BY <1>1 DEF Committing
<1> HIDE DEF op
<1>4. /\ PutsAreAwaited'
      /\ \A x : Doomed(x) => \/ Doomed(x)'
                             \/ op.op = "delete" /\ x \in op.ids
                             \/ op.op = "sweep" /\ x \notin op.ids
  BY <1>1, <1>2, HeadLeaves DEF SettlesInv, PutsAreAwaited
<1>5. Committing' = {}
  BY <1>1, NextIsNoCommit DEF BytesInv
<1>6. \A x : InStore(x) => InStore(x)'
  BY <1>1 DEF InStore
<1>7. ASSUME NEW x \in blobs'
      PROVE  /\ x \in blobs \cup Committing
             /\ ~(op.op = "delete" /\ x \in op.ids) /\ ~(op.op = "sweep" /\ x \notin op.ids)
  BY <1>1, <1>2, <1>3, <1>7 DEF BlobsAfter, BlobOps
<1>8. page = "live" => BytesAreNamed'
  BY <1>1, <1>4, <1>5, <1>6, <1>7 DEF SettlesInv, BytesAreNamed, HeldIds
<1>9. page = "live" => LatestIsHeld'
  BY <1>1 DEF SettlesInv, LatestIsHeld
<1> QED
  BY <1>1, <1>4, <1>8, <1>9 DEF SettlesInv

\* A put that succeeds is awaited by a fling, which goes on.
LEMMA PutSucceedsSettles == PageTypes /\ SettlesInv /\ PutSucceeds => SettlesInv'
<1> SUFFICES ASSUME PageTypes, SettlesInv, PutSucceeds PROVE SettlesInv'
  OBVIOUS
<1> DEFINE op == Head(blobOps)
           new == [op EXCEPT !.op = "commit"]
           mark(w) == IF w.step = "storing" /\ w.file \in op.ids THEN [w EXCEPT !.step = "stored"] ELSE w
<1>1. /\ UNCHANGED <<page, loaded, held, micro, blobs, catalog, catalogOps>>
      /\ micro = <<>> /\ blobOps # <<>> /\ blobOps' = <<new>> \o Tail(blobOps) /\ op.op = "put"
      /\ waiting' = {mark(w) : w \in waiting}
  BY DEF PutSucceeds, tabVars, storeVars, history
<1>2. /\ op = blobOps[1] /\ op \in BlobOps /\ new \in BlobOps /\ new.op = "commit" /\ new.ids = op.ids
      /\ Len(blobOps) \in Nat /\ 1 \in 1..Len(blobOps)
  <2>1. op = blobOps[1] /\ op \in BlobOps /\ Len(blobOps) \in Nat /\ 1 \in 1..Len(blobOps)
    BY <1>1, TailFacts DEF PageTypes
  <2> HIDE DEF op
  <2> QED
    BY <2>1 DEF BlobOps
<1>3. ASSUME NEW w \in waiting
      PROVE  /\ mark(w).file = w.file /\ mark(w).cmd = w.cmd
             /\ w.step = "stored" => mark(w).step = "stored"
             /\ w.step = "storing" /\ w.file \in op.ids => mark(w).step = "stored"
             /\ w.step = "storing" /\ w.file \notin op.ids => mark(w).step = "storing"
             /\ mark(w).step # "reading" => w.step # "reading"
  BY DEF PageTypes, Steps
<1> HIDE DEF new, mark
<1>4. /\ blobOps' # <<>> /\ Head(blobOps') = new /\ blobOps'[1] = new /\ Len(blobOps') = Len(blobOps)
      /\ \A i \in 1..Len(blobOps) : i # 1 => blobOps'[i] = blobOps[i]
  BY <1>1, <1>2, HeadFacts DEF PageTypes
<1>5. Committing' = op.ids /\ Committing = {}
  BY <1>1, <1>2, <1>4 DEF Committing
<1> HIDE DEF op
<1>6. PutsAreAwaited'
  <2>1. \A w \in waiting' : w.step # "reading" => w.cmd.op = "fling"
    BY <1>1, <1>3 DEF SettlesInv, PutsAreAwaited
  <2>2. \A i \in 1..Len(blobOps') : blobOps'[i].op = "put" =>
          i # 1 /\ i \in 1..Len(blobOps) /\ blobOps'[i] = blobOps[i]
    BY <1>2, <1>4
  <2>3. ASSUME NEW i \in 1..Len(blobOps'), blobOps'[i].op = "put", NEW x \in blobOps'[i].ids
        PROVE  \E w \in waiting' : w.step = "storing" /\ w.file = x
    <3>1. i # 1 /\ i \in 1..Len(blobOps) /\ blobOps'[i] = blobOps[i]
      BY <2>2, <2>3
    <3>2. PICK w \in waiting : w.step = "storing" /\ w.file = x
      BY <2>3, <3>1 DEF SettlesInv, PutsAreAwaited
    <3>3. x \notin op.ids
      BY <1>1, <1>2, <2>3, <3>1 DEF SettlesInv, PutsAreAwaited
    <3> QED
      BY <1>1, <1>3, <3>2, <3>3
  <2>4. \A i, j \in 1..Len(blobOps') :
          blobOps'[i].op = "put" /\ blobOps'[j].op = "put" /\ blobOps'[i].ids \cap blobOps'[j].ids # {} => i = j
    BY <2>2, SMTT(30) DEF SettlesInv, PutsAreAwaited
  <2> QED
    BY <2>1, <2>3, <2>4 DEF PutsAreAwaited
<1>7. \A x : InStore(x) => InStore(x)'
  BY <1>1, <1>3, EmptyFacts DEF InStore
<1>8. ASSUME NEW x \in op.ids PROVE InStore(x)'
  <2>1. PICK w \in waiting : w.step = "storing" /\ w.file = x
    BY <1>1, <1>2, <1>8 DEF SettlesInv, PutsAreAwaited
  <2> QED
    BY <1>1, <1>3, <1>8, <2>1 DEF InStore
<1>9. ASSUME NEW x, Doomed(x) PROVE Doomed(x)'
  <2>1. PICK i \in 1..Len(blobOps) : \/ blobOps[i].op = "delete" /\ x \in blobOps[i].ids
                                     \/ blobOps[i].op = "sweep" /\ x \notin blobOps[i].ids
    BY <1>9 DEF Doomed
  <2>2. i # 1
    BY <1>1, <1>2, <2>1
  <2>3. blobOps'[i] = blobOps[i] /\ i \in 1..Len(blobOps')
    BY <1>4, <2>2
  <2> QED
    BY <2>1, <2>3 DEF Doomed
<1>10. page = "live" => LatestIsHeld' /\ BytesAreNamed'
  BY <1>1, <1>5, <1>7, <1>8, <1>9 DEF SettlesInv, LatestIsHeld, BytesAreNamed, HeldIds
<1> QED
  BY <1>1, <1>6, <1>10 DEF SettlesInv

LEMMA FlingSettles == PageTypes /\ PageTypes' /\ FilesInv /\ SettlesInv /\ Fling => SettlesInv'
<1> SUFFICES ASSUME PageTypes, PageTypes', FilesInv, SettlesInv, Fling PROVE SettlesInv'
  OBVIOUS
<1> DEFINE old  == Previous(Now.cmd.ref)
           file == [id |-> Now.file, from |-> Now.cmd.ref]
<1>1. /\ Now = micro[1] /\ Len(micro) = 1 /\ Len(micro') = 0
  <2>1. Now = micro[1] /\ Len(micro) \in Nat /\ Len(micro) > 0 /\ Len(micro') = Len(micro) - 1
    BY NowFacts DEF Fling
  <2> QED
    BY <2>1 DEF Fling, FilesInv, PendingOnce
<1>2. /\ held' = (held \ old) \cup {file} /\ waiting' = waiting /\ page' = page
      /\ loaded' = loaded /\ catalog' = catalog
      /\ catalogOps' = Saves(held') /\ blobs' = blobs /\ blobOps' = Deletes(old)
  BY DEF Fling, storeVars
<1>3. held' \in SUBSET Files /\ old \in SUBSET held /\ file.id = Now.file
  BY DEF PageTypes, Previous
<1> HIDE DEF old, file
<1>4. /\ PutsAreAwaited' /\ Committing' = Committing
      /\ (\A x : Doomed(x) => Doomed(x)') /\ (\A e \in old : Doomed(e.id)')
  BY <1>2, <1>3, DeletesDoom DEF SettlesInv
<1>5. LatestIsHeld'
  BY <1>2, <1>3, SavedIsLatest
<1>6. \A x : InStore(x) => InStore(x)' \/ x = Now.file
  BY <1>1, <1>2 DEF InStore
<1>7. Now.file \in HeldIds' /\ \A x \in HeldIds : x \in HeldIds' \/ \E e \in old : e.id = x
  BY <1>2, <1>3 DEF HeldIds
<1>8. ASSUME page = "live" PROVE BytesAreNamed'
  BY <1>2, <1>4, <1>6, <1>7, <1>8 DEF SettlesInv, BytesAreNamed
<1> QED
  BY <1>2, <1>4, <1>5, <1>8 DEF SettlesInv

LEMMA DropSettles == PageTypes /\ PageTypes' /\ FilesInv /\ SettlesInv /\ Drop => SettlesInv'
<1> SUFFICES ASSUME PageTypes, PageTypes', FilesInv, SettlesInv, Drop PROVE SettlesInv'
  OBVIOUS
<1> DEFINE old == {e \in held : e.id = Now.cmd.ref}
<1>1. /\ Now = micro[1] /\ Now.cmd.op = "drop" /\ Len(micro) \in Nat
      /\ Len(micro') = Len(micro) - 1 /\ Len(micro) > 0
  BY NowFacts DEF Drop
<1>2. /\ held' = held \ old /\ waiting' = waiting /\ page' = page
      /\ loaded' = loaded /\ catalog' = catalog
      /\ catalogOps' = Saves(held') /\ blobs' = blobs /\ blobOps' = Deletes(old)
  BY DEF Drop, storeVars
<1>3. held' \in SUBSET Files /\ old \in SUBSET held
  BY DEF PageTypes
<1> HIDE DEF old
<1>4. /\ PutsAreAwaited' /\ Committing' = Committing
      /\ (\A x : Doomed(x) => Doomed(x)') /\ (\A e \in old : Doomed(e.id)')
  BY <1>2, <1>3, DeletesDoom DEF SettlesInv
<1>5. LatestIsHeld'
  BY <1>2, <1>3, SavedIsLatest
<1>6. \A x : InStore(x) => InStore(x)'
  <2>1. \A i \in 1..Len(micro) : micro[i].cmd.op # "fling"
    BY <1>1 DEF FilesInv, PendingOnce
  <2> QED
    BY <1>2, <2>1 DEF InStore
<1>7. \A x \in HeldIds : x \in HeldIds' \/ \E e \in old : e.id = x
  BY <1>2, <1>3 DEF HeldIds
<1>8. ASSUME page = "live" PROVE BytesAreNamed'
  BY <1>2, <1>4, <1>6, <1>7, <1>8 DEF SettlesInv, BytesAreNamed
<1> QED
  BY <1>2, <1>4, <1>5, <1>8 DEF SettlesInv

\* What does not touch the stores, the copies or a fling.
LEMMA SettlesStays ==
  ASSUME SettlesInv, UNCHANGED <<page, loaded, held, catalog, catalogOps, blobs, blobOps>>,
         \A x : InStore(x) => InStore(x)',
         \A w \in waiting : w.step = "storing" => w \in waiting',
         \A w \in waiting' : w.step # "reading" => w.cmd.op = "fling"
  PROVE  SettlesInv'
<1>1. PutsAreAwaited'
  BY DEF SettlesInv, PutsAreAwaited
<1>2. \A x : Doomed(x) => Doomed(x)'
  BY DEF Doomed
<1>3. page = "live" => LatestIsHeld' /\ BytesAreNamed'
  BY <1>2 DEF SettlesInv, LatestIsHeld, BytesAreNamed, HeldIds, Committing
<1> QED
  BY <1>1, <1>3 DEF SettlesInv

LEMMA AdoptSettles == PageTypes /\ BytesInv /\ SettlesInv /\ AdoptCatalog => SettlesInv'
<1> SUFFICES ASSUME PageTypes, BytesInv, SettlesInv, AdoptCatalog PROVE SettlesInv'
  OBVIOUS
<1> DEFINE op == [op |-> "sweep", ids |-> {e.id : e \in loaded}]
<1>1. /\ page = "loading" /\ page' = "live" /\ held' = loaded
      /\ blobOps' = Append(blobOps, op)
      /\ UNCHANGED <<waiting, micro, blobs, catalog, catalogOps>>
  BY DEF AdoptCatalog, queueVars, storeVars, history
<1>2. catalogOps = <<>> /\ blobOps = <<>> /\ loaded = catalog
  BY <1>1 DEF BytesInv, QuietUntilLive, SettlesInv
<1>3. op \in BlobOps /\ op.op = "sweep" /\ op.ids = {e.id : e \in loaded}
  BY DEF PageTypes, Files, BlobOps
<1> HIDE DEF op
<1>4. PutsAreAwaited' /\ Committing' = {}
  BY <1>1, <1>2, <1>3, QueuedAwaits DEF SettlesInv, Committing
<1>5. \A x \in blobs : x \in HeldIds' \/ Doomed(x)'
  BY <1>1, <1>3, QueuedDooms DEF HeldIds
<1> QED
  BY <1>1, <1>2, <1>4, <1>5 DEF SettlesInv, LatestIsHeld, BytesAreNamed

LEMMA PutIsAwaited ==
  ASSUME PageTypes, FilesInv, PutsAreAwaited, NEW w \in waiting, w.step = "reading", w.cmd.op = "fling",
         waiting' = (waiting \ {w}) \cup {[w EXCEPT !.step = "storing"]},
         blobOps' = Append(blobOps, [op |-> "put", ids |-> {w.file}])
  PROVE  PutsAreAwaited' /\ Committing' = Committing
<1> DEFINE op   == [op |-> "put", ids |-> {w.file}]
           next == [w EXCEPT !.step = "storing"]
<1>1. op \in BlobOps /\ op.op = "put" /\ op.ids = {w.file}
      /\ next.step = "storing" /\ next.file = w.file /\ next.cmd = w.cmd
  BY DEF PageTypes, Steps, BlobOps
<1>2. waiting' = (waiting \ {w}) \cup {next} /\ blobOps' = Append(blobOps, op)
  OBVIOUS
<1> HIDE DEF op, next
<1>3. /\ Len(blobOps') = Len(blobOps) + 1 /\ Len(blobOps) \in Nat
      /\ \A i \in 1..Len(blobOps) : blobOps'[i] = blobOps[i]
      /\ blobOps'[Len(blobOps) + 1] = op
  BY <1>1, <1>2, AppendFacts DEF PageTypes
<1>4. \A i \in 1..Len(blobOps') : i \in 1..Len(blobOps) \/ i = Len(blobOps) + 1
  BY <1>3
<1>5. \A i \in 1..Len(blobOps) : blobOps[i].op = "put" => w.file \notin blobOps[i].ids
  BY DEF PutsAreAwaited, FilesInv, PendingOnce
<1>6. ASSUME NEW i \in 1..Len(blobOps'), blobOps'[i].op = "put", NEW x \in blobOps'[i].ids
      PROVE  \E v \in waiting' : v.step = "storing" /\ v.file = x
  <2>1. CASE i = Len(blobOps) + 1
    BY <1>1, <1>2, <1>3, <1>6, <2>1
  <2>2. CASE i \in 1..Len(blobOps)
    BY <1>2, <1>3, <1>6, <2>2 DEF PutsAreAwaited
  <2> QED
    BY <1>4, <2>1, <2>2
<1>7. ASSUME NEW i \in 1..Len(blobOps'), NEW j \in 1..Len(blobOps'),
             blobOps'[i].op = "put", blobOps'[j].op = "put", blobOps'[i].ids \cap blobOps'[j].ids # {}
      PROVE  i = j
  <2>1. CASE i \in 1..Len(blobOps) /\ j \in 1..Len(blobOps)
    BY <1>3, <1>7, <2>1 DEF PutsAreAwaited
  <2>2. CASE i = Len(blobOps) + 1 \/ j = Len(blobOps) + 1
    BY <1>1, <1>3, <1>4, <1>5, <1>7, <2>2
  <2> QED
    BY <1>4, <2>1, <2>2
<1>8. \A v \in waiting' : v.step # "reading" => v.cmd.op = "fling"
  BY <1>1, <1>2 DEF PutsAreAwaited
<1> QED
  BY <1>1, <1>2, <1>6, <1>7, <1>8, QueuedCommits DEF PutsAreAwaited

LEMMA SettlesStep ==
  ASSUME PageTypes, PageTypes', FilesInv, BytesInv, SettlesInv, [Next]_vars,
         ~CatalogUnread, ~CatalogFails, BlobFails => Head(blobOps).op \in {"put", "commit"}
  PROVE  SettlesInv'
<1> USE EmptyFacts
<1>1. CASE LoadCatalog \/ Reload
  <2>1. /\ page' # "live" /\ (page' = "loading" => loaded' = catalog')
        /\ UNCHANGED <<waiting, blobOps>> \/ (waiting' = {} /\ blobOps' = <<>>)
    <3>1. CASE LoadCatalog
      BY <3>1 DEF LoadCatalog, queueVars, opsVars, storeVars
    <3>2. CASE Reload
      BY <3>2 DEF Reload
    <3> QED
      BY <1>1, <3>1, <3>2
  <2>2. PutsAreAwaited'
    BY <2>1 DEF SettlesInv, PutsAreAwaited
  <2> QED
    BY <2>1, <2>2 DEF SettlesInv
<1>2. CASE AdoptCatalog
  BY <1>2, AdoptSettles
<1>3. ASSUME NEW c \in {d \in Commands : Waits(d)}, DeliverWaiting(c) PROVE SettlesInv'
  <2> DEFINE new == [cmd |-> c, step |-> "reading", file |-> 2 * commands']
  <2>1. /\ waiting' = waiting \cup {new} /\ new.step = "reading" /\ micro' = micro
        /\ UNCHANGED <<page, loaded, held, catalog, catalogOps, blobs, blobOps>>
    BY <1>3 DEF DeliverWaiting, tabVars, storeVars, opsVars
  <2> HIDE DEF new
  <2>2. \A x : InStore(x) => InStore(x)'
    BY <2>1 DEF InStore
  <2> QED
    BY <2>1, <2>2, SettlesStays DEF SettlesInv, PutsAreAwaited
<1>4. ASSUME NEW batch, DeliverNow(batch) PROVE SettlesInv'
  <2>1. /\ waiting' = waiting /\ micro = <<>>
        /\ UNCHANGED <<page, loaded, held, catalog, catalogOps, blobs, blobOps>>
    BY <1>4 DEF DeliverNow, tabVars, storeVars, opsVars
  <2>2. \A x : InStore(x) => InStore(x)'
    BY <2>1 DEF InStore
  <2> QED
    BY <2>1, <2>2, SettlesStays DEF SettlesInv, PutsAreAwaited
<1>5. ASSUME NEW w \in waiting, Prepared(w) PROVE SettlesInv'
  <2>1. /\ UNCHANGED <<page, loaded, held, catalog, catalogOps, blobs>>
        /\ micro = <<>> /\ w \in Steps /\ w.step = "reading"
    BY <1>5 DEF Prepared, tabVars, storeVars, PageTypes
  <2>2. CASE w.cmd.op = "fling"
    <3> DEFINE op == [op |-> "put", ids |-> {w.file}]
    <3>1. /\ waiting' = (waiting \ {w}) \cup {[w EXCEPT !.step = "storing"]}
          /\ micro' = micro /\ blobOps' = Append(blobOps, op)
      BY <1>5, <2>2 DEF Prepared
    <3>2. PutsAreAwaited' /\ Committing' = Committing
      BY <2>1, <2>2, <3>1, PutIsAwaited DEF SettlesInv
    <3>3. op \in BlobOps
      BY <2>1 DEF Steps, BlobOps
    <3> HIDE DEF op
    <3>4. \A x : Doomed(x) => Doomed(x)'
      BY <3>1, <3>3, QueuedDooms
    <3>5. \A x : InStore(x) => InStore(x)'
      BY <2>1, <3>1 DEF InStore
    <3> QED
      BY <2>1, <3>2, <3>4, <3>5 DEF SettlesInv, LatestIsHeld, BytesAreNamed, HeldIds
  <2>3. CASE w.cmd.op # "fling"
    <3>1. waiting' = waiting \ {w} /\ blobOps' = blobOps
      BY <1>5, <2>3 DEF Prepared
    <3>2. \A x : InStore(x) => InStore(x)'
      BY <2>1, <3>1 DEF InStore
    <3> QED
      BY <2>1, <3>1, <3>2, SettlesStays DEF SettlesInv, PutsAreAwaited
  <2> QED
    BY <2>2, <2>3
<1>6. ASSUME NEW w \in waiting, Refused(w) PROVE SettlesInv'
  <2>1. /\ UNCHANGED <<page, loaded, held, catalog, catalogOps, blobs, blobOps, micro>>
        /\ w.step = "reading" /\ waiting' = waiting \ {w}
    BY <1>6 DEF Refused, tabVars, storeVars, opsVars
  <2>2. \A x : InStore(x) => InStore(x)'
    BY <2>1 DEF InStore
  <2> QED
    BY <2>1, <2>2, SettlesStays DEF SettlesInv, PutsAreAwaited
<1>7. ASSUME NEW w \in waiting, Stored(w) PROVE SettlesInv'
  <2>1. /\ UNCHANGED <<page, loaded, held, catalog, catalogOps, blobs, blobOps>>
        /\ w.step = "stored" /\ waiting' = waiting \ {w} /\ micro = <<>>
        /\ micro' = <<Ready(w.cmd, w.file)>>
    BY <1>7 DEF Stored, tabVars, storeVars, opsVars, history
  <2>2. Len(micro') = 1 /\ micro'[1].file = w.file /\ micro'[1].cmd.op = "fling"
    BY <2>1 DEF Ready, SettlesInv, PutsAreAwaited
  <2>3. \A x : InStore(x) => InStore(x)'
    <3>1. 1 \in 1..Len(micro')
      BY <2>2
    <3> QED
      BY <2>1, <2>2, <3>1 DEF InStore
  <2> QED
    BY <2>1, <2>3, SettlesStays DEF SettlesInv, PutsAreAwaited
<1>8. CASE Refuse \/ Reuse \/ Put \/ Focus \/ Close
  <2>1. /\ UNCHANGED <<page, loaded, held, catalog, catalogOps, blobs, blobOps, waiting>>
        /\ micro # <<>> /\ micro' = Tail(micro)
    BY <1>8 DEF Refuse, Reuse, Put, Focus, Close, tabVars, storeVars, opsVars, history
  <2>2. Now = micro[1] /\ Now.cmd.op # "fling" /\ Len(micro) \in Nat /\ Len(micro) > 0
    <3>1. Now.cmd.op # "fling"
      BY <1>8, NowFacts DEF Refuse, Reuse, Put, Focus, Close, Knows
    <3> QED
      BY <2>1, <3>1, NowFacts
  <2>3. \A i \in 1..Len(micro) : micro[i].cmd.op # "fling"
    BY <2>2 DEF FilesInv, PendingOnce
  <2>4. \A x : InStore(x) => InStore(x)'
    BY <2>1, <2>3 DEF InStore
  <2> QED
    BY <2>1, <2>4, SettlesStays DEF SettlesInv, PutsAreAwaited
<1>9. CASE Fling
  BY <1>9, FlingSettles
<1>10. CASE Drop
  BY <1>10, DropSettles
<1>11. CASE BlobDone \/ PutSucceeds
  BY <1>11, BlobDoneSettles, PutSucceedsSettles
<1>12. CASE BlobFails
  <2> DEFINE op == Head(blobOps)
  <2>1. /\ UNCHANGED <<page, loaded, held, micro, catalog, catalogOps, blobs>>
        /\ blobOps # <<>> /\ blobOps' = Tail(blobOps) /\ op.op \in {"put", "commit"}
        /\ waiting' = {w \in waiting : ~(op.op = "put" /\ w.file \in op.ids)}
    BY <1>12 DEF BlobFails, tabVars, storeVars
  <2>2. op = blobOps[1] /\ 1 \in 1..Len(blobOps)
    BY <2>1, TailFacts DEF PageTypes
  <2> HIDE DEF op
  <2>3. PutsAreAwaited' /\ \A x : Doomed(x) => Doomed(x)'
    BY <2>1, <2>2, HeadLeaves DEF SettlesInv, PutsAreAwaited
  <2>4. \A x : InStore(x) => InStore(x)'
    <3>1. \A w \in waiting : w.step = "stored" => ~(op.op = "put" /\ w.file \in op.ids)
      BY <2>1, <2>2 DEF SettlesInv, PutsAreAwaited, FilesInv, PendingOnce
    <3> QED
      BY <2>1, <3>1 DEF InStore
  <2>5. Committing' = {}
    BY <2>1, NextIsNoCommit DEF BytesInv
  <2>6. page = "live" => LatestIsHeld' /\ BytesAreNamed'
    BY <2>1, <2>3, <2>4, <2>5 DEF SettlesInv, LatestIsHeld, BytesAreNamed, HeldIds
  <2> QED
    BY <2>1, <2>3, <2>6 DEF SettlesInv
<1>13. CASE CatalogSaved
  <2>1. /\ UNCHANGED <<page, loaded, held, micro, waiting, blobs, blobOps>>
        /\ catalogOps # <<>> /\ catalogOps' = Tail(catalogOps) /\ catalog' = Head(catalogOps)
    BY <1>13 DEF CatalogSaved, tabVars, queueVars, history
  <2>2. /\ Head(catalogOps) = catalogOps[1] /\ Len(catalogOps) \in Nat /\ Len(catalogOps) > 0
        /\ Len(catalogOps') = Len(catalogOps) - 1 /\ catalogOps' \in Seq(SUBSET Files)
        /\ \A i \in 1..Len(catalogOps') : catalogOps'[i] = catalogOps[i + 1]
    BY <2>1, TailFacts DEF PageTypes
  <2>3. LatestIsHeld => LatestIsHeld'
    <3>1. CASE catalogOps' = <<>>
      <4>1. Len(catalogOps) = 1
        BY <2>2, <3>1
      <4> QED
        BY <2>1, <2>2, <3>1, <4>1 DEF LatestIsHeld
    <3>2. CASE catalogOps' # <<>>
      <4>1. Len(catalogOps') \in 1..Len(catalogOps') /\ Len(catalogOps') + 1 = Len(catalogOps)
        BY <2>2, <3>2
      <4>2. catalogOps'[Len(catalogOps')] = catalogOps[Len(catalogOps)]
        BY <2>2, <4>1
      <4> QED
        BY <2>1, <3>2, <4>2 DEF LatestIsHeld
    <3> QED
      BY <3>1, <3>2
  <2>4. PutsAreAwaited' /\ (BytesAreNamed => BytesAreNamed')
    <3>1. \A x : (InStore(x) => InStore(x)') /\ (Doomed(x) => Doomed(x)')
      BY <2>1 DEF InStore, Doomed
    <3> QED
      BY <2>1, <3>1 DEF SettlesInv, PutsAreAwaited, BytesAreNamed, HeldIds, Committing
  <2>5. page # "loading"
    BY <2>1 DEF BytesInv, QuietUntilLive
  <2> QED
    BY <2>1, <2>3, <2>4, <2>5 DEF SettlesInv
<1>14. CASE UNCHANGED vars
  <2>1. /\ UNCHANGED <<page, loaded, held, catalog, catalogOps, blobs, blobOps>>
        /\ UNCHANGED <<waiting, micro>>
    BY <1>14 DEF vars, tabVars, queueVars, storeVars, opsVars, history
  <2>2. \A x : InStore(x) => InStore(x)'
    BY <2>1 DEF InStore
  <2> QED
    BY <2>1, <2>2, SettlesStays DEF SettlesInv, PutsAreAwaited
<1> QED
  BY <1>1, <1>2, <1>3, <1>4, <1>5, <1>6, <1>7, <1>8, <1>9, <1>10, <1>11, <1>12, <1>13, <1>14
    DEF Next

-----------------------------------------------------------------------------
(* The properties *)

\* A race and a failure are remembered.
LEMMA HistoryStays ==
  ASSUME raced \in BOOLEAN, faulty \in BOOLEAN, [Next]_vars
  PROVE  /\ raced' \in BOOLEAN /\ faulty' \in BOOLEAN
         /\ raced => raced'
         /\ faulty => faulty'
         /\ \A w \in waiting : Prepared(w) /\ w.cmd.op = "fling" /\ page = "loading" => raced'
         /\ CatalogFails \/ CatalogUnread => faulty'
         /\ BlobFails /\ Head(blobOps).op \in {"delete", "sweep"} => faulty'
<1>1. \A w \in waiting : Prepared(w) /\ w.cmd.op = "fling" =>
        raced' = (raced \/ page = "loading") /\ faulty' = faulty
  BY DEF Prepared
<1>2. \A w \in waiting : Prepared(w) /\ w.cmd.op # "fling" => raced' = raced /\ faulty' = faulty
  BY DEF Prepared
<1>3. BlobFails => faulty' = (faulty \/ Head(blobOps).op \in {"delete", "sweep"}) /\ raced' = raced
  BY DEF BlobFails
<1>4. CatalogFails \/ CatalogUnread => faulty' = TRUE /\ raced' = raced
  BY DEF CatalogFails, CatalogUnread
<1>5. \/ UNCHANGED <<raced, faulty>> \/ CatalogFails \/ CatalogUnread \/ BlobFails
      \/ \E w \in waiting : Prepared(w)
  BY DEF Next, LoadCatalog, AdoptCatalog, DeliverWaiting, DeliverNow, Refused, Stored, Refuse, Reuse,
         Put, Focus, Close, Fling, Drop, PutSucceeds, BlobDone, CatalogSaved, Reload, vars, history
<1> QED
  BY <1>1, <1>2, <1>3, <1>4, <1>5, Zenon

PageInv ==
  /\ raced \in BOOLEAN /\ faulty \in BOOLEAN
  /\ PageTypes /\ FilesInv /\ TabInv
  /\ ~raced => BytesInv
  /\ ~raced /\ ~faulty => SettlesInv

LEMMA PageAlways == Spec => []PageInv
<1>1. Init => PageInv
  <2>1. Init => raced \in BOOLEAN /\ faulty \in BOOLEAN
    BY DEF Init
  <2> QED
    BY <2>1, InitTypes, InitFiles, InitTabs, InitBytes, InitSettles DEF PageInv
<1>2. PageInv /\ [Next]_vars => PageInv'
  <2> SUFFICES ASSUME PageInv, [Next]_vars PROVE PageInv'
    OBVIOUS
  <2>1. PageTypes' /\ FilesInv' /\ TabInv'
    BY TypesStep, FilesStep, TabsStep DEF PageInv
  <2>2. /\ raced' \in BOOLEAN /\ faulty' \in BOOLEAN
        /\ raced => raced'
        /\ faulty => faulty'
        /\ \A w \in waiting : Prepared(w) /\ w.cmd.op = "fling" /\ page = "loading" => raced'
        /\ CatalogFails \/ CatalogUnread => faulty'
        /\ BlobFails /\ Head(blobOps).op \in {"delete", "sweep"} => faulty'
    BY HistoryStays, Zenon DEF PageInv
  <2>3. ASSUME ~raced' PROVE BytesInv'
    <3>1. ~raced
      BY <2>2, <2>3, Zenon
    <3>2. \A w \in waiting : Prepared(w) /\ w.cmd.op = "fling" => page # "loading"
      BY <2>2, <2>3, Zenon
    <3>3. PageTypes /\ FilesInv /\ BytesInv
      BY <3>1, Zenon DEF PageInv
    <3> QED
      BY <2>1, <3>2, <3>3, BytesStep
  <2>4. ASSUME ~raced', ~faulty' PROVE SettlesInv'
    <3>1. ~raced /\ ~faulty
      BY <2>2, <2>4, Zenon
    <3>2. ~CatalogFails /\ ~CatalogUnread /\ (BlobFails => Head(blobOps).op \in {"put", "commit"})
      <4>1. BlobFails => Head(blobOps) \in BlobOps
        BY TailFacts DEF BlobFails, PageInv, PageTypes
      <4>2. BlobFails => Head(blobOps).op \in {"put", "commit", "delete", "sweep"}
        BY <4>1 DEF BlobOps
      <4> QED
        BY <2>2, <2>4, <4>2, Zenon
    <3>3. PageTypes /\ FilesInv /\ BytesInv /\ SettlesInv
      BY <3>1, Zenon DEF PageInv
    <3> QED
      BY <2>1, <3>2, <3>3, SettlesStep
  <2> QED
    BY <2>1, <2>2, <2>3, <2>4, Zenon DEF PageInv
<1> QED
  BY <1>1, <1>2, PTL DEF Spec

\* No two tabs are on one path or one copy.
THEOREM PageKeepsOneTab == Spec => []OneTabPerReference
<1>1. PageInv => OneTabPerReference
  BY DEF PageInv, TabInv
<1> QED
  BY <1>1, PageAlways, PTL

\* Frames run for tabs only, and every tab but a copy's has one.
THEOREM PageFramesFollow == Spec => []FramesFollowTabs
<1>1. PageInv => FramesFollowTabs
  BY DEF PageInv, TabInv
<1> QED
  BY <1>1, PageAlways, PTL

\* A copy the page shows, or would find when it next loads, has its bytes or
\* has them in a transaction, unless it was released, the browser did not
\* commit what it took or did not read its catalog, or flings raced the load.
THEOREM PageCopiesKeepBytes == Spec => []CopiesKeepBytes
<1>1. ASSUME PageInv, ~raced PROVE \A e \in held \cup loaded \cup catalog :
                    e.id \in blobs \cup Committing \cup released \cup lost
  <2>1. PageTypes /\ BytesThere
    BY <1>1, Zenon DEF PageInv, BytesInv
  <2> QED
    BY <2>1 DEF PageTypes, BytesThere, Copy, Kept
<1>2. PageInv => CopiesKeepBytes
  BY <1>1, Zenon DEF CopiesKeepBytes
<1> QED
  BY <1>2, PageAlways, PTL

\* Quiet stores that never failed hold what the page shows, and no more.
THEOREM PageStoresSettle == Spec => []StorageSettles
<1>1. ASSUME PageInv, ~raced, ~faulty, page = "live", waiting = {}, micro = <<>>,
             blobOps = <<>>, catalogOps = <<>>
      PROVE  catalog = held /\ blobs \subseteq HeldIds
  <2>1. LatestIsHeld /\ BytesAreNamed
    BY <1>1, Zenon DEF PageInv, SettlesInv
  <2>2. \A x : ~InStore(x) /\ ~Doomed(x)
    BY <1>1, EmptyFacts DEF InStore, Doomed
  <2> QED
    BY <1>1, <2>1, <2>2 DEF LatestIsHeld, BytesAreNamed
<1>2. PageInv => StorageSettles
  BY <1>1, Zenon DEF StorageSettles
<1> QED
  BY <1>2, PageAlways, PTL

=============================================================================
