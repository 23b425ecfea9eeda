----------------------- MODULE ServiceDirectoryProofs -----------------------
(***************************************************************************)
(* The service directory for any contents, and any number of changes,      *)
(* starts, kills and readings: the doorbell is honest, and a page that has *)
(* answered it shows the document it rang for.                             *)
(***************************************************************************)
EXTENDS ServiceDirectory, TLAPS

Documents == [rev : Nat, content : Contents \cup {None}, life : Nat]

DirTypes ==
  /\ host \in {"down", "awaiting", "wiped", "up"} /\ fresh \in BOOLEAN
  /\ input \in Contents /\ body \in Contents \cup {None}
  /\ rev \in Nat /\ owes \in BOOLEAN
  /\ doc \in Documents /\ bell \in Nat /\ beating \in BOOLEAN
  /\ cache \in Documents /\ alive \in BOOLEAN /\ pageRev \in Nat
  /\ reading \in {"no", "opening", "reading"} /\ file \in Documents
  /\ life \in Nat /\ looked \in Nat \cup {-1} /\ orphan \in BOOLEAN

\* The directory holds what the host remembers.
Held == doc # NoDoc /\ doc.rev = rev /\ doc.content = body

\* What the host remembers is what the directory holds, or what it wiped.
HostAgrees ==
  /\ doc # NoDoc => doc.rev >= 1 /\ doc.content \in Contents /\ doc.life = life
  /\ host # "down" /\ body # None => body = input /\ (Held \/ (orphan /\ doc = NoDoc))
  /\ host = "wiped" => fresh /\ doc = NoDoc /\ ~beating
  /\ host = "up" => body # None
  /\ owes => host \in {"awaiting", "up"} /\ body # None

BellFollows ==
  /\ beating => orphan \/ (doc # NoDoc /\ doc.rev >= bell)
  /\ host = "up" /\ ~owes => bell = rev

\* Document d took the place of f, in the same life of the directory.
Follows(d, f) == d # NoDoc /\ d.rev >= f.rev /\ (d.rev = f.rev => d = f)

\* Revisions name documents, within one life of the directory.
ReadersAgree ==
  /\ cache # NoDoc => cache.life <= life /\ (cache.life = life => Follows(doc, cache))
  /\ looked <= life
  /\ alive /\ looked = life => doc # NoDoc /\ doc.rev >= pageRev
  /\ reading # "no" => alive
  /\ reading = "reading" =>
       /\ file # NoDoc /\ looked <= file.life /\ file.life <= life
       /\ file.life = looked => file.rev >= pageRev
       /\ file.life = life => Follows(doc, file)

\* A page that has answered shows the document, or the next one is there, or
\* its cache is of another life.
PageAnswered ==
  reading = "no" /\ alive /\ looked = life =>
    \/ doc.rev > pageRev
    \/ shown = doc.content
    \/ cache # NoDoc /\ cache.life # life /\ cache.rev = pageRev

DirInv == DirTypes /\ HostAgrees /\ BellFollows /\ ReadersAgree /\ PageAnswered

LEMMA NoDocIsDocument == NoDoc \in Documents /\ NoDoc.rev = 0
  BY DEF NoDoc, Documents

LEMMA DirInit == Init => DirInv
<1> SUFFICES ASSUME Init PROVE DirInv
  OBVIOUS
<1>1. DirTypes
  BY NoDocIsDocument DEF Init, DirTypes
<1>2. HostAgrees /\ BellFollows /\ ReadersAgree /\ PageAnswered
  BY DEF Init, HostAgrees, BellFollows, ReadersAgree, PageAnswered
<1> QED
  BY <1>1, <1>2 DEF DirInv

\* What a publication does to the document: nothing, or it takes its place
\* under a later revision.
LEMMA PublicationFollows ==
  ASSUME DirTypes, HostAgrees, host # "down", NEW content \in Contents, PublishServices(content)
  PROVE  /\ body' = content /\ rev' \in Nat /\ doc' \in Documents
         /\ \/ orphan /\ doc = NoDoc /\ doc' = NoDoc
            \/ /\ doc' # NoDoc /\ doc'.rev = rev' /\ doc'.content = content
               /\ doc'.rev >= 1 /\ doc'.life = life
         /\ \/ doc' = doc
            \/ doc' # NoDoc /\ doc'.rev > doc.rev /\ doc'.life = life
         /\ doc' = doc /\ body # None => rev' = rev
<1> USE NoneAssumption, NoDocIsDocument
<1>1. body' = content
  BY DEF PublishServices
<1>2. Previous \in Nat /\ Previous >= doc.rev /\ doc.rev \in Nat
  BY DEF Previous, HostAgrees, Held, DirTypes, Documents
<1>3. CASE body = content \/ Adopts(content)
  <2>1. rev' = Previous /\ doc' = doc
    BY <1>3 DEF PublishServices
  <2>2. CASE body = content
    <3>1. body # None /\ rev' = rev
      BY <2>1, <2>2 DEF Previous
    <3>2. (doc # NoDoc /\ doc.rev = rev /\ doc.content = content) \/ (orphan /\ doc = NoDoc)
      BY <2>2, <3>1 DEF HostAgrees, Held
    <3> QED
      BY <1>1, <2>1, <3>1, <3>2 DEF HostAgrees, DirTypes
  <2>3. CASE Adopts(content)
    <3>1. body = None /\ doc.content = content /\ rev' = doc.rev
      BY <2>1, <2>3 DEF Adopts, Previous
    <3>2. doc # NoDoc
      BY <3>1 DEF NoDoc
    <3> QED
      BY <1>1, <1>2, <2>1, <3>1, <3>2 DEF HostAgrees, DirTypes
  <2> QED
    BY <1>3, <2>2, <2>3
<1>4. CASE ~(body = content \/ Adopts(content))
  <2>1. rev' = Previous + 1 /\ doc' = [rev |-> Previous + 1, content |-> content, life |-> life]
    BY <1>4 DEF PublishServices
  <2>2. doc' \in Documents /\ doc'.rev = Previous + 1 /\ doc'.content = content /\ doc'.life = life
    BY <1>2, <2>1 DEF DirTypes, Documents
  <2>3. doc'.rev > doc.rev /\ doc'.rev >= 1
    BY <1>2, <2>2
  <2>4. doc' # NoDoc /\ doc' # doc
    BY <1>2, <2>3
  <2> QED
    BY <1>1, <1>2, <2>1, <2>2, <2>3, <2>4
<1> QED
  BY <1>3, <1>4

\* A publication is not held against a page: it makes what was read older.
LEMMA PublicationKeepsReaders ==
  ASSUME DirTypes, HostAgrees, ReadersAgree, PageAnswered,
         UNCHANGED <<pageVars, life, looked>>, doc' \in Documents,
         \/ doc' = doc
         \/ doc' # NoDoc /\ doc'.rev > doc.rev /\ doc'.life = life
  PROVE  ReadersAgree' /\ PageAnswered'
<1>1. ReadersAgree'
  BY NoDocIsDocument DEF ReadersAgree, Follows, DirTypes, Documents, pageVars
<1>2. PageAnswered'
  BY NoDocIsDocument DEF PageAnswered, ReadersAgree, DirTypes, Documents, pageVars
<1> QED
  BY <1>1, <1>2

LEMMA DirStep == DirInv /\ [Next]_vars => DirInv'
<1> SUFFICES ASSUME DirInv, [Next]_vars PROVE DirInv'
  OBVIOUS
<1> USE NoneAssumption, NoDocIsDocument DEF DirInv
<1>1. CASE Start
  <2>1. DirTypes'
    BY <1>1 DEF Start, DirTypes, dirVars, pageVars
  <2>2. HostAgrees' /\ BellFollows'
    BY <1>1 DEF Start, HostAgrees, Held, BellFollows, dirVars, pageVars
  <2>3. ReadersAgree' /\ PageAnswered'
    BY <1>1 DEF Start, ReadersAgree, PageAnswered, Follows, dirVars, pageVars
  <2> QED
    BY <2>1, <2>2, <2>3
<1>2. CASE CleanServiceDir
  <2>0. /\ host = "awaiting" /\ fresh /\ host' = "wiped" /\ doc' = NoDoc /\ bell' = 0
        /\ beating' = FALSE /\ life' = life + 1 /\ orphan' = (body # None) /\ ~owes
        /\ UNCHANGED <<fresh, input, body, rev, owes, pageVars, looked, changes, starts>>
    BY <1>2 DEF CleanServiceDir
  <2>1. DirTypes'
    <3>1. doc' \in Documents /\ bell' \in Nat /\ life' \in Nat /\ orphan' \in BOOLEAN
      BY <2>0 DEF DirTypes
    <3> QED
      BY <2>0, <3>1 DEF DirTypes, pageVars
  <2>2. HostAgrees' /\ BellFollows'
    BY <2>0 DEF HostAgrees, Held, BellFollows
  <2>3. ReadersAgree' /\ PageAnswered'
    BY <1>2 DEF CleanServiceDir, DirTypes, Documents, ReadersAgree, PageAnswered, pageVars
  <2> QED
    BY <2>1, <2>2, <2>3
<1>3. CASE Publish
  <2>1. /\ host \in {"awaiting", "wiped"} /\ host' = "up" /\ owes' = TRUE /\ ~owes
        /\ PublishServices(input) /\ input \in Contents
        /\ UNCHANGED <<fresh, input, bell, beating, pageVars, history>>
    BY <1>3 DEF Publish, DirTypes
  <2>2. /\ body' = input /\ rev' \in Nat /\ doc' \in Documents
        /\ \/ orphan /\ doc = NoDoc /\ doc' = NoDoc
           \/ /\ doc' # NoDoc /\ doc'.rev = rev' /\ doc'.content = input
              /\ doc'.rev >= 1 /\ doc'.life = life
        /\ \/ doc' = doc
           \/ doc' # NoDoc /\ doc'.rev > doc.rev /\ doc'.life = life
    BY <2>1, PublicationFollows
  <2>3. DirTypes'
    BY <2>1, <2>2 DEF DirTypes, pageVars, history
  <2>4. HostAgrees'
    BY <2>1, <2>2 DEF HostAgrees, Held, DirTypes, Documents, history
  <2>5. BellFollows'
    BY <2>1, <2>2 DEF BellFollows, DirTypes, Documents, history
  <2>6. ReadersAgree' /\ PageAnswered'
    BY <2>1, <2>2, PublicationKeepsReaders DEF history
  <2> QED
    BY <2>3, <2>4, <2>5, <2>6
<1>4. ASSUME NEW content \in Contents, SetServices(content) PROVE DirInv'
  <2>1. /\ host \in {"awaiting", "up"} /\ ~owes
        /\ content # input /\ input' = content /\ PublishServices(content)
        /\ owes' = (doc' # doc)
        /\ UNCHANGED <<host, fresh, bell, beating, pageVars, life, orphan, looked, starts>>
    BY <1>4 DEF SetServices
  <2>2. /\ body' = content /\ rev' \in Nat /\ doc' \in Documents
        /\ \/ orphan /\ doc = NoDoc /\ doc' = NoDoc
           \/ /\ doc' # NoDoc /\ doc'.rev = rev' /\ doc'.content = content
              /\ doc'.rev >= 1 /\ doc'.life = life
        /\ \/ doc' = doc
           \/ doc' # NoDoc /\ doc'.rev > doc.rev /\ doc'.life = life
        /\ doc' = doc /\ body # None => rev' = rev
    BY <2>1, PublicationFollows
  <2>3. DirTypes'
    BY <2>1, <2>2 DEF DirTypes, pageVars
  <2>4. HostAgrees'
    BY <2>1, <2>2 DEF HostAgrees, Held, DirTypes, Documents
  <2>5. BellFollows'
    <3>1. host = "up" => body # None /\ bell = rev
      BY <2>1 DEF HostAgrees, BellFollows
    <3>2. beating => orphan \/ (doc # NoDoc /\ doc.rev >= bell)
      BY DEF BellFollows
    <3>3. doc.rev \in Nat /\ doc'.rev \in Nat /\ bell \in Nat
      BY <2>2 DEF DirTypes, Documents
    <3>4. beating' => orphan' \/ (doc' # NoDoc /\ doc'.rev >= bell')
      BY <2>1, <2>2, <3>2, <3>3
    <3>5. ~owes' => doc' = doc
      BY <2>1
    <3>6. host' = "up" /\ ~owes' => bell' = rev'
      BY <2>1, <2>2, <3>1, <3>5
    <3> QED
      BY <3>4, <3>6 DEF BellFollows
  <2>6. ReadersAgree' /\ PageAnswered'
    BY <2>1, <2>2, PublicationKeepsReaders
  <2> QED
    BY <2>3, <2>4, <2>5, <2>6
<1>5. CASE Heartbeat
  <2>0. /\ bell' = rev /\ beating' = TRUE /\ owes' = FALSE /\ orphan' = (orphan /\ doc = NoDoc)
        /\ host = "up" \/ owes
        /\ UNCHANGED <<host, fresh, input, body, rev, doc, pageVars, life, looked, changes, starts>>
    BY <1>5 DEF Heartbeat
  <2>1. DirTypes'
    BY <2>0 DEF DirTypes, pageVars
  <2>2. HostAgrees'
    BY <2>0 DEF HostAgrees, Held
  <2>3. BellFollows'
    <3>1. Held \/ (orphan /\ doc = NoDoc)
      BY <2>0 DEF HostAgrees
    <3> QED
      BY <2>0, <3>1 DEF BellFollows, Held, DirTypes, Documents
  <2>4. ReadersAgree' /\ PageAnswered'
    BY <2>0 DEF ReadersAgree, PageAnswered, Follows, pageVars
  <2> QED
    BY <2>1, <2>2, <2>3, <2>4
<1>6. CASE Close \/ Kill \/ BellAges
  <2>1. DirTypes'
    <3>1. CASE Close
      BY <3>1 DEF Close, DirTypes, pageVars, history
    <3>2. CASE Kill
      BY <3>2 DEF Kill, DirTypes, dirVars, pageVars, history
    <3>3. CASE BellAges
      BY <3>3 DEF BellAges, DirTypes, hostVars, pageVars, history
    <3> QED
      BY <1>6, <3>1, <3>2, <3>3
  <2>2. HostAgrees' /\ BellFollows'
    BY <1>6 DEF Close, Kill, BellAges, HostAgrees, Held, BellFollows, hostVars, dirVars, pageVars, history
  <2>3. ReadersAgree' /\ PageAnswered'
    BY <1>6 DEF Close, Kill, BellAges, ReadersAgree, PageAnswered, Follows,
                hostVars, dirVars, pageVars, history
  <2> QED
    BY <2>1, <2>2, <2>3
<1>7. CASE Look
  <2>1. DirTypes'
    BY <1>7 DEF Look, DirTypes, hostVars, dirVars
  <2>2. HostAgrees' /\ BellFollows'
    BY <1>7 DEF Look, HostAgrees, Held, BellFollows, hostVars, dirVars
  <2>3. ReadersAgree'
    BY <1>7 DEF Look, ReadersAgree, BellFollows, Follows, DirTypes, hostVars, dirVars
  <2>4. PageAnswered'
    BY <1>7 DEF Look, PageAnswered, ReadersAgree, BellFollows, Follows, DirTypes, Documents,
                hostVars, dirVars
  <2> QED
    BY <2>1, <2>2, <2>3, <2>4
<1>8. CASE LookInVain
  <2>1. DirTypes'
    BY <1>8 DEF LookInVain, DirTypes, hostVars, dirVars, history
  <2>2. HostAgrees' /\ BellFollows'
    BY <1>8 DEF LookInVain, HostAgrees, Held, BellFollows, hostVars, dirVars, history
  <2>3. ReadersAgree' /\ PageAnswered'
    BY <1>8 DEF LookInVain, ReadersAgree, PageAnswered, Follows, hostVars, dirVars, history
  <2> QED
    BY <2>1, <2>2, <2>3
<1>9. CASE OpenDoc
  <2>1. DirTypes'
    BY <1>9 DEF OpenDoc, DirTypes, hostVars, dirVars, history
  <2>2. HostAgrees' /\ BellFollows'
    BY <1>9 DEF OpenDoc, HostAgrees, Held, BellFollows, hostVars, dirVars, history
  <2>3. ReadersAgree' /\ PageAnswered'
    BY <1>9 DEF OpenDoc, ReadersAgree, PageAnswered, HostAgrees, Held, Follows, DirTypes, Documents,
                hostVars, dirVars, history
  <2> QED
    BY <2>1, <2>2, <2>3
<1>10. CASE ReadDoc
  <2>1. DirTypes'
    BY <1>10 DEF ReadDoc, DirTypes, hostVars, dirVars, history
  <2>2. HostAgrees' /\ BellFollows'
    BY <1>10 DEF ReadDoc, HostAgrees, Held, BellFollows, hostVars, dirVars, history
  <2>3. ReadersAgree'
    BY <1>10 DEF ReadDoc, ReadersAgree, Follows, hostVars, dirVars, history
  <2>4. PageAnswered'
    BY <1>10 DEF ReadDoc, PageAnswered, ReadersAgree, Follows, DirTypes, Documents,
                 hostVars, dirVars, history
  <2> QED
    BY <2>1, <2>2, <2>3, <2>4
<1>11. CASE UNCHANGED vars
  <2>1. UNCHANGED <<hostVars, dirVars, pageVars, history>>
    BY <1>11 DEF vars
  <2>2. DirTypes' /\ HostAgrees' /\ BellFollows' /\ ReadersAgree' /\ PageAnswered'
    BY <2>1 DEF DirTypes, HostAgrees, Held, BellFollows, ReadersAgree, PageAnswered, Follows,
                hostVars, dirVars, pageVars, history
  <2> QED
    BY <2>2
<1> QED
  BY <1>1, <1>2, <1>3, <1>4, <1>5, <1>6, <1>7, <1>8, <1>9, <1>10, <1>11 DEF Next

LEMMA DirAlways == Spec => []DirInv
  BY DirInit, DirStep, PTL DEF Spec

\* The doorbell never rings for a document that is not there, and once it has
\* rung it names what the host serves, unless the host has just wiped what it
\* published itself (publishServices, heartbeat, cleanServiceDir).
THEOREM DoorbellIsHonest == Spec => []BellIsHonest
<1>1. DirInv => BellIsHonest
  BY NoneAssumption DEF DirInv, HostAgrees, Held, BellFollows, BellIsHonest, DirTypes, NoDoc
<1> QED
  BY <1>1, DirAlways, PTL

\* A page that has answered the doorbell shows the document it rang for.
THEOREM PageShowsWhatRang == Spec => []PageIsCurrent
<1>1. DirInv => PageIsCurrent
  BY DEF DirInv, PageAnswered, PageIsCurrent, Reused, DirTypes, Documents
<1> QED
  BY <1>1, DirAlways, PTL
=============================================================================
