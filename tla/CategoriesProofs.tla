-------------------------- MODULE CategoriesProofs --------------------------
(* Theorems about Categories for all ids, titles, adverts and handlers.    *)
EXTENDS Categories, TLAPS

Saving == {"title", "parent", "save"}

(* A handler that will save, and whose read no other save has outdated.    *)
Sure(m) == m.op \in Saving /\ ~ m.stale

(* What such a handler has read still holds: its children are all those of *)
(* its category, the parent is the one it has read or one it has checked,  *)
(* and the title it has looked up is no other category's.                  *)
Sound(m, r) ==
  /\ m.id # None => \A k \in DOMAIN r : (r[k].parent = m.id) <=> (k \in m.kids)
  /\ m.id = None => m.kids = {}
  /\ m.id \in DOMAIN r => r[m.id].parent = m.parent \/ (m.kids = {} /\ m.parent # None)
  /\ m.asked # None => m.kids = {}
  /\ m.parent \notin {None, m.id} /\ m.parent \in DOMAIN r => r[m.parent].parent = None
  /\ m.op # "title" => \A d \in DOMAIN r : r[d].title = m.title => d = m.id

(* The category of an advert about to be placed has a parent.              *)
Placed(m, r) == m.op = "place" /\ m.id \in DOMAIN r => r[m.id].parent # None

(* An update that saves the category an advert is about to be placed in    *)
(* leaves it a parent, should it insert the category again.                *)
Apart(m, e) ==
  m.op = "place" /\ Sure(e) /\ m.id = e.id /\ m.id # None => e.parent # None

TitlesRead  == \A p \in Procs : mem[p].op \in Saving => mem[p].title \in Titles
SavesSound  == ~ torn => \A p \in Procs : Sure(mem[p]) => Sound(mem[p], row)
PlacesSound == ~ torn => \A p \in Procs : Placed(mem[p], row)
PlacesApart == ~ torn => \A p, q \in Procs : Apart(mem[p], mem[q])

HandlersSound == TitlesRead /\ SavesSound /\ PlacesSound /\ PlacesApart

CatInv ==
  TypeOK /\ RelationsHold /\ TwoLevels /\ TitlesDiffer /\ OldOnlyIfRaced /\ HandlersSound

-----------------------------------------------------------------------------
LEMMA IdleType == Idle \in Memory /\ Idle.op = "idle"
  BY DEF Idle, Memory

(* A step that only moves handler p, to m.                                 *)
LEMMA MovesOnly ==
  ASSUME CatInv, NEW p \in Procs, NEW m \in Memory,
         mem' = [mem EXCEPT ![p] = m],
         m.op \in Saving => m.title \in Titles,
         ~ torn => (Sure(m) => Sound(m, row)) /\ Placed(m, row),
         ~ torn => \A q \in Procs \ {p} : Apart(m, mem[q]) /\ Apart(mem[q], m),
         UNCHANGED <<row, torn>>
  PROVE  mem' \in [Procs -> Memory] /\ HandlersSound'
<1>1. \A q \in Procs : mem'[q] = IF q = p THEN m ELSE mem[q] BY DEF CatInv, TypeOK
<1>2. mem' \in [Procs -> Memory] BY DEF CatInv, TypeOK
<1>3. HandlersSound BY DEF CatInv
<1>4. TitlesRead' BY <1>1, <1>3 DEF HandlersSound, TitlesRead
<1>5. SavesSound' BY <1>1, <1>3 DEF HandlersSound, SavesSound
<1>6. PlacesSound' BY <1>1, <1>3 DEF HandlersSound, PlacesSound
<1>7. PlacesApart'
  <2>1. Apart(m, m) BY DEF Apart, Sure, Saving
  <2> QED BY <1>1, <1>3, <2>1 DEF HandlersSound, PlacesApart
<1> QED BY <1>2, <1>4, <1>5, <1>6, <1>7 DEF HandlersSound

(* A handler that is neither saving nor placing relies on nothing.         *)
LEMMA Harmless ==
  ASSUME CatInv, NEW p \in Procs, NEW m \in Memory,
         mem' = [mem EXCEPT ![p] = m], m.op \notin Saving \cup {"place"},
         UNCHANGED <<row, torn>>
  PROVE  mem' \in [Procs -> Memory] /\ HandlersSound'
BY MovesOnly DEF Sure, Placed, Apart

(* What the tables say stays said.                                         *)
LEMMA TablesKept ==
  ASSUME CatInv, UNCHANGED <<row, place, torn>>
  PROVE  RelationsHold' /\ TwoLevels' /\ TitlesDiffer'
BY DEF CatInv, RelationsHold, TwoLevels, TitlesDiffer, Rows

(* The copy after a step in which no handler at "clear" moves.             *)
LEMMA CopyKept ==
  ASSUME CatInv, NEW p \in Procs, NEW m, mem' = [mem EXCEPT ![p] = m],
         mem[p].op # "clear", UNCHANGED <<cache, missed>>
  PROVE  OldOnlyIfRaced'
<1>1. \A q \in Procs : q # p => mem'[q] = mem[q] BY DEF CatInv, TypeOK
<1> QED BY <1>1 DEF CatInv, OldOnlyIfRaced, At

(* A step of p to m that touches nothing but mem.                          *)
LEMMA ReadStep ==
  ASSUME CatInv, NEW p \in Procs, NEW m, mem' = [mem EXCEPT ![p] = m],
         mem[p].op # "clear", mem' \in [Procs -> Memory], HandlersSound',
         UNCHANGED <<row, place, cache, ttl, torn, missed>>
  PROVE  CatInv'
<1>1. TypeOK' BY DEF CatInv, TypeOK, Rows
<1>2. OldOnlyIfRaced' BY CopyKept
<1> QED BY <1>1, <1>2, TablesKept DEF CatInv

-----------------------------------------------------------------------------
LEMMA CreateStep ==
  ASSUME CatInv, NEW p \in Procs, NEW t \in Titles, NEW q \in Ids \cup {None},
         CreateStarts(p, t, q)
  PROVE  CatInv'
<1> DEFINE m == [Idle EXCEPT !.op = "title", !.title = t, !.asked = q]
<1>1. m \in Memory /\ m.title = t /\ m.id = None /\ m.op = "title" /\ m.kids = {}
      /\ m.parent = None
  BY DEF Idle, Memory
<1>2. Sound(m, row)
  <2>1. None \notin DOMAIN row BY CacheAssumption DEF CatInv, TypeOK, Rows
  <2> QED BY <1>1, <2>1 DEF Sound
<1>3. mem' = [mem EXCEPT ![p] = m] /\ mem[p].op # "clear"
      /\ UNCHANGED <<row, place, cache, ttl, torn, missed>>
  BY IdleType DEF CreateStarts
<1>4. Placed(m, row) /\ \A s \in Procs : Apart(m, mem[s]) /\ Apart(mem[s], m)
  BY <1>1 DEF Placed, Apart
<1> HIDE DEF m
<1>5. mem' \in [Procs -> Memory] /\ HandlersSound' BY <1>1, <1>2, <1>3, <1>4, MovesOnly
<1> QED BY <1>3, <1>5, ReadStep

LEMMA UpdateStep ==
  ASSUME CatInv, NEW p \in Procs, NEW c \in Ids, NEW t \in Titles,
         NEW q \in Ids \cup {None}, UpdateReads(p, c, t, q)
  PROVE  CatInv'
<1> DEFINE m == [Idle EXCEPT
       !.op = Next1(t # row[c].title, q), !.id = c, !.title = t,
       !.parent = row[c].parent, !.asked = q, !.kids = Kids(c)]
<1>1. mem' = [mem EXCEPT ![p] = m] /\ mem[p].op # "clear" /\ c \in Rows
      /\ (q # None => Kids(c) = {})
      /\ UNCHANGED <<row, place, cache, ttl, torn, missed>>
  BY IdleType DEF UpdateReads, UpdateLoads
<1>2. row[c] \in [title : Titles, parent : Ids \cup {None}] /\ Kids(c) \subseteq Ids
  BY <1>1 DEF CatInv, TypeOK, Kids
<1>3. m.op = Next1(t # row[c].title, q) /\ m.id = c /\ m.title = t
      /\ m.parent = row[c].parent /\ m.asked = q /\ m.kids = Kids(c)
  BY DEF Idle
<1>4. m.op \in Saving /\ (m.op # "title" => t = row[c].title)
  BY <1>3 DEF Next1, Saving
<1>5. m \in Memory BY <1>2, <1>4 DEF Idle, Memory, Saving
<1>6. c # None BY CacheAssumption
<1> HIDE DEF m
<1>7. ASSUME ~ torn PROVE Sound(m, row)
  <2>1. TwoLevels /\ TitlesDiffer BY DEF CatInv
  <2>2. \A k \in DOMAIN row : (row[k].parent = m.id) <=> (k \in m.kids)
    BY <1>3 DEF Kids, Rows
  <2>3. m.parent \notin {None, m.id} /\ m.parent \in DOMAIN row => row[m.parent].parent = None
    BY <1>1, <1>3, <1>7, <2>1 DEF TwoLevels
  <2>4. m.op # "title" => \A d \in DOMAIN row : row[d].title = m.title => d = m.id
    BY <1>1, <1>3, <1>4, <1>7, <2>1 DEF TitlesDiffer, Rows
  <2> QED BY <1>1, <1>3, <1>6, <2>2, <2>3, <2>4 DEF Sound
<1>8. m.op # "place" BY <1>4 DEF Saving
<1>9. ASSUME ~ torn, NEW s \in Procs PROVE Apart(mem[s], m)
  <2>1. Placed(mem[s], row) BY <1>9 DEF CatInv, HandlersSound, PlacesSound
  <2> QED BY <1>1, <1>3, <2>1 DEF Apart, Placed, Rows
<1>10. Placed(m, row) /\ \A s \in Procs : Apart(m, mem[s]) BY <1>8 DEF Placed, Apart
<1>11. mem' \in [Procs -> Memory] /\ HandlersSound'
  BY <1>1, <1>3, <1>5, <1>7, <1>9, <1>10, MovesOnly
<1> QED BY <1>1, <1>11, ReadStep

LEMMA LookUpStep ==
  ASSUME CatInv, NEW p \in Procs, LookUpTitle(p)
  PROVE  CatInv'
<1> DEFINE m == [mem[p] EXCEPT !.op = Next1(FALSE, mem[p].asked)]
<1>1. mem' = [mem EXCEPT ![p] = m] /\ mem[p].op = "title" /\ ~ TitleTaken(mem[p].title)
      /\ UNCHANGED <<row, place, cache, ttl, torn, missed>>
  BY DEF LookUpTitle, At
<1>2. mem[p] \in Memory BY DEF CatInv, TypeOK
<1>3. m.op \in Saving \ {"title"} /\ m.op # "place" /\ m.id = mem[p].id
      /\ m.title = mem[p].title /\ m.parent = mem[p].parent /\ m.asked = mem[p].asked
      /\ m.kids = mem[p].kids /\ m.stale = mem[p].stale
  BY <1>2 DEF Memory, Next1, Saving
<1>4. m \in Memory BY <1>2 DEF Memory, Next1
<1>5. m.title \in Titles BY <1>1, <1>3 DEF CatInv, HandlersSound, TitlesRead, Saving
<1> HIDE DEF m
<1>6. Sure(m) => Sure(mem[p]) BY <1>1, <1>3 DEF Sure, Saving
<1>7. ASSUME ~ torn, Sure(m) PROVE Sound(m, row)
  <2>1. Sound(mem[p], row) BY <1>6, <1>7 DEF CatInv, HandlersSound, SavesSound
  <2>2. \A d \in DOMAIN row : row[d].title # m.title BY <1>1, <1>3 DEF TitleTaken, Rows
  <2> QED BY <1>3, <2>1, <2>2 DEF Sound
<1>8. ASSUME ~ torn, NEW s \in Procs PROVE Apart(mem[s], m)
  <2>1. Apart(mem[s], mem[p]) BY <1>8 DEF CatInv, HandlersSound, PlacesApart
  <2> QED BY <1>3, <1>6, <2>1 DEF Apart
<1>9. Placed(m, row) /\ \A s \in Procs : Apart(m, mem[s]) BY <1>3 DEF Placed, Apart
<1>10. mem' \in [Procs -> Memory] /\ HandlersSound'
  BY <1>1, <1>4, <1>5, <1>7, <1>8, <1>9, MovesOnly
<1> QED BY <1>1, <1>10, ReadStep

LEMMA CheckParentStep ==
  ASSUME CatInv, NEW p \in Procs, CanCategoryBeParent(p)
  PROVE  CatInv'
<1> DEFINE m == [mem[p] EXCEPT !.op = "save", !.parent = mem[p].asked, !.asked = None]
<1>1. mem[p].op = "parent" /\ mem[p].asked \in Rows /\ row[mem[p].asked].parent = None
      /\ UNCHANGED <<row, place, cache, ttl, torn, missed>>
      /\ mem' = [mem EXCEPT ![p].op = "save", ![p].parent = mem[p].asked, ![p].asked = None]
  BY DEF CanCategoryBeParent, At
<1>2. mem[p] \in Memory /\ mem \in [Procs -> Memory] BY DEF CatInv, TypeOK
<1>3. mem' = [mem EXCEPT ![p] = m] BY <1>1, <1>2
<1>4. m.op = "save" /\ m.id = mem[p].id
      /\ m.title = mem[p].title /\ m.parent = mem[p].asked /\ m.asked = None
      /\ m.kids = mem[p].kids /\ m.stale = mem[p].stale
  BY <1>2 DEF Memory
<1>5. m \in Memory BY <1>2 DEF Memory
<1>6. m.title \in Titles BY <1>1, <1>4 DEF CatInv, HandlersSound, TitlesRead, Saving
<1>7. m.parent \in Rows /\ m.parent # None
  BY <1>1, <1>4, CacheAssumption DEF CatInv, TypeOK
<1> HIDE DEF m
<1>8. Sure(m) => Sure(mem[p]) BY <1>1, <1>4 DEF Sure, Saving
<1>9. ASSUME ~ torn, Sure(m) PROVE Sound(m, row)
  <2>1. Sound(mem[p], row) BY <1>8, <1>9 DEF CatInv, HandlersSound, SavesSound
  <2>2. mem[p].kids = {} BY <1>4, <1>7, <2>1 DEF Sound
  <2> QED BY <1>1, <1>4, <1>7, <2>1, <2>2 DEF Sound
<1>10. Placed(m, row) /\ \A s \in Procs : Apart(m, mem[s]) /\ Apart(mem[s], m)
  BY <1>4, <1>7 DEF Placed, Apart
<1>11. mem' \in [Procs -> Memory] /\ HandlersSound'
  BY <1>1, <1>3, <1>5, <1>6, <1>9, <1>10, MovesOnly
<1> QED BY <1>1, <1>3, <1>11, ReadStep

(* The reads of the removal and of findAll.                                *)
LEMMA OtherReadsStep ==
  ASSUME CatInv, NEW p \in Procs,
         (\E c \in Ids : RemoveReads(p, c)) \/ RemoveCounts(p) \/ FindMisses(p) \/ FindReads(p)
  PROVE  CatInv'
<1>1. mem[p] \in Memory /\ mem \in [Procs -> Memory] BY DEF CatInv, TypeOK
<1>2. PICK m \in Memory : mem' = [mem EXCEPT ![p] = m] /\ m.op \notin Saving \cup {"place"}
  <2>1. ASSUME NEW c \in Ids, RemoveReads(p, c)
        PROVE  \E m \in Memory : mem' = [mem EXCEPT ![p] = m] /\ m.op \notin Saving \cup {"place"}
    <3> DEFINE m == [Idle EXCEPT !.op = "count", !.id = c, !.parent = row[c].parent]
    <3>1. row[c].parent \in Ids \cup {None} BY <2>1 DEF RemoveReads, CatInv, TypeOK
    <3>2. m \in Memory /\ m.op = "count" BY <3>1 DEF Idle, Memory
    <3>3. mem' = [mem EXCEPT ![p] = m] BY <2>1 DEF RemoveReads
    <3> QED BY <3>2, <3>3 DEF Saving
  <2>2. CASE RemoveCounts(p)
    <3> DEFINE m == [mem[p] EXCEPT !.op = "delete"]
    <3>1. m \in Memory /\ m.op = "delete" BY <1>1 DEF Memory
    <3>2. mem' = [mem EXCEPT ![p] = m] BY <2>2 DEF RemoveCounts
    <3> QED BY <3>1, <3>2 DEF Saving
  <2>3. CASE FindMisses(p)
    <3> DEFINE m == [Idle EXCEPT !.op = "find"]
    <3>1. m \in Memory /\ m.op = "find" BY DEF Idle, Memory
    <3>2. mem' = [mem EXCEPT ![p] = m] BY <2>3 DEF FindMisses
    <3> QED BY <3>1, <3>2 DEF Saving
  <2>4. CASE FindReads(p)
    <3> DEFINE m == [Idle EXCEPT !.op = "store"]
    <3>1. m \in Memory /\ m.op = "store" BY DEF Idle, Memory
    <3>2. mem' = [mem EXCEPT ![p] = m] BY <2>4 DEF FindReads
    <3> QED BY <3>1, <3>2 DEF Saving
  <2> QED BY <2>1, <2>2, <2>3, <2>4
<1>3. mem[p].op # "clear" /\ UNCHANGED <<row, place, cache, ttl, torn, missed>>
  BY IdleType DEF RemoveReads, RemoveCounts, FindMisses, FindReads, At
<1>4. mem' \in [Procs -> Memory] /\ HandlersSound' BY <1>2, <1>3, Harmless
<1> QED BY <1>2, <1>3, <1>4, ReadStep

LEMMA PlaceReadsStep ==
  ASSUME CatInv, NEW p \in Procs, NEW a \in Adverts, NEW c \in Ids, PlaceReads(p, a, c)
  PROVE  CatInv'
<1> DEFINE m == [Idle EXCEPT !.op = "place", !.id = c, !.advert = a]
<1>1. mem' = [mem EXCEPT ![p] = m] /\ mem[p].op # "clear" /\ c \in Rows
      /\ (row[c].parent # None \/ place[a] = c)
      /\ UNCHANGED <<row, place, cache, ttl, torn, missed>>
  BY IdleType DEF PlaceReads
<1>2. m \in Memory /\ m.op = "place" /\ m.id = c BY DEF Idle, Memory
<1>3. c # None BY CacheAssumption
<1> HIDE DEF m
<1>4. ASSUME ~ torn PROVE row[c].parent # None
  BY <1>1, <1>3, <1>4 DEF CatInv, TwoLevels
<1>5. m.op \notin Saving BY <1>2 DEF Saving
<1>6. ~ torn => Placed(m, row) BY <1>2, <1>4 DEF Placed
<1>7. ASSUME ~ torn, NEW s \in Procs PROVE Apart(m, mem[s]) /\ Apart(mem[s], m)
  <2>1. Sure(mem[s]) => Sound(mem[s], row) BY <1>7 DEF CatInv, HandlersSound, SavesSound
  <2>2. Apart(m, mem[s]) BY <1>1, <1>2, <1>4, <1>7, <2>1 DEF Apart, Sound, Rows
  <2>3. Apart(mem[s], m) BY <1>5 DEF Apart, Sure
  <2> QED BY <2>2, <2>3
<1>8. ~ Sure(m) BY <1>5 DEF Sure
<1>9. mem' \in [Procs -> Memory] /\ HandlersSound'
  BY <1>1, <1>2, <1>5, <1>6, <1>7, <1>8, MovesOnly
<1> QED BY <1>1, <1>9, ReadStep

-----------------------------------------------------------------------------
(* Handlers that end without a write of categories.                        *)

LEMMA ClearStep ==
  ASSUME CatInv, NEW p \in Procs, Clear(p)
  PROVE  CatInv'
<1>1. mem' = [mem EXCEPT ![p] = Idle] /\ cache' = "none" /\ ttl' = 0 /\ missed' = FALSE
      /\ UNCHANGED <<row, place, torn>>
  BY DEF Clear, Ends
<1>2. mem' \in [Procs -> Memory] /\ HandlersSound'
  BY <1>1, IdleType, Harmless DEF Saving
<1>3. 0 \in 0 .. CacheLife BY CacheAssumption
<1>4. TypeOK' BY <1>1, <1>2, <1>3 DEF CatInv, TypeOK, Rows
<1>5. OldOnlyIfRaced' BY <1>1 DEF OldOnlyIfRaced
<1> QED BY <1>1, <1>2, <1>4, <1>5, TablesKept DEF CatInv

LEMMA StoreStep ==
  ASSUME CatInv, NEW p \in Procs, FindStores(p)
  PROVE  CatInv'
<1>1. mem' = [mem EXCEPT ![p] = Idle] /\ cache' = mem[p].tree /\ ttl' = CacheLife
      /\ missed' = (mem[p].tree = "old") /\ UNCHANGED <<row, place, torn>>
  BY DEF FindStores, StoresFor, Ends
<1>2. mem' \in [Procs -> Memory] /\ HandlersSound'
  BY <1>1, IdleType, Harmless DEF Saving
<1>3. mem[p].tree \in {"fresh", "old"} BY DEF CatInv, TypeOK, Memory
<1>4. CacheLife \in 0 .. CacheLife /\ CacheLife # 0 BY CacheAssumption
<1>5. TypeOK' BY <1>1, <1>2, <1>3, <1>4 DEF CatInv, TypeOK, Rows
<1>6. OldOnlyIfRaced' BY <1>1 DEF OldOnlyIfRaced
<1> QED BY <1>1, <1>2, <1>5, <1>6, TablesKept DEF CatInv

LEMMA AbortStep ==
  ASSUME CatInv, NEW p \in Procs, Abort(p)
  PROVE  CatInv'
<1>1. mem' = [mem EXCEPT ![p] = Idle] /\ missed' = (missed \/ (At(p, "clear") /\ cache = "old"))
      /\ UNCHANGED <<row, place, cache, ttl, torn>>
  BY DEF Abort, Ends
<1>2. mem' \in [Procs -> Memory] /\ HandlersSound'
  BY <1>1, IdleType, Harmless DEF Saving
<1>3. TypeOK' BY <1>1, <1>2 DEF CatInv, TypeOK, Rows
<1>4. \A q \in Procs : q # p => mem'[q] = mem[q] BY <1>1 DEF CatInv, TypeOK
<1>5. OldOnlyIfRaced' BY <1>1, <1>4 DEF CatInv, OldOnlyIfRaced, At
<1> QED BY <1>1, <1>2, <1>3, <1>5, TablesKept DEF CatInv

LEMMA PlaceSavesStep ==
  ASSUME CatInv, NEW p \in Procs, PlaceSaves(p)
  PROVE  CatInv'
<1> DEFINE c == mem[p].id
<1>1. mem' = [mem EXCEPT ![p] = Idle] /\ mem[p].op = "place" /\ c \in Rows
      /\ place' = [place EXCEPT ![mem[p].advert] = c]
      /\ UNCHANGED <<row, cache, ttl, torn, missed>>
  BY DEF PlaceSaves, Ends, At
<1>2. mem' \in [Procs -> Memory] /\ HandlersSound'
  BY <1>1, IdleType, Harmless DEF Saving
<1>3. place \in [Adverts -> Ids \cup {None}] /\ Rows \subseteq Ids BY DEF CatInv, TypeOK
<1>4. place' \in [Adverts -> Ids \cup {None}] /\ \A a \in Adverts : place'[a] \in {place[a], c}
  BY <1>1, <1>3
<1>5. TypeOK' BY <1>1, <1>2, <1>4 DEF CatInv, TypeOK, Rows
<1>6. RelationsHold' BY <1>1, <1>4 DEF CatInv, RelationsHold, Rows
<1>7. TwoLevels'
  <2> SUFFICES ASSUME ~ torn PROVE TwoLevels' BY <1>1 DEF TwoLevels
  <2>1. row[c].parent # None BY <1>1 DEF CatInv, HandlersSound, PlacesSound, Placed, Rows
  <2> QED BY <1>1, <1>4, <2>1 DEF CatInv, TwoLevels, Rows
<1>8. TitlesDiffer' BY <1>1 DEF CatInv, TitlesDiffer, Rows
<1>9. OldOnlyIfRaced' BY <1>1, CopyKept
<1> QED BY <1>2, <1>5, <1>6, <1>7, <1>8, <1>9 DEF CatInv

LEMMA AdvertGoesStep ==
  ASSUME CatInv, NEW a \in Adverts, AdvertGoes(a)
  PROVE  CatInv'
<1>1. place' = [place EXCEPT ![a] = None] /\ UNCHANGED <<row, cache, ttl, mem, torn, missed>>
  BY DEF AdvertGoes
<1>2. place' \in [Adverts -> Ids \cup {None}] /\ \A b \in Adverts : place'[b] \in {place[b], None}
  BY <1>1 DEF CatInv, TypeOK
<1>3. TypeOK' BY <1>1, <1>2 DEF CatInv, TypeOK, Rows
<1>4. RelationsHold' /\ TwoLevels' /\ TitlesDiffer'
  BY <1>1, <1>2 DEF CatInv, RelationsHold, TwoLevels, TitlesDiffer, Rows
<1>5. OldOnlyIfRaced' /\ HandlersSound'
  BY <1>1 DEF CatInv, OldOnlyIfRaced, At, HandlersSound, TitlesRead, SavesSound, PlacesSound,
              PlacesApart
<1> QED BY <1>3, <1>4, <1>5 DEF CatInv

LEMMA TickStep ==
  ASSUME CatInv, Tick
  PROVE  CatInv'
<1>1. UNCHANGED <<row, place, mem, torn>> BY DEF Tick
<1>2. ttl \in 0 .. CacheLife /\ cache \in {"none", "fresh", "old"} /\ missed \in BOOLEAN
      /\ (ttl = 0 <=> cache = "none")
  BY DEF CatInv, TypeOK
<1>3. ttl' \in 0 .. CacheLife /\ (ttl' = 0 <=> ttl = 1)
  BY <1>2, CacheAssumption DEF Tick
<1>4. cache' \in {"none", "fresh", "old"} /\ (ttl' = 0 <=> cache' = "none")
      /\ missed' \in BOOLEAN
  <2>1. ttl # 0 BY DEF Tick
  <2>2. CASE ttl = 1 BY <1>3, <2>2 DEF Tick
  <2>3. CASE ttl # 1
    <3>1. cache' = cache /\ missed' = missed BY <2>3 DEF Tick
    <3> QED BY <1>2, <1>3, <2>1, <2>3, <3>1, Zenon
  <2> QED BY <2>2, <2>3
<1>5. TypeOK' BY <1>1, <1>3, <1>4 DEF CatInv, TypeOK, Rows
<1>6. OldOnlyIfRaced' BY <1>1 DEF Tick, CatInv, OldOnlyIfRaced, At
<1>7. HandlersSound'
  BY <1>1 DEF CatInv, HandlersSound, TitlesRead, SavesSound, PlacesSound, PlacesApart
<1> QED BY <1>1, <1>5, <1>6, <1>7, TablesKept DEF CatInv

-----------------------------------------------------------------------------
(* The writes of categories.                                               *)

(* What a write leaves of the handlers: the others keep what they have     *)
(* read, and know a save has outdated it.                                  *)
LEMMA WritesMem ==
  ASSUME TypeOK, NEW p \in Procs, NEW next \in {"idle", "clear"}, NEW saving \in BOOLEAN,
         Writes(p, next, saving)
  PROVE  /\ mem' \in [Procs -> Memory]
         /\ mem'[p].op = next
         /\ \A q \in Procs \ {p} :
              /\ mem'[q].op = mem[q].op /\ mem'[q].id = mem[q].id
              /\ mem'[q].title = mem[q].title /\ mem'[q].parent = mem[q].parent
              /\ mem'[q].asked = mem[q].asked /\ mem'[q].kids = mem[q].kids
              /\ mem'[q].stale = (mem[q].stale \/ (saving /\ mem[q].op \in Saving))
<1>1. [Idle EXCEPT !.op = next] \in Memory /\ [Idle EXCEPT !.op = next].op = next
  BY DEF Idle, Memory
<1>2. mem' = [q \in Procs |->
       IF q = p THEN [Idle EXCEPT !.op = next]
       ELSE [mem[q] EXCEPT
              !.tree = IF At(q, "store") THEN "old" ELSE @,
              !.stale = @ \/ (saving /\ mem[q].op \in {"title", "parent", "save"})]]
  BY DEF Writes
<1>3. mem'[p].op = next BY <1>1, <1>2
<1>4. ASSUME NEW q \in Procs \ {p}
      PROVE  /\ mem'[q] \in Memory
             /\ mem'[q].op = mem[q].op /\ mem'[q].id = mem[q].id
             /\ mem'[q].title = mem[q].title /\ mem'[q].parent = mem[q].parent
             /\ mem'[q].asked = mem[q].asked /\ mem'[q].kids = mem[q].kids
             /\ mem'[q].stale = (mem[q].stale \/ (saving /\ mem[q].op \in Saving))
  <2>1. mem[q] \in Memory BY DEF TypeOK
  <2> DEFINE tr == IF At(q, "store") THEN "old" ELSE mem[q].tree
  <2> DEFINE st == mem[q].stale \/ (saving /\ mem[q].op \in Saving)
  <2>2. mem'[q] = [mem[q] EXCEPT !.tree = tr, !.stale = st] BY <1>2 DEF Saving
  <2>3. tr \in {"fresh", "old"} BY <2>1 DEF Memory
  <2>4. st \in BOOLEAN OBVIOUS
  <2> HIDE DEF tr, st
  <2>5. mem'[q] \in Memory /\ mem'[q].op = mem[q].op /\ mem'[q].id = mem[q].id
        /\ mem'[q].title = mem[q].title /\ mem'[q].parent = mem[q].parent
        /\ mem'[q].asked = mem[q].asked /\ mem'[q].kids = mem[q].kids
        /\ mem'[q].stale = st
    BY <2>1, <2>2, <2>3, <2>4 DEF Memory
  <2> QED BY <2>5 DEF st
<1>5. mem' \in [Procs -> Memory] BY <1>1, <1>2, <1>3, <1>4
<1> QED BY <1>3, <1>4, <1>5

(* A write makes the copy old, and its handler goes on to clear it.        *)
LEMMA WritesCopy ==
  ASSUME TypeOK, NEW p \in Procs, NEW saving \in BOOLEAN, Writes(p, "clear", saving),
         UNCHANGED ttl
  PROVE  /\ cache' \in {"none", "fresh", "old"} /\ (ttl' = 0 <=> cache' = "none")
         /\ OldOnlyIfRaced'
<1>1. mem'[p].op = "clear" BY WritesMem
<1>2. cache' = IF cache = "fresh" THEN "old" ELSE cache BY DEF Writes
<1>3. OldOnlyIfRaced' BY <1>1 DEF OldOnlyIfRaced, At
<1>4. cache \in {"none", "fresh", "old"} /\ (ttl = 0 <=> cache = "none") BY DEF TypeOK
<1>5. cache' \in {"none", "fresh", "old"} /\ (cache' = "none" <=> cache = "none")
  BY <1>2, <1>4
<1> QED BY <1>3, <1>4, <1>5

(* Whose parent a DELETE takes, that one it takes too.                     *)
LEMMA DoomedClosed ==
  ASSUME NEW c, NEW k \in Rows, row[k].parent \in Doomed(c)
  PROVE  k \in Doomed(c)
BY DEF Doomed

LEMMA RemoveStep ==
  ASSUME CatInv, NEW p \in Procs, RemoveDeletes(p)
  PROVE  CatInv'
<1> DEFINE gone == Doomed(mem[p].id)
<1>1. /\ Writes(p, "clear", FALSE) /\ UNCHANGED <<place, ttl, torn, missed>>
      /\ \A a \in Adverts : place[a] \notin gone
      /\ row' = [x \in Rows \ gone |-> row[x]]
  BY DEF RemoveDeletes, RemovesThen, Cascade, DeleteRows
<1>2. \A k \in Rows : row[k].parent \in gone => k \in gone BY DoomedClosed
<1> HIDE DEF gone
<1>3. Rows' = Rows \ gone /\ \A x \in Rows' : x \in Rows /\ row'[x] = row[x]
  BY <1>1 DEF Rows
<1>4. /\ mem' \in [Procs -> Memory] /\ mem'[p].op = "clear"
      /\ \A q \in Procs \ {p} :
              /\ mem'[q].op = mem[q].op /\ mem'[q].id = mem[q].id
              /\ mem'[q].title = mem[q].title /\ mem'[q].parent = mem[q].parent
              /\ mem'[q].asked = mem[q].asked /\ mem'[q].kids = mem[q].kids
              /\ mem'[q].stale = mem[q].stale
  <2>1. TypeOK /\ FALSE \in BOOLEAN /\ "clear" \in {"idle", "clear"} BY DEF CatInv
  <2>2. \A q \in Procs : mem[q].stale \in BOOLEAN BY <2>1 DEF TypeOK, Memory
  <2>3. /\ mem' \in [Procs -> Memory] /\ mem'[p].op = "clear"
        /\ \A q \in Procs \ {p} :
              /\ mem'[q].op = mem[q].op /\ mem'[q].id = mem[q].id
              /\ mem'[q].title = mem[q].title /\ mem'[q].parent = mem[q].parent
              /\ mem'[q].asked = mem[q].asked /\ mem'[q].kids = mem[q].kids
              /\ mem'[q].stale = (mem[q].stale \/ (FALSE /\ mem[q].op \in Saving))
    <3> DEFINE next == "clear"
    <3> DEFINE saving == FALSE
    <3>1. next \in {"idle", "clear"} /\ saving \in BOOLEAN /\ Writes(p, next, saving)
      BY <1>1
    <3> HIDE DEF next, saving
    <3>2. /\ mem' \in [Procs -> Memory] /\ mem'[p].op = next
          /\ \A q \in Procs \ {p} :
              /\ mem'[q].op = mem[q].op /\ mem'[q].id = mem[q].id
              /\ mem'[q].title = mem[q].title /\ mem'[q].parent = mem[q].parent
              /\ mem'[q].asked = mem[q].asked /\ mem'[q].kids = mem[q].kids
              /\ mem'[q].stale = (mem[q].stale \/ (saving /\ mem[q].op \in Saving))
      BY <2>1, <3>1, WritesMem
    <3> QED BY <3>2 DEF next, saving
  <2> QED BY <2>2, <2>3
<1>5. cache' \in {"none", "fresh", "old"} /\ (ttl' = 0 <=> cache' = "none") /\ OldOnlyIfRaced'
  BY <1>1, WritesCopy DEF CatInv
<1>6. TypeOK' BY <1>1, <1>3, <1>4, <1>5 DEF CatInv, TypeOK
<1>7. RelationsHold' BY <1>1, <1>2, <1>3 DEF CatInv, RelationsHold
<1>8. TwoLevels' BY <1>1, <1>3, <1>7 DEF CatInv, TwoLevels, RelationsHold
<1>9. TitlesDiffer' BY <1>1, <1>3 DEF CatInv, TitlesDiffer
<1>10. HandlersSound'
  <2>1. TitlesRead' BY <1>4 DEF CatInv, HandlersSound, TitlesRead, Saving
  <2>2. ASSUME ~ torn, NEW q \in Procs, Sure(mem'[q]) PROVE Sound(mem'[q], row')
    <3>1. q # p BY <1>4, <2>2 DEF Sure, Saving
    <3>2. Sure(mem[q]) BY <1>4, <2>2, <3>1 DEF Sure
    <3>3. Sound(mem[q], row) BY <2>2, <3>2 DEF CatInv, HandlersSound, SavesSound
    <3> QED BY <1>3, <1>4, <3>1, <3>3 DEF Sound, Rows
  <2>3. ASSUME ~ torn, NEW q \in Procs PROVE Placed(mem'[q], row')
    <3>1. Placed(mem[q], row) BY <2>3 DEF CatInv, HandlersSound, PlacesSound
    <3> QED BY <1>3, <1>4, <3>1 DEF Placed, Rows
  <2>4. ASSUME ~ torn, NEW q \in Procs, NEW s \in Procs PROVE Apart(mem'[q], mem'[s])
    <3>1. Apart(mem[q], mem[s]) BY <2>4 DEF CatInv, HandlersSound, PlacesApart
    <3> QED BY <1>4, <3>1 DEF Apart, Sure, Saving
  <2> QED BY <1>1, <2>1, <2>2, <2>3, <2>4 DEF HandlersSound, SavesSound, PlacesSound, PlacesApart
<1> QED BY <1>5, <1>6, <1>7, <1>8, <1>9, <1>10 DEF CatInv

(* A save of handler p as category c, based on what still holds, changes   *)
(* no row but c, and leaves c a child only if its children are none.       *)
LEMMA SaveChanges ==
  ASSUME CatInv, NEW p \in Procs, NEW c \in Ids, At(p, "save"),
         mem[p].id = c \/ (mem[p].id = None /\ c \notin Rows),
         SaveCategory(c, mem[p])
  PROVE  /\ Rows' = Rows \cup {c}
         /\ row'[c] = [title |-> mem[p].title, parent |-> mem[p].parent]
         /\ row'[c].title = mem[p].title /\ row'[c].parent = mem[p].parent
         /\ mem[p].title \in Titles
         /\ mem[p].parent \in Rows' \cup {None}
         /\ \A x \in Rows \ {c} :
              /\ row'[x] \in [title : Titles, parent : Ids \cup {None}]
              /\ row'[x].title = row[x].title
              /\ row'[x].parent \in {row[x].parent, c, None}
              /\ Sound(mem[p], row) => row'[x].parent = row[x].parent
<1> DEFINE e == mem[p]
<1>1. /\ e.parent \in Rows \cup {c, None}
      /\ row' = [x \in Rows \cup {c} |->
           IF x = c THEN [title |-> e.title, parent |-> e.parent]
           ELSE IF x \in e.kids THEN [row[x] EXCEPT !.parent = c]
           ELSE IF row[x].parent = c THEN [row[x] EXCEPT !.parent = None]
           ELSE row[x]]
  BY DEF SaveCategory
<1>2. Rows' = Rows \cup {c} BY <1>1 DEF Rows
<1>3. row'[c] = [title |-> e.title, parent |-> e.parent] BY <1>1
<1>4. e.title \in Titles BY DEF CatInv, HandlersSound, TitlesRead, At, Saving
<1>5. ASSUME NEW x \in Rows \ {c}
      PROVE  /\ row'[x] \in [title : Titles, parent : Ids \cup {None}]
             /\ row'[x].title = row[x].title
             /\ row'[x].parent = IF x \in e.kids THEN c
                                 ELSE IF row[x].parent = c THEN None ELSE row[x].parent
  <2>1. row[x] \in [title : Titles, parent : Ids \cup {None}] BY DEF CatInv, TypeOK
  <2>2. row'[x] = IF x \in e.kids THEN [row[x] EXCEPT !.parent = c]
                  ELSE IF row[x].parent = c THEN [row[x] EXCEPT !.parent = None]
                  ELSE row[x]
    BY <1>1
  <2> HIDE DEF e
  <2>3. CASE x \in e.kids BY <2>1, <2>2, <2>3
  <2>4. CASE x \notin e.kids /\ row[x].parent = c BY <2>1, <2>2, <2>4
  <2>5. CASE x \notin e.kids /\ row[x].parent # c BY <2>1, <2>2, <2>5
  <2> QED BY <2>3, <2>4, <2>5
<1>6. ASSUME NEW x \in Rows \ {c}, Sound(e, row) PROVE (row[x].parent = c) <=> (x \in e.kids)
  <2>1. CASE e.id = c BY <1>6, <2>1, CacheAssumption DEF Sound, Rows
  <2>2. CASE e.id = None /\ c \notin Rows
    <3>1. row[x].parent # c BY <2>2, CacheAssumption DEF CatInv, RelationsHold
    <3> QED BY <1>6, <2>2, <3>1 DEF Sound
  <2> QED BY <2>1, <2>2
<1>7. row'[c].title = e.title /\ row'[c].parent = e.parent BY <1>3
<1>8. ASSUME NEW x \in Rows \ {c}
      PROVE  /\ row'[x].parent \in {row[x].parent, c, None}
             /\ Sound(e, row) => row'[x].parent = row[x].parent
  BY <1>5, <1>6
<1> QED BY <1>1, <1>2, <1>3, <1>4, <1>5, <1>7, <1>8

LEMMA SaveStep ==
  ASSUME CatInv, NEW p \in Procs, Save(p)
  PROVE  CatInv'
<1> DEFINE e == mem[p]
<1>0. UNCHANGED <<place, ttl, missed>> /\ torn' = (torn \/ e.stale)
      /\ Writes(p, "clear", TRUE) /\ At(p, "save")
  BY DEF Save
<1>1. PICK c \in Ids : /\ e.id = c \/ (e.id = None /\ c \notin Rows /\ Unknown(c))
                       /\ SaveCategory(c, e)
  <2>1. e.id \in Ids \cup {None} BY DEF CatInv, TypeOK, Memory
  <2> QED BY <2>1 DEF Save
<1>2. /\ Rows' = Rows \cup {c}
      /\ row'[c] = [title |-> e.title, parent |-> e.parent]
      /\ row'[c].title = e.title /\ row'[c].parent = e.parent
      /\ e.title \in Titles
      /\ e.parent \in Rows' \cup {None}
      /\ \A x \in Rows \ {c} :
              /\ row'[x] \in [title : Titles, parent : Ids \cup {None}]
              /\ row'[x].title = row[x].title
              /\ row'[x].parent \in {row[x].parent, c, None}
              /\ Sound(e, row) => row'[x].parent = row[x].parent
  BY <1>0, <1>1, SaveChanges
<1>3. /\ mem' \in [Procs -> Memory] /\ mem'[p].op = "clear"
      /\ \A q \in Procs \ {p} :
              /\ mem'[q].op = mem[q].op /\ mem'[q].id = mem[q].id
              /\ mem'[q].title = mem[q].title /\ mem'[q].parent = mem[q].parent
              /\ mem'[q].asked = mem[q].asked /\ mem'[q].kids = mem[q].kids
              /\ mem'[q].stale = (mem[q].stale \/ (TRUE /\ mem[q].op \in Saving))
  <2> DEFINE next == "clear"
  <2> DEFINE saving == TRUE
  <2>1. next \in {"idle", "clear"} /\ saving \in BOOLEAN /\ Writes(p, next, saving) BY <1>0
  <2>2. TypeOK BY DEF CatInv
  <2> HIDE DEF next, saving
  <2>3. /\ mem' \in [Procs -> Memory] /\ mem'[p].op = next
        /\ \A q \in Procs \ {p} :
              /\ mem'[q].op = mem[q].op /\ mem'[q].id = mem[q].id
              /\ mem'[q].title = mem[q].title /\ mem'[q].parent = mem[q].parent
              /\ mem'[q].asked = mem[q].asked /\ mem'[q].kids = mem[q].kids
              /\ mem'[q].stale = (mem[q].stale \/ (saving /\ mem[q].op \in Saving))
    BY <2>1, <2>2, WritesMem
  <2> QED BY <2>3 DEF next, saving
<1>4. cache' \in {"none", "fresh", "old"} /\ (ttl' = 0 <=> cache' = "none") /\ OldOnlyIfRaced'
  <2> DEFINE saving == TRUE
  <2>1. saving \in BOOLEAN /\ Writes(p, "clear", saving) BY <1>0
  <2> HIDE DEF saving
  <2> QED BY <1>0, <2>1, WritesCopy DEF CatInv
<1>5. e.parent \in Ids \cup {None} /\ e.stale \in BOOLEAN BY DEF CatInv, TypeOK, Memory
<1>6. TypeOK'
  <2>1. row'[c] \in [title : Titles, parent : Ids \cup {None}] BY <1>2, <1>5
  <2>2. Rows' \subseteq Ids BY <1>2 DEF CatInv, TypeOK
  <2>3. \A x \in Rows' : row'[x] \in [title : Titles, parent : Ids \cup {None}]
    BY <1>2, <2>1
  <2>4. torn' \in BOOLEAN BY <1>0, <1>5 DEF CatInv, TypeOK
  <2> QED BY <1>0, <1>3, <1>4, <2>2, <2>3, <2>4 DEF CatInv, TypeOK
<1>7. RelationsHold' BY <1>0, <1>2 DEF CatInv, RelationsHold
<1>8. TitlesRead' BY <1>3 DEF CatInv, HandlersSound, TitlesRead, Saving
<1>9. ASSUME NEW q \in Procs PROVE ~ Sure(mem'[q])
  <2>1. CASE q = p BY <1>3, <2>1 DEF Sure, Saving
  <2>2. CASE q # p BY <1>3, <2>2 DEF Sure
  <2> QED BY <2>1, <2>2
<1>10. SavesSound' /\ PlacesApart' BY <1>9 DEF SavesSound, PlacesApart, Apart
<1>11. ASSUME ~ torn' PROVE TwoLevels' /\ TitlesDiffer' /\ PlacesSound'
  <2>1. ~ torn /\ ~ e.stale BY <1>0, <1>11
  <2>2. Sure(e) BY <1>0, <2>1 DEF Sure, Saving, At
  <2>3. Sound(e, row) BY <2>1, <2>2 DEF CatInv, HandlersSound, SavesSound
  <2>4. \A x \in Rows \ {c} : row'[x].title = row[x].title /\ row'[x].parent = row[x].parent
    BY <1>2, <2>3
  <2>5. /\ \A x \in Rows : row[x].parent \in Rows \cup {None}
        /\ \A x \in Rows : row[x].parent \notin {None, x} => row[row[x].parent].parent = None
        /\ \A a \in Adverts : place[a] \in Rows \cup {None}
        /\ \A a \in Adverts : place[a] # None => row[place[a]].parent # None
        /\ \A x, y \in Rows : row[x].title = row[y].title => x = y
    BY <2>1 DEF CatInv, RelationsHold, TwoLevels, TitlesDiffer
  <2>6. c \in Rows => e.id = c BY <1>1
  <2>7. c # None BY CacheAssumption
  <2>8. ASSUME NEW x \in Rows', row'[x].parent \notin {None, x}
        PROVE  row'[row'[x].parent].parent = None
    <3>1. CASE x = c
      <4>1. e.parent \notin {None, c, e.id} /\ e.parent \in Rows BY <1>1, <1>2, <2>8, <3>1
      <4>2. row[e.parent].parent = None BY <2>3, <4>1 DEF Sound, Rows
      <4> QED BY <1>2, <2>4, <3>1, <4>1, <4>2
    <3>2. CASE x # c
      <4> DEFINE d == row[x].parent
      <4>1. x \in Rows /\ row'[x].parent = d /\ d \notin {None, x} BY <1>2, <2>4, <2>8, <3>2
      <4>2. d \in Rows /\ row[d].parent = None BY <2>5, <4>1
      <4>3. CASE d # c BY <2>4, <4>1, <4>2, <4>3
      <4>4. CASE d = c
        <5>1. x \in e.kids BY <2>3, <2>6, <2>7, <4>1, <4>2, <4>4 DEF Sound, Rows
        <5>2. row[c].parent = e.parent BY <2>3, <2>6, <4>2, <4>4, <5>1 DEF Sound, Rows
        <5> QED BY <1>2, <4>1, <4>2, <4>4, <5>2
      <4> QED BY <4>3, <4>4
    <3> QED BY <3>1, <3>2
  <2>9. c \in Rows /\ row[c].parent # None => e.parent # None
    BY <2>3, <2>6 DEF Sound, Rows
  <2>10. ASSUME NEW a \in Adverts, place[a] # None PROVE row'[place[a]].parent # None
    <3>1. place[a] \in Rows /\ row[place[a]].parent # None BY <2>5, <2>10
    <3>2. CASE place[a] = c BY <1>2, <2>9, <3>1, <3>2
    <3>3. CASE place[a] # c BY <2>4, <3>1, <3>3
    <3> QED BY <3>2, <3>3
  <2>11. ASSUME NEW x \in Rows', NEW y \in Rows', row'[x].title = row'[y].title PROVE x = y
    <3>1. \A d \in Rows \ {c} : row[d].title # e.title
      <4> SUFFICES ASSUME NEW d \in Rows \ {c}, row[d].title = e.title PROVE FALSE OBVIOUS
      <4>1. d = e.id BY <1>0, <2>3 DEF Sound, Rows, At
      <4>2. d # None BY CacheAssumption DEF CatInv, TypeOK
      <4> QED BY <1>1, <4>1, <4>2
    <3> QED BY <1>2, <2>4, <2>5, <2>11, <3>1
  <2>12. ASSUME NEW q \in Procs PROVE Placed(mem'[q], row')
    <3> SUFFICES ASSUME mem'[q].op = "place", mem'[q].id \in Rows'
                 PROVE  row'[mem'[q].id].parent # None
      BY DEF Placed, Rows
    <3> DEFINE b == mem[q].id
    <3>1. q # p /\ mem[q].op = "place" /\ mem'[q].id = b BY <1>3
    <3>2. Placed(mem[q], row) /\ Apart(mem[q], e)
      BY <2>1 DEF CatInv, HandlersSound, PlacesSound, PlacesApart
    <3>3. CASE b = c
      <4>1. b # None /\ ~ Unknown(c) BY <2>7, <3>3 DEF Unknown
      <4>2. e.id = c BY <1>1, <4>1
      <4> QED BY <1>2, <2>2, <3>1, <3>2, <3>3, <4>1, <4>2 DEF Apart
    <3>4. CASE b # c BY <1>2, <2>4, <3>1, <3>2, <3>4 DEF Placed, Rows
    <3> QED BY <3>3, <3>4
  <2>13. TwoLevels' BY <1>0, <2>8, <2>10 DEF TwoLevels
  <2>14. TitlesDiffer' BY <2>11 DEF TitlesDiffer
  <2>15. PlacesSound' BY <2>12 DEF PlacesSound
  <2> QED BY <2>13, <2>14, <2>15
<1>12. TwoLevels' /\ TitlesDiffer' /\ PlacesSound'
  BY <1>11 DEF TwoLevels, TitlesDiffer, PlacesSound
<1> QED BY <1>4, <1>6, <1>7, <1>8, <1>10, <1>12 DEF CatInv, HandlersSound

-----------------------------------------------------------------------------
LEMMA InitHolds == Init => CatInv
<1> SUFFICES ASSUME Init PROVE CatInv OBVIOUS
<1>1. /\ row = [c \in {} |-> {}] /\ place = [a \in Adverts |-> None]
      /\ cache = "none" /\ ttl = 0 /\ mem = [p \in Procs |-> Idle]
      /\ torn = FALSE /\ missed = FALSE
  BY DEF Init
<1>2. Rows = {} BY <1>1 DEF Rows
<1>3. 0 \in 0 .. CacheLife BY CacheAssumption
<1>4. mem \in [Procs -> Memory] /\ \A p \in Procs : mem[p].op = "idle" BY <1>1, IdleType
<1>5. place \in [Adverts -> Ids \cup {None}] /\ \A a \in Adverts : place[a] = None BY <1>1
<1>6. TypeOK BY <1>1, <1>2, <1>3, <1>4, <1>5 DEF TypeOK
<1>7. RelationsHold /\ TwoLevels /\ TitlesDiffer
  BY <1>2, <1>5 DEF RelationsHold, TwoLevels, TitlesDiffer
<1>8. OldOnlyIfRaced BY <1>1 DEF OldOnlyIfRaced
<1>9. HandlersSound
  BY <1>4 DEF HandlersSound, TitlesRead, SavesSound, PlacesSound, PlacesApart, Sure, Saving,
              Placed, Apart
<1> QED BY <1>6, <1>7, <1>8, <1>9 DEF CatInv

LEMMA StepHolds == CatInv /\ [Next]_vars => CatInv'
<1> SUFFICES ASSUME CatInv, [Next]_vars PROVE CatInv' OBVIOUS
<1>1. ASSUME NEW p \in Procs,
             \/ CreateRequests(p) \/ ChangeRequests(p) \/ AdvertRequests(p)
             \/ LookUpTitle(p) \/ CanCategoryBeParent(p) \/ Save(p) \/ Clear(p)
             \/ RemoveCounts(p) \/ RemoveDeletes(p)
             \/ FindMisses(p) \/ FindReads(p) \/ FindStores(p)
             \/ PlaceSaves(p) \/ Abort(p)
      PROVE  CatInv'
  <2>1. CASE CreateRequests(p) BY <2>1, CreateStep DEF CreateRequests
  <2>2. CASE ChangeRequests(p) BY <2>2, UpdateStep, OtherReadsStep DEF ChangeRequests
  <2>3. CASE AdvertRequests(p) BY <2>3, PlaceReadsStep DEF AdvertRequests
  <2>4. CASE RemoveCounts(p) \/ FindMisses(p) \/ FindReads(p) BY <2>4, OtherReadsStep
  <2>5. CASE LookUpTitle(p) \/ CanCategoryBeParent(p) BY <2>5, LookUpStep, CheckParentStep
  <2>6. CASE Save(p) \/ RemoveDeletes(p) BY <2>6, SaveStep, RemoveStep
  <2>7. CASE Clear(p) \/ FindStores(p) BY <2>7, ClearStep, StoreStep
  <2>8. CASE PlaceSaves(p) \/ Abort(p) BY <2>8, PlaceSavesStep, AbortStep
  <2> QED BY <1>1, <2>1, <2>2, <2>3, <2>4, <2>5, <2>6, <2>7, <2>8
<1>2. CASE Next BY <1>1, <1>2, AdvertGoesStep, TickStep DEF Next
<1>3. CASE UNCHANGED vars
  <2>1. UNCHANGED <<row, place, cache, ttl, mem, torn, missed>> BY <1>3 DEF vars
  <2>2. TypeOK' BY <2>1 DEF CatInv, TypeOK, Rows
  <2>3. OldOnlyIfRaced' /\ HandlersSound'
    BY <2>1 DEF CatInv, OldOnlyIfRaced, At, HandlersSound, TitlesRead, SavesSound, PlacesSound,
                PlacesApart
  <2> QED BY <2>1, <2>2, <2>3, TablesKept DEF CatInv
<1> QED BY <1>2, <1>3

LEMMA Invariant == Spec => []CatInv
<1> QED BY InitHolds, StepHolds, PTL DEF Spec

(* Rows, places, the copy and what handlers have read keep their types,    *)
(* and the copy is there exactly while it has time to live.                *)
THEOREM CategoriesTyped == Spec => []TypeOK
<1>1. CatInv => TypeOK BY DEF CatInv
<1> QED BY <1>1, Invariant, PTL

(* However creations, updates, removals and adverts overlap, no category   *)
(* has a parent, and no advert a category, that is not in the table: stale *)
(* saves insert with an existing parent, and the cascade leaves nothing    *)
(* that hangs below what it takes.                                         *)
THEOREM RelationsAlwaysHold == Spec => []RelationsHold
<1>1. CatInv => RelationsHold BY DEF CatInv
<1> QED BY <1>1, Invariant, PTL

(* As long as no save was based on what another save has outdated, the     *)
(* categories form two levels, and adverts are in the lower one, whatever  *)
(* removals, adverts and readers do between the awaits of create and       *)
(* update.                                                                 *)
THEOREM TwoLevelsUnlessTorn == Spec => []TwoLevels
<1>1. CatInv => TwoLevels BY DEF CatInv
<1> QED BY <1>1, Invariant, PTL

(* As long as no save was based on what another save has outdated, the     *)
(* lookup of the title, and no unique column, keeps titles apart.          *)
THEOREM TitlesDifferUnlessTorn == Spec => []TitlesDiffer
<1>1. CatInv => TitlesDiffer BY DEF CatInv
<1> QED BY <1>1, Invariant, PTL

(* findAll serves an old copy only until the writer clears it, unless a    *)
(* reader stored late or a writer stopped before its DEL.                  *)
THEOREM CopyOldOnlyIfRaced == Spec => []OldOnlyIfRaced
<1>1. CatInv => OldOnlyIfRaced BY DEF CatInv
<1> QED BY <1>1, Invariant, PTL

-----------------------------------------------------------------------------
(* What the exception is worth: it does not arise while no two handlers    *)
(* are between the first read and the save of a creation or an update.     *)
SavesApart == \A p, q \in Procs : mem[p].op \in Saving /\ mem[q].op \in Saving => p = q

NothingOutdated == ~ torn /\ \A p \in Procs : ~ mem[p].stale

LEMMA MovesFresh ==
  ASSUME TypeOK, NothingOutdated, NEW p \in Procs, NEW m, mem' = [mem EXCEPT ![p] = m],
         ~ m.stale, UNCHANGED torn
  PROVE  NothingOutdated'
<1>1. \A q \in Procs : mem'[q] = IF q = p THEN m ELSE mem[q] BY DEF TypeOK
<1> QED BY <1>1 DEF NothingOutdated

LEMMA WritesFresh ==
  ASSUME TypeOK, NothingOutdated, NEW p \in Procs, NEW next, NEW saving \in BOOLEAN,
         Writes(p, next, saving), saving => SavesApart /\ mem[p].op = "save", ~ torn'
  PROVE  NothingOutdated'
<1> SUFFICES ASSUME NEW q \in Procs PROVE ~ mem'[q].stale BY DEF NothingOutdated
<1>1. mem[q] \in Memory /\ ~ mem[q].stale BY DEF TypeOK, NothingOutdated
<1>2. mem'[q] = IF q = p THEN [Idle EXCEPT !.op = next]
                ELSE [mem[q] EXCEPT
                       !.tree = IF mem[q].op = "store" THEN "old" ELSE @,
                       !.stale = @ \/ (saving /\ mem[q].op \in {"title", "parent", "save"})]
  BY DEF Writes, At
<1>3. CASE q = p BY <1>2, <1>3 DEF Idle
<1>4. CASE q # p
  <2>1. ~ (saving /\ mem[q].op \in {"title", "parent", "save"})
    BY <1>4 DEF SavesApart, Saving
  <2>2. mem'[q].stale = (mem[q].stale \/ (saving /\ mem[q].op \in {"title", "parent", "save"}))
    BY <1>1, <1>2, <1>4 DEF Memory
  <2> QED BY <1>1, <2>1, <2>2
<1> QED BY <1>3, <1>4

LEMMA FreshStays ==
  ASSUME TypeOK, NothingOutdated, SavesApart, [Next]_vars
  PROVE  NothingOutdated'
<1>1. ASSUME NEW p \in Procs,
             \/ CreateRequests(p) \/ ChangeRequests(p) \/ AdvertRequests(p)
             \/ LookUpTitle(p) \/ CanCategoryBeParent(p) \/ Clear(p) \/ RemoveCounts(p)
             \/ FindMisses(p) \/ FindReads(p) \/ FindStores(p)
             \/ PlaceSaves(p) \/ Abort(p)
      PROVE  NothingOutdated'
  <2>1. mem[p] \in Memory /\ ~ mem[p].stale BY DEF TypeOK, NothingOutdated
  <2>2. ~ Idle.stale BY DEF Idle
  <2>3. CASE CreateRequests(p)
    <3>1. PICK t \in Titles, q \in Ids \cup {None} : CreateStarts(p, t, q)
      BY <2>3 DEF CreateRequests
    <3> DEFINE m == [Idle EXCEPT !.op = "title", !.title = t, !.asked = q]
    <3>2. ~ m.stale BY DEF Idle
    <3> HIDE DEF m
    <3>3. mem' = [mem EXCEPT ![p] = m] /\ UNCHANGED torn BY <3>1 DEF CreateStarts, m
    <3> QED BY <3>2, <3>3, MovesFresh
  <2>4. CASE \E c \in Ids, t \in Titles, q \in Ids \cup {None} : UpdateReads(p, c, t, q)
    <3>1. PICK c \in Ids, t \in Titles, q \in Ids \cup {None} : UpdateReads(p, c, t, q)
      BY <2>4
    <3> DEFINE m == [Idle EXCEPT
         !.op = Next1(t # row[c].title, q), !.id = c, !.title = t,
         !.parent = row[c].parent, !.asked = q, !.kids = Kids(c)]
    <3>2. ~ m.stale BY DEF Idle
    <3>3. mem' = [mem EXCEPT ![p] = m] /\ UNCHANGED torn
      BY <3>1 DEF UpdateReads, UpdateLoads
    <3> HIDE DEF m
    <3> QED BY <3>2, <3>3, MovesFresh
  <2>5. CASE \E c \in Ids : RemoveReads(p, c)
    <3>1. PICK c \in Ids : RemoveReads(p, c) BY <2>5
    <3> DEFINE m == [Idle EXCEPT !.op = "count", !.id = c, !.parent = row[c].parent]
    <3>2. ~ m.stale BY DEF Idle
    <3>3. mem' = [mem EXCEPT ![p] = m] /\ UNCHANGED torn BY <3>1 DEF RemoveReads
    <3> HIDE DEF m
    <3> QED BY <3>2, <3>3, MovesFresh
  <2>6. CASE AdvertRequests(p)
    <3>1. PICK a \in Adverts, c \in Ids : PlaceReads(p, a, c) BY <2>6 DEF AdvertRequests
    <3> DEFINE m == [Idle EXCEPT !.op = "place", !.id = c, !.advert = a]
    <3>2. ~ m.stale BY DEF Idle
    <3>3. mem' = [mem EXCEPT ![p] = m] /\ UNCHANGED torn BY <3>1 DEF PlaceReads
    <3> HIDE DEF m
    <3> QED BY <3>2, <3>3, MovesFresh
  <2>7. CASE LookUpTitle(p) \/ RemoveCounts(p)
    <3> DEFINE m(op) == [mem[p] EXCEPT !.op = op]
    <3>1. \A op : ~ m(op).stale BY <2>1 DEF Memory
    <3>2. UNCHANGED torn /\ \E op : mem' = [mem EXCEPT ![p] = m(op)]
      BY <2>7 DEF LookUpTitle, RemoveCounts, TypeOK
    <3> HIDE DEF m
    <3> QED BY <3>1, <3>2, MovesFresh
  <2>8. CASE CanCategoryBeParent(p)
    <3> DEFINE m == [mem[p] EXCEPT !.op = "save", !.parent = mem[p].asked, !.asked = None]
    <3>1. ~ m.stale BY <2>1 DEF Memory
    <3>2. mem' = [mem EXCEPT ![p] = m] /\ UNCHANGED torn
      BY <2>1, <2>8 DEF CanCategoryBeParent, TypeOK
    <3> HIDE DEF m
    <3> QED BY <3>1, <3>2, MovesFresh
  <2>9. CASE FindMisses(p) \/ FindReads(p)
    <3> DEFINE m(op) == [Idle EXCEPT !.op = op]
    <3>1. \A op : ~ m(op).stale BY DEF Idle
    <3>2. UNCHANGED torn /\ \E op : mem' = [mem EXCEPT ![p] = m(op)]
      BY <2>9 DEF FindMisses, FindReads
    <3> HIDE DEF m
    <3> QED BY <3>1, <3>2, MovesFresh
  <2>10. CASE Clear(p) \/ FindStores(p) \/ PlaceSaves(p) \/ Abort(p)
    <3>1. mem' = [mem EXCEPT ![p] = Idle] /\ UNCHANGED torn
      BY <2>10 DEF Clear, FindStores, StoresFor, PlaceSaves, Abort, Ends
    <3> QED BY <2>2, <3>1, MovesFresh
  <2> QED BY <1>1, <2>3, <2>4, <2>5, <2>6, <2>7, <2>8, <2>9, <2>10 DEF ChangeRequests
<1>2. ASSUME NEW p \in Procs, Save(p) PROVE NothingOutdated'
  <2>1. Writes(p, "clear", TRUE) /\ mem[p].op = "save" /\ torn' = (torn \/ mem[p].stale)
    BY <1>2 DEF Save, At
  <2>2. ~ torn' BY <2>1 DEF NothingOutdated
  <2> QED BY <2>1, <2>2, WritesFresh
<1>3. ASSUME NEW p \in Procs, RemoveDeletes(p) PROVE NothingOutdated'
  <2>1. Writes(p, "clear", FALSE) /\ torn' = torn BY <1>3 DEF RemoveDeletes, RemovesThen
  <2>2. ~ torn' BY <2>1 DEF NothingOutdated
  <2> QED BY <2>1, <2>2, WritesFresh
<1>4. ASSUME UNCHANGED <<mem, torn>> PROVE NothingOutdated'
  BY <1>4 DEF NothingOutdated
<1>5. CASE Next BY <1>1, <1>2, <1>3, <1>4, <1>5 DEF Next, AdvertGoes, Tick
<1>6. CASE UNCHANGED vars BY <1>4, <1>6 DEF vars
<1> QED BY <1>5, <1>6

(* If creations and updates are kept apart from each other, as a lock      *)
(* around the two would, then removals, adverts, readers and requests that *)
(* break off may overlap with anything: there are two levels, adverts are  *)
(* in the lower one and titles differ, without exception.                  *)
THEOREM ApartSavesKeepTheTree ==
  Spec /\ []SavesApart =>
    [](/\ \A c \in Rows :
            row[c].parent \notin {None, c} => row[row[c].parent].parent = None
       /\ \A a \in Adverts : place[a] # None => row[place[a]].parent # None
       /\ \A c, d \in Rows : row[c].title = row[d].title => c = d)
<1> DEFINE Tree ==
      /\ \A c \in Rows :
           row[c].parent \notin {None, c} => row[row[c].parent].parent = None
      /\ \A a \in Adverts : place[a] # None => row[place[a]].parent # None
      /\ \A c, d \in Rows : row[c].title = row[d].title => c = d
<1>1. Init => NothingOutdated BY DEF Init, Idle, NothingOutdated
<1>2. CatInv /\ NothingOutdated /\ SavesApart /\ [Next]_vars => NothingOutdated'
  BY FreshStays DEF CatInv
<1>3. CatInv /\ NothingOutdated => Tree
  BY DEF CatInv, NothingOutdated, TwoLevels, TitlesDiffer
<1> QED BY <1>1, <1>2, <1>3, Invariant, PTL DEF Spec
=============================================================================
