------------------------------ MODULE Categories ------------------------------
(***************************************************************************)
(* The categories, meant to form a tree of two levels, and the copy of the *)
(* tree in Redis.  Admins create, update and remove categories, visitors   *)
(* fill the copy, owners place adverts; their handlers meet at every       *)
(* await.                                                                  *)
(*                                                                         *)
(* The copy is only told to be fresh or old: it carries every column of a  *)
(* category, so every write of a row makes it old.                         *)
(***************************************************************************)
EXTENDS Naturals

CONSTANTS
  Ids,        \* ids of categories
  Titles,
  Adverts,    \* ids of items
  Procs,      \* request handlers that may overlap
  CacheLife,  \* hours the copy lives: 24
  None        \* NULL

ASSUME CacheAssumption == CacheLife \in Nat \ {0} /\ None \notin Ids

VARIABLES
  row,      \* row[c]: title and parent of each category in the table
  place,    \* place[a]: category of advert a, None while it does not exist
  cache,    \* the copy: "none", "fresh" or "old"
  ttl,      \* hours the copy has left
  mem,      \* mem[p]: where handler p is and what it has read
  torn,     \* history: a save was based on a read that another save outdated
  missed    \* history: an old copy no handler under way will clear

vars == <<row, place, cache, ttl, mem, torn, missed>>

Rows    == DOMAIN row
Kids(c) == {k \in Rows : row[k].parent = c}

(* What a DELETE of c takes: c and whatever hangs below it.                *)
Doomed(c) ==
  {d \in Rows : \A S \in SUBSET Rows :
     (c \in Rows => c \in S) /\ (\A k \in Rows : row[k].parent \in S => k \in S)
       => d \in S}

(* id, title, parent and kids are those of the entity loaded or to be      *)
(* saved, asked the parent the request wants; tree is a reader's copy.     *)
Memory == [op : {"idle", "title", "parent", "save", "clear", "count",
                 "delete", "find", "store", "place"},
           id : Ids \cup {None}, title : Titles \cup {None},
           parent : Ids \cup {None}, asked : Ids \cup {None},
           kids : SUBSET Ids, tree : {"fresh", "old"},
           advert : Adverts \cup {None}, stale : BOOLEAN]

Idle == [op |-> "idle", id |-> None, title |-> None, parent |-> None,
         asked |-> None, kids |-> {}, tree |-> "fresh", advert |-> None,
         stale |-> FALSE]

TypeOK ==
  /\ Rows \subseteq Ids
  /\ \A c \in Rows : row[c] \in [title : Titles, parent : Ids \cup {None}]
  /\ place \in [Adverts -> Ids \cup {None}]
  /\ cache \in {"none", "fresh", "old"}
  /\ ttl \in 0 .. CacheLife /\ (ttl = 0 <=> cache = "none")
  /\ mem \in [Procs -> Memory]
  /\ torn \in BOOLEAN /\ missed \in BOOLEAN

Init ==
  /\ row = [c \in {} |-> {}]
  /\ place = [a \in Adverts |-> None]
  /\ cache = "none" /\ ttl = 0
  /\ mem = [p \in Procs |-> Idle]
  /\ torn = FALSE /\ missed = FALSE

At(p, op) == mem[p].op = op
Ends(p)   == mem' = [mem EXCEPT ![p] = Idle]

(* A write of rows: every copy of the tree is old, and if it was a save,   *)
(* so is what the other handlers that are about to save have read.         *)
Writes(p, next, saving) ==
  /\ cache' = IF cache = "fresh" THEN "old" ELSE cache
  /\ mem' = [q \in Procs |->
       IF q = p THEN [Idle EXCEPT !.op = next]
       ELSE [mem[q] EXCEPT
              !.tree = IF At(q, "store") THEN "old" ELSE @,
              !.stale = @ \/ (saving /\ mem[q].op \in {"title", "parent", "save"})]]

-----------------------------------------------------------------------------
(* create and update.  The title is looked up when it is new, the parent   *)
(* when the request names one.                                             *)

Next1(title, asked) ==
  IF title THEN "title" ELSE IF asked # None THEN "parent" ELSE "save"

CreateStarts(p, t, q) ==
  /\ mem[p] = Idle
  /\ mem' = [mem EXCEPT ![p] = [Idle EXCEPT !.op = "title", !.title = t, !.asked = q]]
  /\ UNCHANGED <<row, place, cache, ttl, torn, missed>>

UpdateLoads(p, c, t, q) ==
  /\ mem[p] = Idle /\ c \in Rows
  /\ mem' = [mem EXCEPT ![p] = [Idle EXCEPT
       !.op = Next1(t # row[c].title, q), !.id = c, !.title = t,
       !.parent = row[c].parent, !.asked = q, !.kids = Kids(c)]]
  /\ UNCHANGED <<row, place, cache, ttl, torn, missed>>

(* Bug: a parent may become a child. *)
UpdateReadsParents(p, c, t, q) == UpdateLoads(p, c, t, q)

UpdateReads(p, c, t, q) ==
  /\ q # None => Kids(c) = {}
  /\ UpdateLoads(p, c, t, q)

(* Bug: only root titles are compared. *)
TitleTakenAtRoot(t) == \E c \in Rows : row[c].title = t /\ row[c].parent = None

TitleTaken(t) == \E c \in Rows : row[c].title = t

LookUpTitle(p) ==
  /\ At(p, "title") /\ ~ TitleTaken(mem[p].title)
  /\ mem' = [mem EXCEPT ![p].op = Next1(FALSE, mem[p].asked)]
  /\ UNCHANGED <<row, place, cache, ttl, torn, missed>>

(* CanCategoryBeParent: it has no parent.  It may be the category itself.  *)
CanCategoryBeParent(p) ==
  /\ At(p, "parent") /\ mem[p].asked \in Rows /\ row[mem[p].asked].parent = None
  /\ mem' = [mem EXCEPT ![p].op = "save", ![p].parent = mem[p].asked, ![p].asked = None]
  /\ UNCHANGED <<row, place, cache, ttl, torn, missed>>

(* An id nobody remembers stands for the next one of the sequence.         *)
Unknown(c) ==
  \A p \in Procs : c \notin {mem[p].id, mem[p].parent, mem[p].asked} \cup mem[p].kids

(* save() of the entity e as category c: all columns are written, a row    *)
(* that is gone is inserted again, the children it was loaded with are its *)
(* own again, and the children it was not loaded with lose their parent.   *)
SaveCategory(c, e) ==
  /\ e.parent \in Rows \cup {c, None}
  /\ row' = [x \in Rows \cup {c} |->
       IF x = c THEN [title |-> e.title, parent |-> e.parent]
       ELSE IF x \in e.kids THEN [row[x] EXCEPT !.parent = c]
       ELSE IF row[x].parent = c THEN [row[x] EXCEPT !.parent = None]
       ELSE row[x]]

Save(p) ==
  /\ At(p, "save")
  /\ \/ mem[p].id # None /\ SaveCategory(mem[p].id, mem[p])
     \/ \E c \in Ids \ Rows : mem[p].id = None /\ Unknown(c) /\ SaveCategory(c, mem[p])
  /\ Writes(p, "clear", TRUE)
  /\ torn' = (torn \/ mem[p].stale)
  /\ UNCHANGED <<place, ttl, missed>>

(* clearCategoriesCache, the last call of every write.                     *)
Clear(p) ==
  /\ At(p, "clear")
  /\ cache' = "none" /\ ttl' = 0 /\ missed' = FALSE
  /\ Ends(p)
  /\ UNCHANGED <<row, place, torn>>

-----------------------------------------------------------------------------
(* remove: the adverts of a child are those placed in it, those of a root  *)
(* the ones placed in its children.                                        *)

RemoveReads(p, c) ==
  /\ mem[p] = Idle /\ c \in Rows
  /\ mem' = [mem EXCEPT ![p] = [Idle EXCEPT !.op = "count", !.id = c,
                                            !.parent = row[c].parent]]
  /\ UNCHANGED <<row, place, cache, ttl, torn, missed>>

Listed(c, par) ==
  {a \in Adverts : place[a] # None
     /\ IF par # None THEN place[a] = c ELSE row[place[a]].parent = c}

RemoveCounts(p) ==
  /\ At(p, "count") /\ Listed(mem[p].id, mem[p].parent) = {}
  /\ mem' = [mem EXCEPT ![p].op = "delete"]
  /\ UNCHANGED <<row, place, cache, ttl, torn, missed>>

DeleteRows(gone) == row' = [x \in Rows \ gone |-> row[x]]

(* Bug: the cascade stops at the children. *)
CascadeOnce(c) ==
  LET gone == {c} \cup Kids(c)
  IN (\A a \in Adverts : place[a] \notin gone) /\ DeleteRows(gone)

(* The database removes what is below, unless an advert is placed there.   *)
Cascade(c) ==
  /\ \A a \in Adverts : place[a] \notin Doomed(c)
  /\ DeleteRows(Doomed(c))

RemovesThen(p, next) ==
  /\ At(p, "delete") /\ Cascade(mem[p].id)
  /\ Writes(p, next, FALSE)
  /\ UNCHANGED <<place, ttl, torn, missed>>

(* Bug: the copy is left alone. *)
RemoveDeletesOnly(p) == RemovesThen(p, "idle")

RemoveDeletes(p) == RemovesThen(p, "clear")

-----------------------------------------------------------------------------
(* findAll, when the copy is missing: GET, SELECT, SET with a time to live. *)

FindMisses(p) ==
  /\ mem[p] = Idle /\ cache = "none"
  /\ mem' = [mem EXCEPT ![p] = [Idle EXCEPT !.op = "find"]]
  /\ UNCHANGED <<row, place, cache, ttl, torn, missed>>

FindReads(p) ==
  /\ At(p, "find")
  /\ mem' = [mem EXCEPT ![p] = [Idle EXCEPT !.op = "store"]]
  /\ UNCHANGED <<row, place, cache, ttl, torn, missed>>

StoresFor(p, hours) ==
  /\ At(p, "store")
  /\ cache' = mem[p].tree /\ ttl' = hours
  /\ missed' = (mem[p].tree = "old")
  /\ Ends(p)
  /\ UNCHANGED <<row, place, torn>>

(* Bug: the time to live is given in a wrong unit. *)
FindStoresLonger(p) == StoresFor(p, 60 * CacheLife)

FindStores(p) == StoresFor(p, CacheLife)

-----------------------------------------------------------------------------
(* Adverts are created in, or moved to, a category that has a parent; a    *)
(* save that keeps the category writes the one it has read.                *)

PlaceReads(p, a, c) ==
  /\ mem[p] = Idle /\ c \in Rows
  /\ row[c].parent # None \/ place[a] = c
  /\ mem' = [mem EXCEPT ![p] = [Idle EXCEPT !.op = "place", !.id = c, !.advert = a]]
  /\ UNCHANGED <<row, place, cache, ttl, torn, missed>>

PlaceSaves(p) ==
  /\ At(p, "place") /\ mem[p].id \in Rows
  /\ place' = [place EXCEPT ![mem[p].advert] = mem[p].id]
  /\ Ends(p)
  /\ UNCHANGED <<row, cache, ttl, torn, missed>>

AdvertGoes(a) ==
  /\ place[a] # None
  /\ place' = [place EXCEPT ![a] = None]
  /\ UNCHANGED <<row, cache, ttl, mem, torn, missed>>

-----------------------------------------------------------------------------
(* The request throws, or the process or Redis stops.                      *)
Abort(p) ==
  /\ mem[p] # Idle
  /\ missed' = (missed \/ (At(p, "clear") /\ cache = "old"))
  /\ Ends(p)
  /\ UNCHANGED <<row, place, cache, ttl, torn>>

Tick ==
  /\ ttl > 0
  /\ ttl' = ttl - 1
  /\ IF ttl = 1 THEN cache' = "none" /\ missed' = FALSE
                ELSE UNCHANGED <<cache, missed>>
  /\ UNCHANGED <<row, place, mem, torn>>

(* What admins, visitors and owners may send. *)
CreateRequests(p) ==
  \E t \in Titles, q \in Ids \cup {None} : CreateStarts(p, t, q)

ChangeRequests(p) ==
  \E c \in Ids :
    \/ \E t \in Titles, q \in Ids \cup {None} : UpdateReads(p, c, t, q)
    \/ RemoveReads(p, c)

AdvertRequests(p) == \E a \in Adverts, c \in Ids : PlaceReads(p, a, c)

Next ==
  \/ \E p \in Procs :
       \/ CreateRequests(p) \/ ChangeRequests(p) \/ AdvertRequests(p)
       \/ LookUpTitle(p) \/ CanCategoryBeParent(p) \/ Save(p) \/ Clear(p)
       \/ RemoveCounts(p) \/ RemoveDeletes(p)
       \/ FindMisses(p) \/ FindReads(p) \/ FindStores(p)
       \/ PlaceSaves(p)
       \/ Abort(p)
  \/ \E a \in Adverts : AdvertGoes(a)
  \/ Tick

Spec == Init /\ [][Next]_vars

-----------------------------------------------------------------------------
(* A category's parent and an advert's category are in the table, although *)
(* stale saves insert removed categories again and chains longer than two  *)
(* levels can arise for the cascade to follow.                             *)
RelationsHold ==
  /\ \A c \in Rows : row[c].parent \in Rows \cup {None}
  /\ \A a \in Adverts : place[a] \in Rows \cup {None}

(* Unless two saves overlapped: no parent has another parent (it can only  *)
(* be its own), and every advert is in a category that has a parent, where *)
(* searches look for it.  Removals, adverts and readers may overlap with   *)
(* anything.                                                               *)
TwoLevels ==
  ~ torn =>
    /\ \A c \in Rows :
         row[c].parent \notin {None, c} => row[row[c].parent].parent = None
    /\ \A a \in Adverts : place[a] # None => row[place[a]].parent # None

(* Unless two saves overlapped, no two categories have one title.          *)
TitlesDiffer ==
  ~ torn => \A c, d \in Rows : row[c].title = row[d].title => c = d

(* The copy is old only while the writer is about to clear it, or if a     *)
(* reader stored what it had read before the write, or the writer failed   *)
(* between its save and its DEL.                                           *)
OldOnlyIfRaced == cache = "old" => missed \/ \E p \in Procs : At(p, "clear")
=============================================================================
