------------------------------- MODULE Listings -------------------------------
(***************************************************************************)
(* The public side of the adverts: where they are (countries, regions and  *)
(* cities grown from the geocoder's answers), the paged search with its    *)
(* location filter, and the wishlists.                                     *)
(*                                                                         *)
(* Of an advert only what a search tells apart is kept: its point, the row *)
(* of its city, whether its status is 'active'.  One visitor turns pages.  *)
(***************************************************************************)
EXTENDS Integers, FiniteSets, SequencesExt

CONSTANTS
  Adverts, Users, Procs, None,
  Points, Where,   \* Where[x]: country, region, place of the geocoder's answer
  OnAxis,          \* points with a zero coordinate
  Other,           \* the place 'other'
  PerPage,         \* ITEMS_PER_PAGE
  MaxCities        \* bound on the rows of table city

ASSUME PageAssumption == PerPage \in Nat \ {0} /\ MaxCities \in Nat
ASSUME WhereAssumption == OnAxis \subseteq Points /\ DOMAIN Where = Points

VARIABLES
  country,  \* country[k]: name
  region,   \* region[r]: name, country
  city,     \* city[c]: name, region
  row,      \* row[a]: point, city, active
  createdAt, \* of every advert ever created
  users,    \* living users
  wish,     \* table wishlist: <<user, advert>>
  mem,      \* mem[p]: where handler p is, with what it has read
  visitor,  \* the page turning: see Visitor
  split     \* history: paths of names that overlapping lookups both missed

places == <<country, region, city>>
vars == <<places, row, createdAt, users, wish, mem, visitor, split>>

Rows == DOMAIN row

Absent  == [point |-> None, city |-> 0, active |-> FALSE]
Nothing == [country |-> 0, region |-> 0, city |-> 0]
Idle    == [op |-> "idle", advert |-> None, user |-> None, row |-> Absent, found |-> Nothing]
All     == [kind |-> "all", id |-> 0]
Away    == [op |-> "away", filter |-> All, page |-> 0, total |-> 0, owed |-> {}, late |-> FALSE]

Row   == [point : Points, city : 1..Len(city), active : BOOLEAN]
Found == [country : 0..Len(country), region : 0..Len(region), city : 0..Len(city)]

Filters == {All} \cup [kind : {"country"}, id : DOMAIN country]
                 \cup [kind : {"region"}, id : DOMAIN region]
                 \cup [kind : {"city"}, id : DOMAIN city]

(* owed: adverts that match since the first page and were not shown yet;   *)
(* late: one came up after the total was counted.                          *)
Visitor == [op : {"away", "ask", "counted", "done"}, filter : Filters, page : Nat,
            total : Nat, owed : SUBSET Adverts, late : BOOLEAN]

Names == {Where[x].country : x \in Points} \cup {Where[x].region : x \in Points}
           \cup {Where[x].place : x \in Points} \cup {Other}

TypeOK ==
  /\ country \in Seq(Names)
  /\ region \in Seq([name : Names, country : Nat]) /\ city \in Seq([name : Names, region : Nat])
  /\ \A r \in DOMAIN region : region[r].country \in DOMAIN country
  /\ \A c \in DOMAIN city : city[c].region \in DOMAIN region
  /\ Rows \subseteq DOMAIN createdAt /\ DOMAIN createdAt \subseteq Adverts
  /\ IsFiniteSet(DOMAIN createdAt)
  /\ createdAt \in [DOMAIN createdAt -> 1..Cardinality(DOMAIN createdAt)]
  /\ IsInjective(createdAt)
  /\ \A a \in Rows : row[a] \in Row
  /\ users \subseteq Users
  /\ mem \in [Procs -> [op : {"idle", "city", "edit", "save", "wish"},
                        advert : Adverts \cup {None}, user : Users \cup {None},
                        row : [point : Points \cup {None}, city : 0..Len(city),
                               active : BOOLEAN],
                        found : Found]]
  /\ visitor \in Visitor

Init ==
  /\ country = <<>> /\ region = <<>> /\ city = <<>>
  /\ row = [a \in {} |-> {}] /\ createdAt = [a \in {} |-> 0]
  /\ users = Users /\ wish = {}
  /\ mem = [p \in Procs |-> Idle]
  /\ visitor = Away
  /\ split = {}

At(p, op)  == mem[p].op = op
Goes(p, m) == mem' = [mem EXCEPT ![p] = m]

-----------------------------------------------------------------------------
(* getLocation.                                                            *)

(* The geocoder's answer needs a region and a country.                     *)
Known(x) == Where[x].country # None /\ Where[x].region # None

Path(x) == <<Where[x].country, Where[x].region,
             IF Where[x].place = None THEN Other ELSE Where[x].place>>

OrNone(S) == IF S = {} THEN {0} ELSE S

Countries(path) == OrNone({k \in DOMAIN country : country[k] = path[1]})

Regions(path, k) ==
  OrNone({r \in DOMAIN region : region[r] = [name |-> path[2], country |-> k]})

(* Bug: a city is looked up by its name alone. *)
CitiesAnywhere(path, r) == OrNone({c \in DOMAIN city : city[c].name = path[3]})

Cities(path, r) ==
  OrNone({c \in DOMAIN city : city[c] = [name |-> path[3], region |-> r]})

(* The names an insert will bring, each with the names above it.           *)
Missed(path, f) == {SubSeq(path, 1, n) : n \in
  {m \in 1..3 : \/ m = 1 /\ f.country = 0
                \/ m = 2 /\ f.region = 0
                \/ m = 3 /\ f.city = 0}}

(* Bug: the city is made anew each time. *)
NextOpAnew(f) == "city"

NextOp(f) == IF f.city = 0 THEN "city" ELSE "save"

(* One row by name and parent, whichever if there are more.  The tables    *)
(* only grow, so the three queries find what one would at the last of them.*)
LooksUp(p, a, x, active) ==
  LET path == Path(x)
  IN \E k \in Countries(path) : \E r \in Regions(path, k) : \E c \in Cities(path, r) :
       LET f == [country |-> k, region |-> r, city |-> c]
       IN /\ Known(x)
          /\ Goes(p, [Idle EXCEPT !.op = NextOp(f), !.advert = a,
                       !.found = IF NextOp(f) = "city" THEN f ELSE Nothing,
                       !.row = [point |-> x, city |-> c, active |-> active]])
          /\ split' = split \cup (Missed(path, f) \cap
               UNION {Missed(Path(mem[q].row.point), mem[q].found)
                        : q \in {q \in Procs \ {p} : At(q, "city")}})

(* Bug: the insert does not cascade. *)
CascadesNothing(missing, table, new) == table

(* The insert of the city cascades to the rows it hangs from.              *)
Cascades(missing, table, new) == IF missing THEN Append(table, new) ELSE table

CitySaves(p) ==
  LET f == mem[p].found
      path == Path(mem[p].row.point)
      k == IF f.country = 0 THEN Len(country) + 1 ELSE f.country
      r == IF f.region = 0 THEN Len(region) + 1 ELSE f.region
  IN /\ At(p, "city") /\ Len(city) < MaxCities
     /\ country' = Cascades(f.country = 0, country, path[1])
     /\ region' = Cascades(f.region = 0, region, [name |-> path[2], country |-> k])
     /\ city' = Append(city, [name |-> path[3], region |-> r])
     /\ Goes(p, [mem[p] EXCEPT !.op = "save", !.row.city = Len(city) + 1,
                               !.found = Nothing])
     /\ UNCHANGED <<row, createdAt, users, wish, visitor, split>>

-----------------------------------------------------------------------------
(* findItems.                                                              *)

In(c, f) ==
  \/ f.kind = "all"
  \/ f.kind = "city" /\ c = f.id
  \/ f.kind = "region" /\ city[c].region = f.id
  \/ f.kind = "country" /\ region[city[c].region].country = f.id

Listed(rows, f) == {a \in DOMAIN rows : rows[a].active /\ In(rows[a].city, f)}

(* The first n of S, ordered by createdAt, latest first.                   *)
FirstOf(S, n) == {a \in S : Cardinality({b \in S : createdAt[b] >= createdAt[a]}) <= n}

(* What a change of the table does to the visitor's page turning: adverts  *)
(* that go from the pages already seen pull the others past the visitor.   *)
Watch(rows) ==
  LET old == Listed(row, visitor.filter)
      new == Listed(rows, visitor.filter)
      passed == FirstOf(old, PerPage * (visitor.page - 1))
  IN visitor' = IF visitor.op \notin {"ask", "counted"} THEN visitor
       ELSE [visitor EXCEPT
              !.owed = IF passed \subseteq new THEN @ \cap new ELSE {},
              !.late = @ \/ (visitor.op = "counted" /\ ~ new \subseteq old)]

(* Page one: the filter's row must exist; getCount.                        *)
VisitStarts(f) ==
  /\ visitor.op \in {"away", "done"}
  /\ LET found == Listed(row, f)
     IN visitor' = [Away EXCEPT !.op = "counted", !.filter = f, !.page = 1,
                                !.total = Cardinality(found), !.owed = found]
  /\ UNCHANGED <<places, row, createdAt, users, wish, mem, split>>

VisitCounts ==
  /\ visitor.op = "ask"
  /\ visitor' = [visitor EXCEPT !.op = "counted",
                    !.total = Cardinality(Listed(row, visitor.filter))]
  /\ UNCHANGED <<places, row, createdAt, users, wish, mem, split>>

(* Bug: the page number is not lowered by one. *)
PageAfter(S, page) == FirstOf(S, PerPage * (page + 1)) \ FirstOf(S, PerPage * page)

Page(S, page) == FirstOf(S, PerPage * page) \ FirstOf(S, PerPage * (page - 1))

(* getMany with skip and take; the visitor goes on while totalItems says   *)
(* there is more.                                                          *)
VisitReads ==
  /\ visitor.op = "counted"
  /\ LET shown == Page(Listed(row, visitor.filter), visitor.page)
         last == PerPage * visitor.page >= visitor.total
     IN visitor' = [visitor EXCEPT !.op = IF last THEN "done" ELSE "ask",
                      !.page = IF last THEN @ ELSE @ + 1,
                      !.owed = @ \ shown, !.late = @ /\ last]
  /\ UNCHANGED <<places, row, createdAt, users, wish, mem, split>>

VisitEnds ==
  /\ visitor.op # "away"
  /\ visitor' = Away
  /\ UNCHANGED <<places, row, createdAt, users, wish, mem, split>>

-----------------------------------------------------------------------------
(* create, update, remove, the expiry job.  Whoever may, and from which    *)
(* status to which, is told in Items: here every change is allowed.        *)

CreateLooksUp(p, a, x, active) ==
  /\ mem[p] = Idle
  /\ a \notin DOMAIN createdAt /\ \A q \in Procs : mem[q].advert # a
  /\ LooksUp(p, a, x, active)
  /\ UNCHANGED <<places, row, createdAt, users, wish, visitor>>

UpdateReads(p, a, active) ==
  /\ mem[p] = Idle /\ a \in Rows
  /\ Goes(p, [Idle EXCEPT !.op = "edit", !.advert = a,
                          !.row = [row[a] EXCEPT !.active = active]])
  /\ UNCHANGED <<places, row, createdAt, users, wish, visitor, split>>

(* A zero coordinate counts as none: alone it is an error, together they   *)
(* are not looked at.                                                      *)
UpdateLooksUp(p, x) ==
  /\ At(p, "edit") /\ x \notin OnAxis
  /\ LooksUp(p, mem[p].advert, x, mem[p].row.active)
  /\ UNCHANGED <<places, row, createdAt, users, wish, visitor>>

(* save(): a row that is gone is inserted again, with its createdAt.       *)
AdvertSaves(p) ==
  LET a == mem[p].advert
      rows == [b \in Rows \cup {a} |-> IF b = a THEN mem[p].row ELSE row[b]]
      ever == DOMAIN createdAt
  IN /\ mem[p].op \in {"edit", "save"}
     /\ row' = rows
     /\ createdAt' = [b \in ever \cup {a} |->
                        IF b \in ever THEN createdAt[b] ELSE Cardinality(ever) + 1]
     /\ Watch(rows)
     /\ Goes(p, Idle)
     /\ UNCHANGED <<places, users, wish, split>>

Without(a, wishes) ==
  LET rows == [b \in Rows \ {a} |-> row[b]]
  IN /\ a \in Rows
     /\ row' = rows
     /\ wish' = wishes
     /\ Watch(rows)
     /\ UNCHANGED <<places, createdAt, users, mem, split>>

(* Bug: the wishes are not deleted with the advert. *)
RemoveAdvertOnly(a) == Without(a, wish)

RemoveAdvert(a) == Without(a, {w \in wish : w[2] # a})

Expires(a) ==
  LET rows == [row EXCEPT ![a].active = FALSE]
  IN /\ a \in Rows /\ row[a].active
     /\ row' = rows
     /\ Watch(rows)
     /\ UNCHANGED <<places, createdAt, users, wish, mem, split>>

-----------------------------------------------------------------------------
(* Wishlists.                                                              *)

WishReads(p, u, a) ==
  /\ mem[p] = Idle /\ u \in users /\ a \in Rows
  /\ Goes(p, [Idle EXCEPT !.op = "wish", !.advert = a, !.user = u])
  /\ UNCHANGED <<places, row, createdAt, users, wish, visitor, split>>

(* The foreign keys hold the row to a user and an advert.                  *)
WishSaves(p) ==
  /\ At(p, "wish") /\ mem[p].user \in users /\ mem[p].advert \in Rows
  /\ wish' = wish \cup {<<mem[p].user, mem[p].advert>>}
  /\ Goes(p, Idle)
  /\ UNCHANGED <<places, row, createdAt, users, visitor, split>>

WishRemoved(u, a) ==
  /\ <<u, a>> \in wish
  /\ wish' = wish \ {<<u, a>>}
  /\ UNCHANGED <<places, row, createdAt, users, mem, visitor, split>>

(* The account is deleted; adverts of its own go one by one.               *)
DeleteUser(u) ==
  /\ u \in users
  /\ users' = users \ {u}
  /\ wish' = {w \in wish : w[1] # u}
  /\ UNCHANGED <<places, row, createdAt, mem, visitor, split>>

Abort(p) ==
  /\ mem[p] # Idle
  /\ Goes(p, Idle)
  /\ UNCHANGED <<places, row, createdAt, users, wish, visitor, split>>

ItemRequests(p) ==
  \/ \E a \in Adverts, x \in Points, active \in BOOLEAN : CreateLooksUp(p, a, x, active)
  \/ \E a \in Rows, active \in BOOLEAN : UpdateReads(p, a, active)
  \/ \E a \in Rows : RemoveAdvert(a)

(* The search answers one page at a time. *)
SearchRequests ==
  (\E f \in Filters : VisitStarts(f)) \/ VisitCounts \/ VisitReads \/ VisitEnds

WishRequests(p) ==
  \E u \in users, a \in Rows : WishReads(p, u, a) \/ WishRemoved(u, a)

Next ==
  \/ \E p \in Procs :
       \/ ItemRequests(p) \/ WishRequests(p)
       \/ \E x \in Points : UpdateLooksUp(p, x)
       \/ CitySaves(p) \/ AdvertSaves(p) \/ WishSaves(p) \/ Abort(p)
  \/ SearchRequests
  \/ \E a \in Adverts : Expires(a)
  \/ \E u \in users : DeleteUser(u)

Spec == Init /\ [][Next]_vars

-----------------------------------------------------------------------------
RegionPath(r) == <<country[region[r].country], region[r].name>>
CityPath(c) == Append(RegionPath(city[c].region), city[c].name)
Split(path) == \E n \in 1..Len(path) : SubSeq(path, 1, n) \in split

PathOf(f) ==
  CASE f.kind = "all"     -> <<>>
    [] f.kind = "country" -> <<country[f.id]>>
    [] f.kind = "region"  -> RegionPath(f.id)
    [] f.kind = "city"    -> CityPath(f.id)

(* One row for a place, unless two creations looked it or what it lies in  *)
(* up at once and both found nothing: no other path of getLocation inserts *)
(* a name twice.                                                           *)
OneRowPerPlace ==
  \A f, g \in Filters :
    f.id < g.id /\ f.kind = g.kind /\ PathOf(f) = PathOf(g) => Split(PathOf(f))

(* A filter by a country, a region or a city finds exactly the active      *)
(* adverts whose point the geocoder puts there, however adverts moved and  *)
(* whoever made the rows; split places miss some but show no others.       *)
SearchIsWhole ==
  \A a \in {b \in Rows : row[b].active} :
    LET path == Path(row[a].point)
    IN \A f \in Filters :
         IF In(row[a].city, f) THEN IsPrefix(PathOf(f), path)
         ELSE IsPrefix(PathOf(f), path) => Split(PathOf(f))

(* A visitor who turns pages until the total is reached has seen every     *)
(* advert that matched from the first count to the end, unless one he had  *)
(* passed went away, or one came up between the last count and its page.   *)
PagesMissNone == visitor.op = "done" => visitor.owed = {} \/ visitor.late

(* Wishes are of living users for living adverts: one added while either   *)
(* is deleted does not survive it.                                         *)
WishesHold == \A w \in wish : w[1] \in users /\ w[2] \in Rows
=============================================================================
