--------------------------- MODULE ListingsProofs ---------------------------
(* Theorems about Listings for all adverts, users, handlers, answers of    *)
(* the geocoder and page sizes.                                            *)
EXTENDS Listings, FiniteSetTheorems, SequenceTheorems, WellFoundedInduction, TLAPS

(* Row i of the table of level n is on the path w: level 1 are the         *)
(* countries, 2 the regions, 3 the cities.                                 *)
IsCountry(co, k, w) == k \in DOMAIN co /\ co[k] = w[1]

IsRegion(co, re, r, w) ==
  r \in DOMAIN re /\ re[r].name = w[2] /\ IsCountry(co, re[r].country, w)

IsCity(co, re, ci, c, w) ==
  c \in DOMAIN ci /\ ci[c].name = w[3] /\ IsRegion(co, re, ci[c].region, w)

Is(co, re, ci, n, i, w) ==
  \/ n = 1 /\ IsCountry(co, i, w)
  \/ n = 2 /\ IsRegion(co, re, i, w)
  \/ n = 3 /\ IsCity(co, re, ci, i, w)

Words == Names \X Names \X Names

Same(n, v, w) == \A i \in 1..n : v[i] = w[i]

Torn(sp, n, w) == \E m \in 1..n : SubSeq(w, 1, m) \in sp

(* A lookup that has found f will insert a row of level n.                 *)
Lacks(n, f) == \/ n = 1 /\ f.country = 0
               \/ n = 2 /\ f.region = 0
               \/ n = 3 /\ f.city = 0

(* What a lookup has found is on its path.                                 *)
FoundOn(co, re, f, v) ==
  /\ f.country # 0 => IsCountry(co, f.country, v)
  /\ f.region # 0 => /\ f.country # 0 /\ re[f.region].country = f.country
                     /\ IsRegion(co, re, f.region, v)
  /\ f.city = 0

Inserts(m, n, w) == m.op = "city" /\ Lacks(n, m.found) /\ Same(n, Path(m.row.point), w)

Fits(m, co, re, ci) ==
  /\ m.op \in {"city", "edit", "save"} =>
       m.advert \in Adverts /\ m.row.point \in Points
  /\ m.op = "city" => FoundOn(co, re, m.found, Path(m.row.point))
  /\ m.op \in {"edit", "save"} => IsCity(co, re, ci, m.row.city, Path(m.row.point))

HandlersFit == \A p \in Procs : Fits(mem[p], country, region, city)

(* A second row for a place is only where lookups overlapped.              *)
RowsOnce == \A n \in 1..3, w \in Words : \A i, j \in Nat :
  Is(country, region, city, n, i, w) /\ Is(country, region, city, n, j, w) /\ i # j
    => Torn(split, n, w)

InsertsOnce == \A p \in Procs, n \in 1..3, w \in Words : \A i \in Nat :
  Inserts(mem[p], n, w) /\ Is(country, region, city, n, i, w) => Torn(split, n, w)

InsertsApart == \A p, q \in Procs, n \in 1..3, w \in Words :
  p # q /\ Inserts(mem[p], n, w) /\ Inserts(mem[q], n, w) => Torn(split, n, w)

RowsPlaced == \A a \in Rows : IsCity(country, region, city, row[a].city, Path(row[a].point))

(* The page turning: what is owed matches and is not yet passed, and the   *)
(* count is no less than what matches unless an advert came late.          *)
Turning(v, L, passed) ==
  v.op \in {"ask", "counted"} =>
    /\ v.page >= 1
    /\ v.owed \subseteq L \ passed
    /\ v.op = "counted" /\ ~ v.late => Cardinality(L) <= v.total
    /\ v.op = "ask" => ~ v.late

(* The adverts a filter finds and the first n of S, for any tables.        *)
Within(re, ci, c, f) ==
  \/ f.kind = "all"
  \/ f.kind = "city" /\ c = f.id
  \/ f.kind = "region" /\ ci[c].region = f.id
  \/ f.kind = "country" /\ re[ci[c].region].country = f.id

Matching(rows, re, ci, f) ==
  {a \in DOMAIN rows : rows[a].active /\ Within(re, ci, rows[a].city, f)}

Newest(S, at, n) == {a \in S : Cardinality({b \in S : at[b] >= at[a]}) <= n}

Matches == Matching(row, region, city, visitor.filter)
Passed  == Newest(Matches, createdAt, PerPage * (visitor.page - 1))
PageInv == Turning(visitor, Matches, Passed)

-----------------------------------------------------------------------------
(* The invariant, in four blocks that share few variables.                 *)

TablesTyped ==
  /\ country \in Seq(Names)
  /\ region \in Seq([name : Names, country : Nat])
  /\ city \in Seq([name : Names, region : Nat])
  /\ \A r \in DOMAIN region : region[r].country \in DOMAIN country
  /\ \A c \in DOMAIN city : city[c].region \in DOMAIN region

RowOf(cities) == [point : Points, city : 1..cities, active : BOOLEAN]

AdvertsTyped ==
  /\ Rows \subseteq DOMAIN createdAt /\ DOMAIN createdAt \subseteq Adverts
  /\ IsFiniteSet(DOMAIN createdAt)
  /\ createdAt \in [DOMAIN createdAt -> 1..Cardinality(DOMAIN createdAt)]
  /\ IsInjective(createdAt)
  /\ \A a \in Rows : row[a] \in RowOf(Len(city))

MemoryOf(countries, regions, cities) ==
  [op : {"idle", "city", "edit", "save", "wish"},
   advert : Adverts \cup {None}, user : Users \cup {None},
   row : [point : Points \cup {None}, city : 0..cities, active : BOOLEAN],
   found : [country : 0..countries, region : 0..regions, city : 0..cities]]

MemTyped == mem \in [Procs -> MemoryOf(Len(country), Len(region), Len(city))]

TablesInv   == TablesTyped /\ AdvertsTyped /\ RowsPlaced /\ RowsOnce
HandlersInv == MemTyped /\ HandlersFit /\ InsertsOnce /\ InsertsApart
VisitorInv  == visitor \in Visitor /\ PageInv /\ PagesMissNone
WishesInv   == users \subseteq Users /\ WishesHold

ListInv == TablesInv /\ HandlersInv /\ VisitorInv /\ WishesInv

LEMMA TypesHold == ListInv => TypeOK
BY DEF ListInv, TablesInv, HandlersInv, VisitorInv, WishesInv, TablesTyped, AdvertsTyped,
       RowOf, MemTyped, MemoryOf, TypeOK, Row, Found

LEMMA TablesKept ==
  ASSUME TablesInv, UNCHANGED <<country, region, city, row, createdAt, split>>
  PROVE  TablesInv'
BY DEF TablesInv, TablesTyped, AdvertsTyped, RowsPlaced, RowsOnce, Rows

LEMMA HandlersKept ==
  ASSUME HandlersInv, UNCHANGED <<country, region, city, mem, split>>
  PROVE  HandlersInv'
BY DEF HandlersInv, MemTyped, HandlersFit, InsertsOnce, InsertsApart

LEMMA VisitorKept ==
  ASSUME VisitorInv, UNCHANGED <<country, region, city, row, createdAt, visitor>>
  PROVE  VisitorInv'
BY DEF VisitorInv, Visitor, Filters, PageInv, PagesMissNone, Matches, Passed

LEMMA ListedMatches ==
  ASSUME NEW rows, NEW f
  PROVE  Listed(rows, f) = Matching(rows, region, city, f)
BY DEF Listed, Matching, In, Within

LEMMA FirstIsNewest ==
  ASSUME NEW S, NEW n
  PROVE  FirstOf(S, n) = Newest(S, createdAt, n)
BY DEF FirstOf, Newest

LEMMA WishesKept ==
  ASSUME WishesInv, UNCHANGED <<users, wish, row>>
  PROVE  WishesInv'
BY DEF WishesInv, WishesHold, Rows

-----------------------------------------------------------------------------
(* Paths.                                                                  *)

LEMMA PathsAreWords == \A x \in Points : Path(x) \in Words
BY DEF Path, Words, Names

LEMMA SameStart ==
  ASSUME NEW v \in Words, NEW w \in Words, NEW n \in 1..3, Same(n, v, w)
  PROVE  SubSeq(v, 1, n) = SubSeq(w, 1, n)
<1>1. ASSUME NEW u \in Words PROVE u \in Seq(Names) /\ Len(u) = 3
  <2>1. PICK a \in Names, b \in Names, c \in Names : u = <<a, b, c>> BY DEF Words
  <2> QED BY <2>1
<1>2. \A i \in 1..n : v[i] = w[i] BY DEF Same
<1>3. ASSUME NEW u \in Words
      PROVE  /\ SubSeq(u, 1, n) \in Seq(Names) /\ Len(SubSeq(u, 1, n)) = n
             /\ \A i \in 1..n : SubSeq(u, 1, n)[i] = u[i]
  <2>1. 1 \in Int /\ n \in Int /\ \A i \in 1..n : u[i] \in Names BY <1>1
  <2>2. /\ SubSeq(u, 1, n) \in Seq(Names)
        /\ Len(SubSeq(u, 1, n)) = IF 1 <= n THEN n - 1 + 1 ELSE 0
        /\ \A i \in 1..n - 1 + 1 : SubSeq(u, 1, n)[i] = u[1 + i - 1]
    BY <2>1, SubSeqProperties
  <2> QED BY <2>2
<1>4. \A i \in 1..n : SubSeq(v, 1, n)[i] = SubSeq(w, 1, n)[i] BY <1>2, <1>3
<1> HIDE DEF Words
<1> QED BY <1>3, <1>4, SeqEqual

LEMMA MissedStart ==
  ASSUME NEW v, NEW f, NEW n \in 1..3, Lacks(n, f)
  PROVE  SubSeq(v, 1, n) \in Missed(v, f)
BY DEF Lacks, Missed

LEMMA TornStays ==
  ASSUME NEW sp, NEW sq, sp \subseteq sq, NEW n, NEW w, Torn(sp, n, w)
  PROVE  Torn(sq, n, w)
BY DEF Torn

LEMMA TornLower ==
  ASSUME NEW sp, NEW m \in 1..3, NEW n \in 1..3, m <= n, NEW w, Torn(sp, m, w)
  PROVE  Torn(sp, n, w)
BY DEF Torn

-----------------------------------------------------------------------------
(* A step that only moves a handler, and not to an insert.                 *)
LEMMA MovesOnly ==
  ASSUME HandlersInv, NEW p \in Procs,
         NEW m \in MemoryOf(Len(country), Len(region), Len(city)),
         mem' = [mem EXCEPT ![p] = m], m.op # "city", Fits(m, country, region, city),
         UNCHANGED <<country, region, city, split>>
  PROVE  HandlersInv'
<1>1. \A q \in Procs : mem'[q] = IF q = p THEN m ELSE mem[q] BY DEF HandlersInv, MemTyped
<1>2. MemTyped' BY DEF HandlersInv, MemTyped
<1>3. HandlersFit' BY <1>1 DEF HandlersInv, HandlersFit
<1>4. InsertsOnce' /\ InsertsApart'
  BY <1>1 DEF HandlersInv, InsertsOnce, InsertsApart, Inserts
<1> QED BY <1>2, <1>3, <1>4 DEF HandlersInv

LEMMA IdleFits ==
  ASSUME TablesTyped
  PROVE  /\ Idle \in MemoryOf(Len(country), Len(region), Len(city)) /\ Idle.op = "idle"
         /\ Fits(Idle, country, region, city)
<1>1. Len(country) \in Nat /\ Len(region) \in Nat /\ Len(city) \in Nat BY DEF TablesTyped
<1>2. Absent \in [point : Points \cup {None}, city : 0..Len(city), active : BOOLEAN]
  BY <1>1 DEF Absent
<1>3. Nothing \in [country : 0..Len(country), region : 0..Len(region), city : 0..Len(city)]
  BY <1>1 DEF Nothing
<1> QED BY <1>2, <1>3 DEF Idle, MemoryOf, Fits

LEMMA AbortStep ==
  ASSUME ListInv, NEW p \in Procs, Abort(p)
  PROVE  ListInv'
<1>1. UNCHANGED <<country, region, city, row, createdAt, users, wish, visitor, split>>
      /\ mem' = [mem EXCEPT ![p] = Idle]
  BY DEF Abort, Goes, places
<1>2. HandlersInv' BY <1>1, IdleFits, MovesOnly DEF ListInv, TablesInv
<1> QED BY <1>1, <1>2, TablesKept, VisitorKept, WishesKept DEF ListInv

LEMMA UpdateReadsStep ==
  ASSUME ListInv, NEW p \in Procs, NEW a \in Rows, NEW active \in BOOLEAN,
         UpdateReads(p, a, active)
  PROVE  ListInv'
<1> DEFINE r == [row[a] EXCEPT !.active = active]
<1> DEFINE m == [Idle EXCEPT !.op = "edit", !.advert = a, !.row = r]
<1>1. UNCHANGED <<country, region, city, row, createdAt, users, wish, visitor, split>>
      /\ mem' = [mem EXCEPT ![p] = m]
  BY DEF UpdateReads, Goes, places
<1>2. a \in Adverts /\ row[a] \in RowOf(Len(city)) /\ Len(city) \in Nat
      /\ IsCity(country, region, city, row[a].city, Path(row[a].point))
  BY DEF ListInv, TablesInv, TablesTyped, AdvertsTyped, RowsPlaced
<1>3. r \in [point : Points \cup {None}, city : 0..Len(city), active : BOOLEAN]
      /\ r.point \in Points /\ r.city = row[a].city /\ r.point = row[a].point
  BY <1>2 DEF RowOf
<1> HIDE DEF r
<1>4. Idle \in MemoryOf(Len(country), Len(region), Len(city))
  BY IdleFits DEF ListInv, TablesInv
<1>5. m \in MemoryOf(Len(country), Len(region), Len(city)) /\ m.op = "edit" /\ m.advert = a
      /\ m.row = r
  BY <1>2, <1>3, <1>4 DEF MemoryOf
<1> HIDE DEF m
<1>6. Fits(m, country, region, city) BY <1>2, <1>3, <1>5 DEF Fits
<1>7. HandlersInv' BY <1>1, <1>5, <1>6, MovesOnly DEF ListInv
<1> QED BY <1>1, <1>7, TablesKept, VisitorKept, WishesKept DEF ListInv

-----------------------------------------------------------------------------
(* Wishes.                                                                 *)

LEMMA WishReadsStep ==
  ASSUME ListInv, NEW p \in Procs, NEW u \in users, NEW a \in Rows, WishReads(p, u, a)
  PROVE  ListInv'
<1> DEFINE m == [Idle EXCEPT !.op = "wish", !.advert = a, !.user = u]
<1>1. UNCHANGED <<country, region, city, row, createdAt, users, wish, visitor, split>>
      /\ mem' = [mem EXCEPT ![p] = m]
  BY DEF WishReads, Goes, places
<1>2. a \in Adverts /\ u \in Users
  BY DEF ListInv, TablesInv, AdvertsTyped, WishesInv
<1>3. Idle \in MemoryOf(Len(country), Len(region), Len(city))
  BY IdleFits DEF ListInv, TablesInv
<1>4. m \in MemoryOf(Len(country), Len(region), Len(city)) /\ m.op = "wish"
  BY <1>2, <1>3 DEF MemoryOf
<1> HIDE DEF m
<1>5. Fits(m, country, region, city) BY <1>4 DEF Fits
<1>6. HandlersInv' BY <1>1, <1>4, <1>5, MovesOnly DEF ListInv
<1> QED BY <1>1, <1>6, TablesKept, VisitorKept, WishesKept DEF ListInv

LEMMA WishSavesStep ==
  ASSUME ListInv, NEW p \in Procs, WishSaves(p)
  PROVE  ListInv'
<1>1. UNCHANGED <<country, region, city, row, createdAt, users, visitor, split>>
      /\ mem' = [mem EXCEPT ![p] = Idle]
      /\ mem[p].user \in users /\ mem[p].advert \in Rows
      /\ wish' = wish \cup {<<mem[p].user, mem[p].advert>>}
  BY DEF WishSaves, Goes, places
<1>2. HandlersInv' BY <1>1, IdleFits, MovesOnly DEF ListInv, TablesInv
<1>3. WishesInv' BY <1>1 DEF ListInv, WishesInv, WishesHold, Rows
<1> QED BY <1>1, <1>2, <1>3, TablesKept, VisitorKept DEF ListInv

LEMMA WishGoesStep ==
  ASSUME ListInv, NEW u, (\E a \in Rows : WishRemoved(u, a)) \/ DeleteUser(u)
  PROVE  ListInv'
<1>1. UNCHANGED <<country, region, city, row, createdAt, mem, visitor, split>>
  BY DEF WishRemoved, DeleteUser, places
<1>2. WishesInv'
  BY <1>1 DEF WishRemoved, DeleteUser, ListInv, WishesInv, WishesHold, Rows
<1> QED BY <1>1, <1>2, TablesKept, HandlersKept, VisitorKept DEF ListInv

-----------------------------------------------------------------------------
(* getLocation.                                                            *)

LEMMA RowsOfSeq ==
  ASSUME NEW S, NEW s \in Seq(S)
  PROVE  /\ Len(s) \in Nat /\ DOMAIN s = 1..Len(s)
         /\ \A j \in DOMAIN s : j \in Nat \ {0} /\ s[j] \in S
OBVIOUS

LEMMA TableRows ==
  ASSUME TablesTyped
  PROVE  /\ \A j \in DOMAIN country : j \in Nat \ {0} /\ country[j] \in Names
         /\ \A j \in DOMAIN region : j \in Nat \ {0} /\ region[j] \in [name : Names, country : Nat]
         /\ \A j \in DOMAIN city : j \in Nat \ {0} /\ city[j] \in [name : Names, region : Nat]
<1>1. /\ country \in Seq(Names)
      /\ region \in Seq([name : Names, country : Nat])
      /\ city \in Seq([name : Names, region : Nat])
  BY DEF TablesTyped
<1> DEFINE R == [name : Names, country : Nat]
<1> DEFINE C == [name : Names, region : Nat]
<1>2. \A j \in DOMAIN country : j \in Nat \ {0} /\ country[j] \in Names BY <1>1, RowsOfSeq
<1>3. \A j \in DOMAIN region : j \in Nat \ {0} /\ region[j] \in R
  <2>1. region \in Seq(R) BY <1>1
  <2> HIDE DEF R
  <2> QED BY <2>1, RowsOfSeq
<1>4. \A j \in DOMAIN city : j \in Nat \ {0} /\ city[j] \in C
  <2>1. city \in Seq(C) BY <1>1
  <2> HIDE DEF C
  <2> QED BY <2>1, RowsOfSeq
<1> QED BY <1>2, <1>3, <1>4

(* What a lookup misses of its path is nowhere, unless the path is split.  *)
LEMMA MissesAll ==
  ASSUME TablesTyped, RowsOnce, NEW v \in Words,
         NEW k \in Countries(v), NEW r \in Regions(v, k), NEW c \in Cities(v, r),
         NEW n \in 1..3, NEW w \in Words, Same(n, v, w), NEW i \in Nat,
         Is(country, region, city, n, i, w),
         Lacks(n, [country |-> k, region |-> r, city |-> c])
  PROVE  Torn(split, n, w)
<1>0. /\ \A j \in DOMAIN country : j \in Nat \ {0}
      /\ \A j \in DOMAIN region : j \in Nat \ {0} /\ region[j] \in [name : Names, country : Nat]
      /\ \A j \in DOMAIN city : j \in Nat \ {0} /\ city[j] \in [name : Names, region : Nat]
      /\ \A j \in DOMAIN region : region[j].country \in DOMAIN country
      /\ \A j \in DOMAIN city : city[j].region \in DOMAIN region
  BY TableRows DEF TablesTyped
<1>1. IF \E j \in DOMAIN country : country[j] = v[1]
      THEN k \in DOMAIN country /\ country[k] = v[1] ELSE k = 0
  BY DEF Countries, OrNone
<1>2. IF \E j \in DOMAIN region : region[j] = [name |-> v[2], country |-> k]
      THEN r \in DOMAIN region /\ region[r] = [name |-> v[2], country |-> k] ELSE r = 0
  BY DEF Regions, OrNone
<1>3. IF \E j \in DOMAIN city : city[j] = [name |-> v[3], region |-> r]
      THEN c \in DOMAIN city /\ city[c] = [name |-> v[3], region |-> r] ELSE c = 0
  BY DEF Cities, OrNone
<1>4. v[1] = w[1] /\ (n >= 2 => v[2] = w[2]) /\ (n = 3 => v[3] = w[3]) BY DEF Same
<1>5. ASSUME NEW j \in DOMAIN country, country[j] = w[1], j # k PROVE Torn(split, n, w)
  <2>1. Is(country, region, city, 1, j, w) /\ Is(country, region, city, 1, k, w)
        /\ j \in Nat /\ k \in Nat
    BY <1>0, <1>1, <1>4, <1>5 DEF Is, IsCountry
  <2>2. Torn(split, 1, w) BY <1>5, <2>1 DEF RowsOnce
  <2> QED BY <2>2, TornLower
<1>6. ASSUME NEW j \in DOMAIN region, region[j].name = w[2],
             region[j].country \in DOMAIN country, country[region[j].country] = w[1],
             n >= 2, j # r
      PROVE  Torn(split, n, w)
  <2>1. CASE region[j].country # k BY <1>5, <1>6, <2>1
  <2>2. CASE region[j].country = k
    <3>1. region[j] = [name |-> v[2], country |-> k] BY <1>0, <1>4, <1>6, <2>2
    <3>2. r \in DOMAIN region /\ region[r] = [name |-> v[2], country |-> k] BY <1>2, <3>1
    <3>3. region[r].name = w[2] /\ region[r].country = k BY <1>4, <1>6, <3>2
    <3>4. Is(country, region, city, 2, j, w) /\ Is(country, region, city, 2, r, w)
          /\ j \in Nat /\ r \in Nat
      BY <1>0, <1>6, <2>2, <3>2, <3>3 DEF Is, IsRegion, IsCountry
    <3>5. Torn(split, 2, w) BY <1>6, <3>4 DEF RowsOnce
    <3> QED BY <1>6, <3>5, TornLower
  <2> QED BY <2>1, <2>2
<1>7. CASE n = 1
  <2>1. i \in DOMAIN country /\ country[i] = w[1] BY <1>7 DEF Is, IsCountry
  <2>2. k = 0 BY <1>7 DEF Lacks
  <2> QED BY <1>0, <1>5, <2>1, <2>2
<1>8. CASE n = 2
  <2>1. /\ i \in DOMAIN region /\ region[i].name = w[2]
        /\ region[i].country \in DOMAIN country /\ country[region[i].country] = w[1]
    BY <1>8 DEF Is, IsRegion, IsCountry
  <2>2. r = 0 BY <1>8 DEF Lacks
  <2> QED BY <1>0, <1>6, <1>8, <2>1, <2>2
<1>9. CASE n = 3
  <2> DEFINE j == city[i].region
  <2>1. /\ i \in DOMAIN city /\ city[i].name = w[3]
        /\ j \in DOMAIN region /\ region[j].name = w[2]
        /\ region[j].country \in DOMAIN country /\ country[region[j].country] = w[1]
    BY <1>9 DEF Is, IsCity, IsRegion, IsCountry
  <2>2. c = 0 BY <1>9 DEF Lacks
  <2>3. CASE j # r BY <1>6, <1>9, <2>1, <2>3
  <2>4. CASE j = r
    <3>1. city[i] = [name |-> v[3], region |-> r] BY <1>0, <1>4, <1>9, <2>1, <2>4
    <3> QED BY <1>0, <1>3, <2>1, <2>2, <3>1
  <2> QED BY <2>3, <2>4
<1> QED BY <1>7, <1>8, <1>9

(* And what it finds is on its path.                                       *)
LEMMA FindsPath ==
  ASSUME TablesTyped, NEW v,
         NEW k \in Countries(v), NEW r \in Regions(v, k), NEW c \in Cities(v, r)
  PROVE  /\ k \in 0..Len(country) /\ r \in 0..Len(region) /\ c \in 0..Len(city)
         /\ c = 0 => FoundOn(country, region, [country |-> k, region |-> r, city |-> c], v)
         /\ c # 0 => IsCity(country, region, city, c, v)
<1>0. /\ DOMAIN country = 1..Len(country) /\ DOMAIN region = 1..Len(region)
      /\ DOMAIN city = 1..Len(city)
      /\ Len(country) \in Nat /\ Len(region) \in Nat /\ Len(city) \in Nat
      /\ \A j \in DOMAIN region : region[j].country \in DOMAIN country
      /\ \A j \in DOMAIN city : city[j].region \in DOMAIN region
  BY DEF TablesTyped
<1>1. k = 0 \/ (k \in DOMAIN country /\ country[k] = v[1]) BY DEF Countries, OrNone
<1>2. r = 0 \/ (r \in DOMAIN region /\ region[r] = [name |-> v[2], country |-> k])
  BY DEF Regions, OrNone
<1>3. c = 0 \/ (c \in DOMAIN city /\ city[c] = [name |-> v[3], region |-> r])
  BY DEF Cities, OrNone
<1>4. k # 0 => IsCountry(country, k, v) BY <1>1 DEF IsCountry
<1>5. r # 0 => k # 0 /\ region[r].country = k /\ IsRegion(country, region, r, v)
  <2> SUFFICES ASSUME r # 0
               PROVE  k # 0 /\ region[r].country = k /\ IsRegion(country, region, r, v)
    OBVIOUS
  <2>1. r \in DOMAIN region /\ region[r] = [name |-> v[2], country |-> k] BY <1>2
  <2>2. region[r].name = v[2] /\ region[r].country = k BY <2>1
  <2>3. k # 0 BY <1>0, <2>1, <2>2
  <2> QED BY <1>4, <2>1, <2>2, <2>3 DEF IsRegion
<1>6. c # 0 => IsCity(country, region, city, c, v)
  <2> SUFFICES ASSUME c # 0 PROVE IsCity(country, region, city, c, v) OBVIOUS
  <2>1. c \in DOMAIN city /\ city[c] = [name |-> v[3], region |-> r] BY <1>3
  <2>2. city[c].name = v[3] /\ city[c].region = r BY <2>1
  <2>3. r # 0 BY <1>0, <2>1, <2>2
  <2> QED BY <1>5, <2>1, <2>2, <2>3 DEF IsCity
<1>7. k \in 0..Len(country) /\ r \in 0..Len(region) /\ c \in 0..Len(city)
  BY <1>0, <1>1, <1>2, <1>3
<1> QED BY <1>4, <1>5, <1>6, <1>7 DEF FoundOn

(* A lookup: what it and another both miss is split from now on.           *)
LEMMA LooksUpStep ==
  ASSUME ListInv, NEW p \in Procs, NEW a \in Adverts, NEW x \in Points, NEW active \in BOOLEAN,
         LooksUp(p, a, x, active), UNCHANGED <<places, row, createdAt, users, wish, visitor>>
  PROVE  ListInv'
<1> DEFINE v == Path(x)
<1>0. UNCHANGED <<country, region, city, row, createdAt, users, wish, visitor>> BY DEF places
<1> DEFINE Of(k, r, c) == [country |-> k, region |-> r, city |-> c]
<1> DEFINE Finds(k, r, c) ==
        /\ Goes(p, [Idle EXCEPT !.op = NextOp(Of(k, r, c)), !.advert = a,
                      !.found = IF NextOp(Of(k, r, c)) = "city" THEN Of(k, r, c)
                                ELSE Nothing,
                      !.row = [point |-> x, city |-> c, active |-> active]])
        /\ split' = split \cup (Missed(v, Of(k, r, c)) \cap
               UNION {Missed(Path(mem[q].row.point), mem[q].found)
                        : q \in {q \in Procs \ {p} : At(q, "city")}})
<1>a. PICK k \in Countries(v) : \E r \in Regions(v, k) : \E c \in Cities(v, r) : Finds(k, r, c)
  BY DEF LooksUp
<1>b. PICK r \in Regions(v, k) : \E c \in Cities(v, r) : Finds(k, r, c)
  BY <1>a
<1>1. PICK c \in Cities(v, r) : Finds(k, r, c)
  BY <1>b
<1>2. v \in Words BY PathsAreWords
<1> DEFINE f == [country |-> k, region |-> r, city |-> c]
<1> DEFINE new == [point |-> x, city |-> c, active |-> active]
<1> DEFINE g == IF NextOp(f) = "city" THEN f ELSE Nothing
<1> DEFINE m == [Idle EXCEPT !.op = NextOp(f), !.advert = a, !.found = g, !.row = new]
<1>3. TablesTyped /\ RowsOnce /\ HandlersInv BY DEF ListInv, TablesInv
<1>4. /\ k \in 0..Len(country) /\ r \in 0..Len(region) /\ c \in 0..Len(city)
      /\ c = 0 => FoundOn(country, region, f, v)
      /\ c # 0 => IsCity(country, region, city, c, v)
  BY <1>3, FindsPath
<1>5. NextOp(f) = IF c = 0 THEN "city" ELSE "save" BY DEF NextOp
<1>6. Idle \in MemoryOf(Len(country), Len(region), Len(city)) BY <1>3, IdleFits
<1>7. f \in [country : 0..Len(country), region : 0..Len(region), city : 0..Len(city)]
  BY <1>4
<1>8. g \in [country : 0..Len(country), region : 0..Len(region), city : 0..Len(city)]
      /\ (c = 0 => g = f)
  BY <1>4, <1>5, <1>6, <1>7 DEF Idle, MemoryOf
<1>9. new \in [point : Points \cup {None}, city : 0..Len(city), active : BOOLEAN]
      /\ new.point = x /\ new.city = c
  BY <1>4
<1>10. mem' = [mem EXCEPT ![p] = m] BY <1>1 DEF Goes
<1>11. split \subseteq split'
       /\ \A q \in Procs \ {p} : mem[q].op = "city" =>
            Missed(v, f) \cap Missed(Path(mem[q].row.point), mem[q].found) \subseteq split'
  BY <1>1 DEF At
<1>12. \A n \in 1..3, w \in Words, i \in Nat :
         Same(n, v, w) /\ Is(country, region, city, n, i, w) /\ Lacks(n, f) => Torn(split, n, w)
  BY <1>2, <1>3, MissesAll
<1> HIDE DEF new, g, f, v
<1>13. m \in MemoryOf(Len(country), Len(region), Len(city))
       /\ m.op = NextOp(f) /\ m.advert = a /\ m.found = g /\ m.row = new
  BY <1>5, <1>6, <1>8, <1>9 DEF MemoryOf
<1> HIDE DEF m
<1>14. Fits(m, country, region, city)
  BY <1>4, <1>5, <1>8, <1>9, <1>13 DEF Fits, v
<1>15. mem \in [Procs -> MemoryOf(Len(country), Len(region), Len(city))]
  BY <1>3 DEF HandlersInv, MemTyped
<1>16. \A q \in Procs : mem'[q] = IF q = p THEN m ELSE mem[q] BY <1>10, <1>15
<1>17. MemTyped' BY <1>0, <1>10, <1>13, <1>15 DEF MemTyped
<1>18. HandlersFit' BY <1>0, <1>3, <1>14, <1>16 DEF HandlersInv, HandlersFit
<1>19. ASSUME NEW n \in 1..3, NEW w, Torn(split, n, w) PROVE Torn(split', n, w)
  BY <1>11, <1>19, TornStays
<1>20. ASSUME NEW n \in 1..3, NEW w \in Words, Inserts(m, n, w)
       PROVE  Lacks(n, f) /\ Same(n, v, w)
  BY <1>5, <1>8, <1>9, <1>13, <1>20 DEF Inserts, v
<1>21. InsertsOnce'
  <2> SUFFICES ASSUME NEW q \in Procs, NEW n \in 1..3, NEW w \in Words, NEW i \in Nat,
                      Inserts(mem'[q], n, w), Is(country, region, city, n, i, w)
               PROVE  Torn(split', n, w)
    BY <1>0 DEF InsertsOnce
  <2>1. CASE q = p BY <1>12, <1>16, <1>19, <1>20, <2>1
  <2>2. CASE q # p BY <1>3, <1>16, <1>19, <2>2 DEF HandlersInv, InsertsOnce
  <2> QED BY <2>1, <2>2
<1>22. ASSUME NEW q \in Procs \ {p}, NEW n \in 1..3, NEW w \in Words,
              Inserts(m, n, w), Inserts(mem[q], n, w)
       PROVE  Torn(split', n, w)
  <2> DEFINE y == mem[q].row.point
  <2>1. Lacks(n, f) /\ Same(n, v, w) BY <1>20, <1>22
  <2>2. mem[q].op = "city" /\ Lacks(n, mem[q].found) /\ Same(n, Path(y), w)
    BY <1>22 DEF Inserts
  <2>3. y \in Points BY <1>3, <2>2 DEF HandlersInv, HandlersFit, Fits
  <2>4. Path(y) \in Words BY <2>3, PathsAreWords
  <2>5. SubSeq(v, 1, n) = SubSeq(w, 1, n) /\ SubSeq(Path(y), 1, n) = SubSeq(w, 1, n)
    BY <1>2, <2>1, <2>2, <2>4, SameStart
  <2>6. SubSeq(v, 1, n) \in Missed(v, f) /\ SubSeq(Path(y), 1, n) \in Missed(Path(y), mem[q].found)
    BY <2>1, <2>2, MissedStart
  <2>7. SubSeq(w, 1, n) \in split' BY <1>11, <2>2, <2>5, <2>6
  <2>8. n \in 1..n OBVIOUS
  <2> QED BY <2>7, <2>8 DEF Torn
<1>23. InsertsApart'
  <2> SUFFICES ASSUME NEW q \in Procs, NEW s \in Procs, NEW n \in 1..3, NEW w \in Words,
                      q # s, Inserts(mem'[q], n, w), Inserts(mem'[s], n, w)
               PROVE  Torn(split', n, w)
    BY DEF InsertsApart
  <2>1. CASE q = p BY <1>16, <1>22, <2>1
  <2>2. CASE s = p BY <1>16, <1>22, <2>2
  <2>3. CASE q # p /\ s # p BY <1>3, <1>16, <1>19, <2>3 DEF HandlersInv, InsertsApart
  <2> QED BY <2>1, <2>2, <2>3
<1>24. RowsOnce' BY <1>0, <1>3, <1>19 DEF RowsOnce
<1>25. TablesInv'
  BY <1>0, <1>24 DEF ListInv, TablesInv, TablesTyped, AdvertsTyped, RowsPlaced, Rows
<1>26. HandlersInv' BY <1>17, <1>18, <1>21, <1>23 DEF HandlersInv
<1> QED BY <1>0, <1>25, <1>26, VisitorKept, WishesKept DEF ListInv

LEMMA CreateStep ==
  ASSUME ListInv, NEW p \in Procs, NEW a \in Adverts, NEW x \in Points, NEW active \in BOOLEAN,
         CreateLooksUp(p, a, x, active)
  PROVE  ListInv'
BY LooksUpStep DEF CreateLooksUp

LEMMA UpdateStep ==
  ASSUME ListInv, NEW p \in Procs, NEW x \in Points, UpdateLooksUp(p, x)
  PROVE  ListInv'
<1>1. mem[p].op = "edit" BY DEF UpdateLooksUp, At
<1>2. mem[p].advert \in Adverts BY <1>1 DEF ListInv, HandlersInv, HandlersFit, Fits
<1>3. mem[p].row.active \in BOOLEAN BY DEF ListInv, HandlersInv, MemTyped, MemoryOf
<1> QED BY <1>2, <1>3, LooksUpStep DEF UpdateLooksUp

-----------------------------------------------------------------------------
(* The insert of a city, with what it hangs from.                          *)

LEMMA AppendRows ==
  ASSUME NEW S, NEW s \in Seq(S), NEW e \in S
  PROVE  /\ Append(s, e) \in Seq(S) /\ Len(Append(s, e)) = Len(s) + 1
         /\ DOMAIN Append(s, e) = DOMAIN s \cup {Len(s) + 1}
         /\ Append(s, e)[Len(s) + 1] = e
         /\ \A j \in DOMAIN s : Append(s, e)[j] = s[j]
OBVIOUS

(* A table that has got what was missing.                                  *)
LEMMA CascadeRows ==
  ASSUME NEW S, NEW s \in Seq(S), NEW e \in S, NEW i \in 0..Len(s),
         NEW t, t = IF i = 0 THEN Append(s, e) ELSE s,
         NEW k, k = IF i = 0 THEN Len(s) + 1 ELSE i
  PROVE  /\ t \in Seq(S) /\ Len(t) \in {Len(s), Len(s) + 1}
         /\ k \in DOMAIN t /\ k \in Nat /\ (i = 0 => t[k] = e)
         /\ DOMAIN t = DOMAIN s \cup {k}
         /\ \A j \in DOMAIN s : t[j] = s[j]
         /\ i # 0 => k = i /\ k \in DOMAIN s
<1>1. Len(s) \in Nat /\ DOMAIN s = 1..Len(s) BY RowsOfSeq
<1>2. CASE i = 0
  <2>1. t = Append(s, e) /\ k = Len(s) + 1 BY <1>2
  <2> QED BY <1>1, <1>2, <2>1, AppendRows
<1>3. CASE i # 0
  <2>1. t = s /\ k = i /\ i \in DOMAIN s BY <1>1, <1>3
  <2> QED BY <1>1, <1>3, <2>1
<1> QED BY <1>2, <1>3

(* What was there is still there; the new rows are on the handler's path,  *)
(* one on each level it lacked.                                            *)
LEMMA PathAppears ==
  ASSUME TablesTyped, HandlersInv, NEW p \in Procs, CitySaves(p)
  PROVE  LET v == Path(mem[p].row.point)
             f == mem[p].found
         IN /\ TablesTyped'
            /\ Len(country) <= Len(country') /\ Len(region) <= Len(region')
            /\ Len(city') = Len(city) + 1
            /\ IsCity(country', region', city', Len(city) + 1, v)
            /\ \A j \in DOMAIN country : j \in DOMAIN country' /\ country'[j] = country[j]
            /\ \A j \in DOMAIN region : j \in DOMAIN region' /\ region'[j] = region[j]
            /\ \A j \in DOMAIN city : j \in DOMAIN city' /\ city'[j] = city[j]
            /\ \E new \in [1..3 -> Nat] : \A n \in 1..3, i \in Nat : \A w :
                 Is(country', region', city', n, i, w) =>
                   \/ Is(country, region, city, n, i, w)
                   \/ Lacks(n, f) /\ Same(n, v, w) /\ i = new[n]
<1> DEFINE x == mem[p].row.point
<1> DEFINE v == Path(x)
<1> DEFINE f == mem[p].found
<1> DEFINE k == IF f.country = 0 THEN Len(country) + 1 ELSE f.country
<1> DEFINE r == IF f.region = 0 THEN Len(region) + 1 ELSE f.region
<1> DEFINE c == Len(city) + 1
<1> DEFINE R == [name : Names, country : Nat]
<1> DEFINE C == [name : Names, region : Nat]
<1> DEFINE newRegion == [name |-> v[2], country |-> k]
<1> DEFINE newCity == [name |-> v[3], region |-> r]
<1>1. /\ mem[p].op = "city"
      /\ country' = IF f.country = 0 THEN Append(country, v[1]) ELSE country
      /\ region' = IF f.region = 0 THEN Append(region, newRegion) ELSE region
      /\ city' = Append(city, newCity)
  BY DEF CitySaves, At, Cascades
<1>2. x \in Points /\ FoundOn(country, region, f, v)
  BY <1>1 DEF HandlersInv, HandlersFit, Fits
<1>3. v[1] \in Names /\ v[2] \in Names /\ v[3] \in Names
  <2>1. v \in Words BY <1>2, PathsAreWords
  <2> HIDE DEF v
  <2> QED BY <2>1 DEF Words
<1>4. /\ f.country \in 0..Len(country) /\ f.region \in 0..Len(region)
  BY DEF HandlersInv, MemTyped, MemoryOf
<1>5. country \in Seq(Names) /\ region \in Seq(R) /\ city \in Seq(C)
      /\ (\A j \in DOMAIN region : region[j].country \in DOMAIN country)
      /\ (\A j \in DOMAIN city : city[j].region \in DOMAIN region)
  BY DEF TablesTyped
<1>6. Len(country) \in Nat /\ Len(region) \in Nat /\ Len(city) \in Nat
  BY <1>5
<1>7. k \in Nat /\ r \in Nat /\ c \in Nat BY <1>4, <1>6
<1>8. newRegion \in R /\ newCity \in C
      /\ newRegion.name = v[2] /\ newRegion.country = k
      /\ newCity.name = v[3] /\ newCity.region = r
  BY <1>3, <1>7
<1>9. /\ f.country # 0 => IsCountry(country, f.country, v)
      /\ f.region # 0 => /\ f.country # 0 /\ region[f.region].country = f.country
                         /\ IsRegion(country, region, f.region, v)
      /\ f.city = 0
  BY <1>2 DEF FoundOn
<1>9a. k = IF f.country = 0 THEN Len(country) + 1 ELSE f.country OBVIOUS
<1>9b. r = IF f.region = 0 THEN Len(region) + 1 ELSE f.region OBVIOUS
<1>9c. c = Len(city) + 1 OBVIOUS
<1> HIDE DEF v, f, R, C, newRegion, newCity, x, k, r, c
<1>10. /\ country' \in Seq(Names) /\ Len(country') \in {Len(country), Len(country) + 1}
       /\ k \in DOMAIN country' /\ (f.country = 0 => country'[k] = v[1])
       /\ DOMAIN country' = DOMAIN country \cup {k}
       /\ \A j \in DOMAIN country : country'[j] = country[j]
       /\ f.country # 0 => k = f.country /\ k \in DOMAIN country
  BY <1>1, <1>3, <1>4, <1>5, <1>9a, CascadeRows
<1>11. /\ region' \in Seq(R) /\ Len(region') \in {Len(region), Len(region) + 1}
       /\ r \in DOMAIN region' /\ (f.region = 0 => region'[r] = newRegion)
       /\ DOMAIN region' = DOMAIN region \cup {r}
       /\ \A j \in DOMAIN region : region'[j] = region[j]
       /\ f.region # 0 => r = f.region /\ r \in DOMAIN region
  BY <1>1, <1>4, <1>5, <1>8, <1>9b, CascadeRows
<1>12. /\ city' \in Seq(C) /\ Len(city') = c
       /\ DOMAIN city' = DOMAIN city \cup {c} /\ city'[c] = newCity
       /\ \A j \in DOMAIN city : city'[j] = city[j]
  BY <1>1, <1>5, <1>8, <1>9c, AppendRows
<1>13. country'[k] = v[1]
  <2>1. CASE f.country = 0 BY <1>10, <2>1
  <2>2. CASE f.country # 0 BY <1>9, <1>10, <2>2 DEF IsCountry
  <2> QED BY <2>1, <2>2
<1>14. region'[r].name = v[2] /\ region'[r].country = k
  <2>1. CASE f.region = 0 BY <1>8, <1>11, <2>1
  <2>2. CASE f.region # 0 BY <1>9, <1>10, <1>11, <2>2 DEF IsRegion
  <2> QED BY <2>1, <2>2
<1>15. IsRegion(country', region', r, v) BY <1>10, <1>11, <1>13, <1>14 DEF IsRegion, IsCountry
<1>16. IsCity(country', region', city', c, v) BY <1>8, <1>12, <1>15 DEF IsCity
<1>17. TablesTyped'
  <2>1. \A j \in DOMAIN region' : region'[j].country \in DOMAIN country'
    BY <1>5, <1>10, <1>11, <1>14
  <2>2. \A j \in DOMAIN city' : city'[j].region \in DOMAIN region'
    BY <1>5, <1>8, <1>11, <1>12
  <2> QED BY <1>10, <1>11, <1>12, <2>1, <2>2 DEF TablesTyped, R, C
<1> DEFINE new == [n \in 1..3 |-> IF n = 1 THEN k ELSE IF n = 2 THEN r ELSE c]
<1>18. new \in [1..3 -> Nat] /\ new[1] = k /\ new[2] = r /\ new[3] = c BY <1>7
<1> HIDE DEF new
<1>19. ASSUME NEW j, NEW w, IsCountry(country', j, w)
       PROVE  IsCountry(country, j, w) \/ (f.country = 0 /\ w[1] = v[1] /\ j = k)
  BY <1>10, <1>13, <1>19 DEF IsCountry
<1>20. ASSUME NEW j, NEW w, IsRegion(country', region', j, w)
       PROVE  IsRegion(country, region, j, w)
              \/ (f.region = 0 /\ w[1] = v[1] /\ w[2] = v[2] /\ j = r)
  <2>1. CASE j \in DOMAIN region
    BY <1>5, <1>10, <1>11, <1>20, <2>1 DEF IsRegion, IsCountry
  <2>2. CASE j \notin DOMAIN region
    BY <1>11, <1>13, <1>14, <1>20, <2>2 DEF IsRegion, IsCountry
  <2> QED BY <2>1, <2>2
<1>21. ASSUME NEW j, NEW w, IsCity(country', region', city', j, w)
       PROVE  IsCity(country, region, city, j, w)
              \/ (w[1] = v[1] /\ w[2] = v[2] /\ w[3] = v[3] /\ j = c)
  <2>1. CASE j \in DOMAIN city
    BY <1>5, <1>10, <1>11, <1>12, <1>21, <2>1 DEF IsCity, IsRegion, IsCountry
  <2>2. CASE j \notin DOMAIN city
    BY <1>8, <1>12, <1>13, <1>14, <1>21, <2>2 DEF IsCity, IsRegion, IsCountry
  <2> QED BY <2>1, <2>2
<1>22. ASSUME NEW n \in 1..3, NEW i \in Nat, NEW w, Is(country', region', city', n, i, w)
       PROVE  \/ Is(country, region, city, n, i, w)
              \/ Lacks(n, f) /\ Same(n, v, w) /\ i = new[n]
  <2>1. CASE n = 1 BY <1>18, <1>19, <1>22, <2>1 DEF Is, Lacks, Same
  <2>2. CASE n = 2 BY <1>18, <1>20, <1>22, <2>2 DEF Is, Lacks, Same
  <2>3. CASE n = 3 BY <1>9, <1>18, <1>21, <1>22, <2>3 DEF Is, Lacks, Same
  <2> QED BY <2>1, <2>2, <2>3
<1>23. \E nw \in [1..3 -> Nat] : \A n \in 1..3, i \in Nat : \A w :
         Is(country', region', city', n, i, w) =>
           \/ Is(country, region, city, n, i, w)
           \/ Lacks(n, f) /\ Same(n, v, w) /\ i = nw[n]
  BY <1>18, <1>22
<1>24. Len(country) <= Len(country') /\ Len(region) <= Len(region') /\ Len(city') = Len(city) + 1
  <2>1. Len(country') \in {Len(country), Len(country) + 1} BY <1>10
  <2>2. Len(region') \in {Len(region), Len(region) + 1} BY <1>11
  <2>3. Len(city') = Len(city) + 1 BY <1>9c, <1>12
  <2> QED BY <1>6, <2>1, <2>2, <2>3
<1> QED BY <1>10, <1>11, <1>12, <1>16, <1>17, <1>23, <1>24 DEF v, f, x, c

LEMMA CitySavesStep ==
  ASSUME ListInv, NEW p \in Procs, CitySaves(p)
  PROVE  ListInv'
<1> DEFINE v == Path(mem[p].row.point)
<1> DEFINE f == mem[p].found
<1> DEFINE c == Len(city) + 1
<1>0. UNCHANGED <<row, createdAt, users, wish, visitor, split>>
      /\ mem[p].op = "city"
      /\ mem' = [mem EXCEPT ![p] = [mem[p] EXCEPT !.op = "save", !.row.city = c,
                                                   !.found = Nothing]]
  BY DEF CitySaves, Goes, At
<1>1. /\ TablesInv /\ TablesTyped /\ AdvertsTyped /\ RowsPlaced /\ RowsOnce
      /\ HandlersInv /\ MemTyped /\ HandlersFit /\ InsertsOnce /\ InsertsApart /\ VisitorInv
  BY DEF ListInv, TablesInv, HandlersInv
<1>2. /\ TablesTyped'
      /\ Len(country) <= Len(country') /\ Len(region) <= Len(region') /\ Len(city') = c
      /\ IsCity(country', region', city', c, v)
      /\ \A j \in DOMAIN country : j \in DOMAIN country' /\ country'[j] = country[j]
      /\ \A j \in DOMAIN region : j \in DOMAIN region' /\ region'[j] = region[j]
      /\ \A j \in DOMAIN city : j \in DOMAIN city' /\ city'[j] = city[j]
  BY <1>1, PathAppears
<1>3. PICK new \in [1..3 -> Nat] : \A n \in 1..3, i \in Nat : \A w :
        Is(country', region', city', n, i, w) =>
          \/ Is(country, region, city, n, i, w)
          \/ Lacks(n, f) /\ Same(n, v, w) /\ i = new[n]
  BY <1>1, PathAppears
<1>4. Len(country) \in Nat /\ Len(region) \in Nat /\ Len(city) \in Nat
      /\ Len(country') \in Nat /\ Len(region') \in Nat
  BY <1>1, <1>2 DEF TablesTyped
<1>5. mem[p].row.point \in Points /\ mem[p].advert \in Adverts /\ v \in Words
  BY <1>0, <1>1, PathsAreWords DEF HandlersFit, Fits
<1>6. mem[p] \in MemoryOf(Len(country), Len(region), Len(city)) BY <1>1 DEF MemTyped
<1> DEFINE m == [mem[p] EXCEPT !.op = "save", !.row.city = c, !.found = Nothing]
<1>7. /\ m.op = "save" /\ m.advert = mem[p].advert /\ m.row.point = mem[p].row.point
      /\ m.row.city = c /\ m \in MemoryOf(Len(country'), Len(region'), c)
  <2> DEFINE rw == [mem[p].row EXCEPT !.city = c]
  <2>1. mem[p].row \in [point : Points \cup {None}, city : 0..Len(city), active : BOOLEAN]
    BY <1>6 DEF MemoryOf
  <2>2. c \in 0..c BY <1>4
  <2>3. rw \in [point : Points \cup {None}, city : 0..c, active : BOOLEAN]
        /\ rw.point = mem[p].row.point /\ rw.city = c
    BY <2>1, <2>2
  <2>4. Nothing \in [country : 0..Len(country'), region : 0..Len(region'), city : 0..c]
    BY <1>4 DEF Nothing
  <2>5. m = [mem[p] EXCEPT !.op = "save", !.row = rw, !.found = Nothing]
    BY <1>6 DEF MemoryOf
  <2> HIDE DEF rw, m, c
  <2>6. m.op = "save" /\ m.advert = mem[p].advert /\ m.row = rw
        /\ m \in MemoryOf(Len(country'), Len(region'), c)
    BY <1>6, <2>3, <2>4, <2>5 DEF MemoryOf
  <2> QED BY <2>3, <2>6
<1>8. \A q \in Procs : mem'[q] = IF q = p THEN m ELSE mem[q] BY <1>0, <1>1 DEF MemTyped
<1> HIDE DEF m, c
<1>9. MemTyped'
  <2>1. ASSUME NEW q \in Procs
        PROVE  mem[q] \in MemoryOf(Len(country'), Len(region'), Len(city) + 1)
    <3>1. mem[q] \in MemoryOf(Len(country), Len(region), Len(city)) BY <1>1 DEF MemTyped
    <3>2. /\ 0..Len(country) \subseteq 0..Len(country') /\ 0..Len(region) \subseteq 0..Len(region')
          /\ 0..Len(city) \subseteq 0..Len(city) + 1
      BY <1>2, <1>4
    <3> QED BY <3>1, <3>2 DEF MemoryOf
  <2>2. \A q \in Procs : mem'[q] \in MemoryOf(Len(country'), Len(region'), c)
    BY <1>7, <1>8, <2>1 DEF c
  <2>3. mem' \in [Procs -> MemoryOf(Len(country'), Len(region'), c)]
    BY <1>0, <1>1, <2>2 DEF MemTyped
  <2> QED BY <1>2, <2>3 DEF MemTyped
<1>10. ASSUME NEW i, NEW w, IsCity(country, region, city, i, w)
       PROVE  IsCity(country', region', city', i, w)
  BY <1>2, <1>10 DEF IsCity, IsRegion, IsCountry
<1>11. HandlersFit'
  <2> SUFFICES ASSUME NEW q \in Procs PROVE Fits(mem'[q], country', region', city')
    BY DEF HandlersFit
  <2>1. CASE q = p BY <1>2, <1>5, <1>7, <1>8, <2>1 DEF Fits
  <2>2. CASE q # p
    <3>1. mem'[q] = mem[q] /\ Fits(mem[q], country, region, city)
      BY <1>1, <1>8, <2>2 DEF HandlersFit
    <3>2. mem[q].op = "city" => FoundOn(country', region', mem[q].found, Path(mem[q].row.point))
      BY <1>2, <3>1 DEF Fits, FoundOn, IsRegion, IsCountry
    <3> QED BY <1>10, <3>1, <3>2 DEF Fits
  <2> QED BY <2>1, <2>2
<1>12. ASSUME NEW n \in 1..3, NEW w, Lacks(n, f), Same(n, v, w) PROVE Inserts(mem[p], n, w)
  BY <1>0, <1>12 DEF Inserts
<1>13. RowsOnce'
  <2> SUFFICES ASSUME NEW n \in 1..3, NEW w \in Words, NEW i \in Nat, NEW j \in Nat, i # j,
                      Is(country', region', city', n, i, w), Is(country', region', city', n, j, w)
               PROVE  Torn(split, n, w)
    BY <1>0 DEF RowsOnce
  <2>1. CASE Is(country, region, city, n, i, w) /\ Is(country, region, city, n, j, w)
    BY <1>1, <2>1 DEF RowsOnce
  <2>2. CASE ~ Is(country, region, city, n, i, w) /\ Is(country, region, city, n, j, w)
    <3>1. Inserts(mem[p], n, w) BY <1>3, <1>12, <2>2
    <3> QED BY <1>1, <2>2, <3>1 DEF InsertsOnce
  <2>3. CASE Is(country, region, city, n, i, w) /\ ~ Is(country, region, city, n, j, w)
    <3>1. Inserts(mem[p], n, w) BY <1>3, <1>12, <2>3
    <3> QED BY <1>1, <2>3, <3>1 DEF InsertsOnce
  <2>4. CASE ~ Is(country, region, city, n, i, w) /\ ~ Is(country, region, city, n, j, w)
    BY <1>3, <2>4
  <2> QED BY <2>1, <2>2, <2>3, <2>4
<1>14. ASSUME NEW q \in Procs, NEW n \in 1..3, NEW w, Inserts(mem'[q], n, w)
       PROVE  q # p /\ Inserts(mem[q], n, w)
  BY <1>7, <1>8, <1>14 DEF Inserts
<1>15. InsertsOnce'
  <2> SUFFICES ASSUME NEW q \in Procs, NEW n \in 1..3, NEW w \in Words, NEW i \in Nat,
                      Inserts(mem'[q], n, w), Is(country', region', city', n, i, w)
               PROVE  Torn(split, n, w)
    BY <1>0 DEF InsertsOnce
  <2>1. q # p /\ Inserts(mem[q], n, w) BY <1>14
  <2>2. CASE Is(country, region, city, n, i, w) BY <1>1, <2>1, <2>2 DEF InsertsOnce
  <2>3. CASE ~ Is(country, region, city, n, i, w)
    <3>1. Inserts(mem[p], n, w) BY <1>3, <1>12, <2>3
    <3> QED BY <1>1, <2>1, <3>1 DEF InsertsApart
  <2> QED BY <2>2, <2>3
<1>16. InsertsApart' BY <1>0, <1>1, <1>14 DEF InsertsApart
<1>17. AdvertsTyped' /\ RowsPlaced'
  <2>1. \A a \in Rows : row[a] \in RowOf(Len(city'))
    <3>1. 1..Len(city) \subseteq 1..Len(city') BY <1>2, <1>4 DEF c
    <3> QED BY <1>1, <3>1 DEF AdvertsTyped, RowOf
  <2>2. AdvertsTyped' BY <1>0, <1>1, <2>1 DEF AdvertsTyped, Rows
  <2> QED BY <1>0, <1>1, <1>10, <2>2 DEF RowsPlaced, Rows
<1>18. VisitorInv'
  <2>1. visitor \in Visitor' BY <1>0, <1>1, <1>2 DEF VisitorInv, Visitor, Filters
  <2>2. \A a \in Rows : Within(region', city', row[a].city, visitor.filter)
                      <=> Within(region, city, row[a].city, visitor.filter)
    <3> SUFFICES ASSUME NEW a \in Rows
                 PROVE  Within(region', city', row[a].city, visitor.filter)
                        <=> Within(region, city, row[a].city, visitor.filter)
      OBVIOUS
    <3>1. row[a].city \in DOMAIN city BY <1>1 DEF RowsPlaced, IsCity
    <3>2. city[row[a].city].region \in DOMAIN region BY <1>1, <3>1 DEF TablesTyped
    <3> QED BY <1>2, <3>1, <3>2 DEF Within
  <2>3. Matches' = Matches BY <1>0, <2>2 DEF Matches, Matching, Rows
  <2>4. Passed' = Passed BY <1>0, <2>3 DEF Passed
  <2> QED BY <1>0, <1>1, <2>1, <2>3, <2>4 DEF VisitorInv, PageInv, PagesMissNone
<1>19. TablesInv' /\ HandlersInv'
  BY <1>2, <1>9, <1>11, <1>13, <1>15, <1>16, <1>17 DEF TablesInv, HandlersInv
<1> QED BY <1>0, <1>18, <1>19, WishesKept DEF ListInv

-----------------------------------------------------------------------------
(* The first adverts of a set, latest first.                               *)

LEMMA LatestExists ==
  ASSUME NEW T, T # {}, NEW N \in Nat, NEW at, \A t \in T : at[t] \in 1..N
  PROVE  \E t \in T : \A u \in T : at[u] <= at[t]
<1> DEFINE D == {N - at[t] : t \in T}
<1>1. D \subseteq Nat OBVIOUS
<1>2. D # {} OBVIOUS
<1>3. PICK x \in D : \A y \in D : ~ (<<y, x>> \in OpToRel(<, Nat))
  <2> HIDE DEF D
  <2> QED BY <1>1, <1>2, NatLessThanWellFounded, WFMin
<1>4. \A y \in D : x <= y
  <2> SUFFICES ASSUME NEW y \in D PROVE x <= y OBVIOUS
  <2>1. x \in Nat /\ y \in Nat BY <1>1
  <2>2. ~ (y < x) BY <1>3, <2>1 DEF OpToRel
  <2> QED BY <2>1, <2>2
<1>5. PICK t \in T : x = N - at[t] OBVIOUS
<1>6. ASSUME NEW u \in T PROVE at[u] <= at[t]
  <2>1. N - at[t] <= N - at[u] BY <1>4, <1>5
  <2>2. at[t] \in Nat /\ at[u] \in Nat OBVIOUS
  <2> QED BY <2>1, <2>2
<1> QED BY <1>6

(* Times tell the adverts of S apart.                                      *)
Timed(S, at, N) ==
  /\ IsFiniteSet(S) /\ N \in Nat /\ \A a \in S : at[a] \in 1..N
  /\ \A a, b \in S : at[a] = at[b] => a = b

Upto(S, at, a) == {b \in S : at[b] >= at[a]}

LEMMA UptoSize ==
  ASSUME NEW S, NEW at, NEW a \in S, IsFiniteSet(S), at[a] \in Nat
  PROVE  /\ IsFiniteSet(Upto(S, at, a)) /\ a \in Upto(S, at, a)
         /\ Cardinality(Upto(S, at, a)) \in Nat \ {0}
         /\ Cardinality(Upto(S, at, a)) <= Cardinality(S)
<1>1. Upto(S, at, a) \in SUBSET S /\ a \in Upto(S, at, a) BY DEF Upto
<1>2. IsFiniteSet(Upto(S, at, a)) /\ Cardinality(Upto(S, at, a)) <= Cardinality(S)
  BY <1>1, FS_Subset
<1>3. Cardinality(Upto(S, at, a)) \in Nat /\ Cardinality(Upto(S, at, a)) # 0
  BY <1>1, <1>2, FS_CardinalityType, FS_EmptySet
<1> QED BY <1>1, <1>2, <1>3

LEMMA NoneFirst ==
  ASSUME NEW S, NEW at, NEW N, Timed(S, at, N)
  PROVE  Newest(S, at, 0) = {}
<1> SUFFICES ASSUME NEW a \in S PROVE ~ (Cardinality(Upto(S, at, a)) <= 0)
  BY DEF Newest, Upto
<1>1. Cardinality(Upto(S, at, a)) \in Nat \ {0} BY UptoSize DEF Timed
<1> QED BY <1>1

LEMMA AllFirst ==
  ASSUME NEW S, NEW at, NEW N, Timed(S, at, N), NEW n \in Nat, Cardinality(S) <= n
  PROVE  Newest(S, at, n) = S
<1> SUFFICES ASSUME NEW a \in S PROVE Cardinality(Upto(S, at, a)) <= n
  BY DEF Newest, Upto
<1>1. Cardinality(Upto(S, at, a)) \in Nat /\ Cardinality(Upto(S, at, a)) <= Cardinality(S)
  BY UptoSize DEF Timed
<1>2. Cardinality(S) \in Nat BY FS_CardinalityType DEF Timed
<1> QED BY <1>1, <1>2

(* If one is not among the first k, there are k that are, all later.       *)
LEMMA FirstAreLater ==
  ASSUME NEW S, NEW at, NEW N, Timed(S, at, N), NEW k \in Nat,
         NEW a \in S, a \notin Newest(S, at, k)
  PROVE  /\ IsFiniteSet(Newest(S, at, k)) /\ Cardinality(Newest(S, at, k)) \in Nat
         /\ Cardinality(Newest(S, at, k)) >= k
         /\ \A b \in Newest(S, at, k) : at[b] > at[a]
<1> DEFINE First == Newest(S, at, k)
<1> DEFINE U(b) == Upto(S, at, b)
<1>1. IsFiniteSet(S) /\ N \in Nat /\ (\A b \in S : at[b] \in 1..N)
      /\ (\A b, c \in S : at[b] = at[c] => b = c)
  BY DEF Timed
<1>2. First = {b \in S : Cardinality(U(b)) <= k} BY DEF Newest, Upto
<1>3. \A b \in S : Cardinality(U(b)) \in Nat /\ IsFiniteSet(U(b)) BY <1>1, UptoSize
<1>4. ASSUME NEW b \in First, NEW t \in S, t \notin First PROVE at[b] > at[t]
  <2> SUFFICES ASSUME at[b] <= at[t] PROVE FALSE BY <1>1, <1>2
  <2>1. U(t) \in SUBSET U(b) BY <1>1, <1>2 DEF Upto
  <2>2. Cardinality(U(t)) <= Cardinality(U(b)) BY <1>2, <1>3, <2>1, FS_Subset
  <2> QED BY <1>2, <1>3, <1>4, <2>2
<1> HIDE DEF First, U
<1> DEFINE T == S \ First
<1>5. PICK t \in T : \A u \in T : at[u] <= at[t]
  <2>1. a \in T BY DEF First
  <2>2. \A u \in T : at[u] \in 1..N BY <1>1
  <2> HIDE DEF T
  <2> QED BY <1>1, <2>1, <2>2, LatestExists
<1>6. U(t) \subseteq First \cup {t}
  <2> SUFFICES ASSUME NEW b \in S, at[b] >= at[t], b # t PROVE b \in First BY DEF U, Upto
  <2> SUFFICES ASSUME b \notin First PROVE FALSE OBVIOUS
  <2>1. at[b] <= at[t] BY <1>5
  <2>2. at[b] = at[t] BY <1>1, <2>1
  <2> QED BY <1>1, <2>2
<1>7. IsFiniteSet(First) /\ Cardinality(First) \in Nat
  <2>1. First \in SUBSET S BY <1>2
  <2> QED BY <1>1, <2>1, FS_Subset, FS_CardinalityType
<1>8. IsFiniteSet(First \cup {t}) /\ Cardinality(First \cup {t}) = Cardinality(First) + 1
  BY <1>7, FS_AddElement
<1>9. Cardinality(U(t)) <= Cardinality(First) + 1
  <2>1. U(t) \in SUBSET (First \cup {t}) BY <1>6
  <2> QED BY <1>8, <2>1, FS_Subset
<1>10. ~ (Cardinality(U(t)) <= k) /\ Cardinality(U(t)) \in Nat BY <1>2, <1>3
<1>11. Cardinality(First) >= k BY <1>7, <1>9, <1>10
<1>12. \A b \in First : at[b] > at[a] BY <1>4 DEF First
<1> QED BY <1>7, <1>11, <1>12 DEF First

(* As long as the first k stay, no other comes to be among the first k.    *)
LEMMA PassedStay ==
  ASSUME NEW S, NEW at, NEW N, Timed(S, at, N), NEW k \in Nat,
         NEW R, NEW aft, IsFiniteSet(R), \A b \in S : aft[b] = at[b],
         Newest(S, at, k) \subseteq R,
         NEW a \in S, a \in R, a \notin Newest(S, at, k)
  PROVE  a \notin Newest(R, aft, k)
<1> DEFINE First == Newest(S, at, k)
<1>1. /\ IsFiniteSet(First) /\ Cardinality(First) \in Nat
      /\ Cardinality(First) >= k
      /\ \A b \in First : at[b] > at[a]
  BY FirstAreLater
<1>2. First \subseteq S BY DEF Newest
<1>3. \A b \in S : at[b] \in Nat BY DEF Timed
<1> HIDE DEF First
<1>4. First \cup {a} \in SUBSET Upto(R, aft, a)
  <2>1. \A b \in First : b \in R BY DEF First
  <2>2. \A b \in First : aft[b] >= aft[a] BY <1>1, <1>2, <1>3
  <2>3. aft[a] >= aft[a] BY <1>3
  <2> QED BY <2>1, <2>2, <2>3 DEF Upto
<1>5. aft[a] \in Nat BY <1>3
<1>6. IsFiniteSet(Upto(R, aft, a)) /\ Cardinality(Upto(R, aft, a)) \in Nat BY <1>5, UptoSize
<1>7. Cardinality(First \cup {a}) = Cardinality(First) + 1
  <2>1. a \notin First BY DEF First
  <2> QED BY <1>1, <2>1, FS_AddElement
<1>8. Cardinality(First \cup {a}) <= Cardinality(Upto(R, aft, a)) BY <1>4, <1>6, FS_Subset
<1>9. ~ (Cardinality(Upto(R, aft, a)) <= k) BY <1>1, <1>6, <1>7, <1>8
<1> QED BY <1>9 DEF Newest, Upto

-----------------------------------------------------------------------------
(* The page turning.                                                       *)

LEMMA RowsTimed ==
  ASSUME TablesInv, NEW S, S \subseteq Rows
  PROVE  Timed(S, createdAt, Cardinality(DOMAIN createdAt)) /\ S \subseteq Adverts
         /\ Cardinality(S) \in Nat
<1>1. /\ IsFiniteSet(DOMAIN createdAt) /\ S \in SUBSET DOMAIN createdAt
      /\ DOMAIN createdAt \subseteq Adverts
      /\ createdAt \in [DOMAIN createdAt -> 1..Cardinality(DOMAIN createdAt)]
      /\ IsInjective(createdAt)
  BY DEF TablesInv, AdvertsTyped
<1>2. IsFiniteSet(S) /\ Cardinality(S) \in Nat BY <1>1, FS_Subset, FS_CardinalityType
<1>3. Cardinality(DOMAIN createdAt) \in Nat BY <1>1, FS_CardinalityType
<1>4. \A a, b \in S : createdAt[a] = createdAt[b] => a = b BY <1>1 DEF IsInjective
<1>5. \A a \in S : createdAt[a] \in 1..Cardinality(DOMAIN createdAt) BY <1>1
<1> QED BY <1>1, <1>2, <1>3, <1>4, <1>5 DEF Timed

LEMMA MatchesAreRows == Matches \subseteq Rows
BY DEF Matches, Matching, Rows

LEMMA PagesNat ==
  ASSUME NEW n \in Nat
  PROVE  PerPage * n \in Nat
BY PageAssumption

(* A step of the visitor alone.                                            *)
LEMMA TurningStep ==
  ASSUME ListInv, UNCHANGED <<places, row, createdAt, users, wish, mem, split>>,
         visitor' \in Visitor, PageInv', PagesMissNone'
  PROVE  ListInv'
<1>1. UNCHANGED <<country, region, city, row, createdAt, users, wish, mem, split>>
  BY DEF places
<1>2. VisitorInv' BY <1>1 DEF VisitorInv, Visitor, Filters
<1> QED BY <1>1, <1>2, TablesKept, HandlersKept, WishesKept DEF ListInv

LEMMA VisitStartsStep ==
  ASSUME ListInv, NEW f \in Filters, VisitStarts(f)
  PROVE  ListInv'
<1> DEFINE found == Matching(row, region, city, f)
<1> DEFINE v == [Away EXCEPT !.op = "counted", !.filter = f, !.page = 1,
                             !.total = Cardinality(found), !.owed = found]
<1>0. UNCHANGED <<places, row, createdAt, users, wish, mem, split>>
      /\ UNCHANGED <<region, city>> /\ visitor' = v
  BY ListedMatches DEF VisitStarts, places
<1>1. found \subseteq Rows BY DEF Matching, Rows
<1>2. Timed(found, createdAt, Cardinality(DOMAIN createdAt)) /\ found \subseteq Adverts
      /\ Cardinality(found) \in Nat
  BY <1>1, RowsTimed DEF ListInv
<1>3. Newest(found, createdAt, 0) = {} BY <1>2, NoneFirst
<1>4. v \in Visitor /\ v.op = "counted" /\ v.filter = f /\ v.page = 1
      /\ v.total = Cardinality(found) /\ v.owed = found /\ v.late = FALSE
  BY <1>2 DEF Away, Visitor
<1>5. Matches' = found BY <1>0, <1>4 DEF Matches
<1> HIDE DEF v, found
<1>6. Passed' = {}
  <2>1. PerPage * (1 - 1) = 0 BY PageAssumption
  <2> QED BY <1>0, <1>3, <1>4, <1>5, <2>1 DEF Passed
<1>7. PageInv' BY <1>0, <1>2, <1>4, <1>5, <1>6 DEF PageInv, Turning
<1>8. PagesMissNone' BY <1>0, <1>4 DEF PagesMissNone
<1> QED BY <1>0, <1>4, <1>7, <1>8, TurningStep

LEMMA VisitCountsStep ==
  ASSUME ListInv, VisitCounts
  PROVE  ListInv'
<1> DEFINE v == [visitor EXCEPT !.op = "counted", !.total = Cardinality(Matches)]
<1>0. UNCHANGED <<places, row, createdAt, users, wish, mem, split>>
      /\ UNCHANGED <<region, city>> /\ visitor.op = "ask" /\ visitor' = v
  BY ListedMatches DEF VisitCounts, places, Matches
<1>1. Cardinality(Matches) \in Nat BY MatchesAreRows, RowsTimed DEF ListInv
<1>2. visitor \in Visitor /\ PageInv BY DEF ListInv, VisitorInv
<1>3. v \in Visitor /\ v.op = "counted" /\ v.filter = visitor.filter /\ v.page = visitor.page
      /\ v.total = Cardinality(Matches) /\ v.owed = visitor.owed /\ v.late = visitor.late
  BY <1>1, <1>2 DEF Visitor
<1> HIDE DEF v
<1>4. Matches' = Matches BY <1>0, <1>3 DEF Matches
<1>5. Passed' = Passed BY <1>0, <1>3, <1>4 DEF Passed
<1>6. PageInv' BY <1>0, <1>1, <1>2, <1>3, <1>4, <1>5 DEF PageInv, Turning
<1>7. PagesMissNone' BY <1>0, <1>3 DEF PagesMissNone
<1> QED BY <1>0, <1>3, <1>6, <1>7, TurningStep

LEMMA VisitReadsStep ==
  ASSUME ListInv, VisitReads
  PROVE  ListInv'
<1> DEFINE n == visitor.page
<1> DEFINE seen == Newest(Matches, createdAt, PerPage * n)
<1> DEFINE last == PerPage * n >= visitor.total
<1> DEFINE v == [visitor EXCEPT !.op = IF last THEN "done" ELSE "ask",
                      !.page = IF last THEN @ ELSE @ + 1,
                      !.owed = @ \ (seen \ Passed), !.late = @ /\ last]
<1>0. UNCHANGED <<places, row, createdAt, users, wish, mem, split>>
      /\ UNCHANGED <<region, city>> /\ visitor.op = "counted" /\ visitor' = v
  <2>1. Page(Matches, n) = seen \ Passed BY FirstIsNewest DEF Page, Passed
  <2> QED BY <2>1, ListedMatches DEF VisitReads, places, Matches
<1>1. visitor \in Visitor /\ PageInv BY DEF ListInv, VisitorInv
<1>2. n \in Nat /\ n >= 1 /\ visitor.owed \subseteq Matches \ Passed
      /\ (~ visitor.late => Cardinality(Matches) <= visitor.total)
      /\ visitor.total \in Nat
  BY <1>0, <1>1 DEF PageInv, Turning, Visitor
<1>3. v \in Visitor /\ v.op = (IF last THEN "done" ELSE "ask") /\ v.filter = visitor.filter
      /\ v.page = (IF last THEN n ELSE n + 1)
      /\ v.owed = visitor.owed \ (seen \ Passed) /\ v.late = (visitor.late /\ last)
  <2> DEFINE op == IF last THEN "done" ELSE "ask"
  <2> DEFINE page == IF last THEN n ELSE n + 1
  <2> DEFINE owed == visitor.owed \ (seen \ Passed)
  <2> DEFINE late == visitor.late /\ last
  <2>1. op \in {"ask", "done"} /\ page \in Nat /\ owed \in SUBSET Adverts /\ late \in BOOLEAN
    BY <1>1, <1>2 DEF Visitor
  <2>2. v = [visitor EXCEPT !.op = op, !.page = page, !.owed = owed, !.late = late]
    BY <1>1 DEF Visitor
  <2> HIDE DEF op, page, owed, late, v
  <2>3. v \in Visitor /\ v.op = op /\ v.filter = visitor.filter /\ v.page = page
        /\ v.owed = owed /\ v.late = late
    BY <1>1, <2>1, <2>2 DEF Visitor
  <2> QED BY <2>3 DEF op, page, owed, late
<1> HIDE DEF v, seen, last
<1>4. Matches' = Matches BY <1>0, <1>3 DEF Matches
<1>5. visitor.owed \ (seen \ Passed) \subseteq Matches \ seen BY <1>2
<1>6. CASE last
  <2>1. visitor'.op = "done" BY <1>0, <1>3, <1>6
  <2>2. PageInv' BY <2>1 DEF PageInv, Turning
  <2>3. PagesMissNone'
    <3> SUFFICES ASSUME ~ visitor.late PROVE visitor'.owed = {}
      BY <1>0, <1>3, <1>6 DEF PagesMissNone
    <3>1. Cardinality(Matches) <= PerPage * n
      <4>1. Timed(Matches, createdAt, Cardinality(DOMAIN createdAt)) /\ Cardinality(Matches) \in Nat
        BY MatchesAreRows, RowsTimed DEF ListInv
      <4>2. PerPage * n \in Nat BY <1>2, PagesNat
      <4> QED BY <1>2, <1>6, <4>1, <4>2 DEF last
    <3>2. seen = Matches
      <4>1. Timed(Matches, createdAt, Cardinality(DOMAIN createdAt))
        BY MatchesAreRows, RowsTimed DEF ListInv
      <4>2. PerPage * n \in Nat BY <1>2, PagesNat
      <4> QED BY <3>1, <4>1, <4>2, AllFirst DEF seen
    <3> QED BY <1>0, <1>3, <1>5, <3>2
  <2> QED BY <1>0, <1>3, <2>2, <2>3, TurningStep
<1>7. CASE ~ last
  <2>1. visitor'.op = "ask" /\ visitor'.page = n + 1 /\ ~ visitor'.late
        /\ visitor'.owed = visitor.owed \ (seen \ Passed)
    BY <1>0, <1>3, <1>7
  <2>2. Passed' = seen
    <3>1. visitor'.page - 1 = n BY <1>2, <2>1
    <3>2. Passed' = Newest(Matches', createdAt', PerPage * (visitor'.page - 1)) BY DEF Passed
    <3>3. Passed' = Newest(Matches, createdAt, PerPage * n) BY <1>0, <1>4, <3>1, <3>2
    <3> QED BY <3>3 DEF seen
  <2>3. PageInv' BY <1>2, <1>4, <1>5, <2>1, <2>2 DEF PageInv, Turning
  <2>4. PagesMissNone' BY <2>1 DEF PagesMissNone
  <2> QED BY <1>0, <1>3, <2>3, <2>4, TurningStep
<1> QED BY <1>6, <1>7

LEMMA AwayType == Away \in Visitor /\ Away.op = "away"
BY DEF Away, Visitor, Filters

LEMMA VisitEndsStep ==
  ASSUME ListInv, VisitEnds
  PROVE  ListInv'
<1>1. UNCHANGED <<places, row, createdAt, users, wish, mem, split>> /\ visitor' = Away
  BY DEF VisitEnds
<1>2. PageInv' /\ PagesMissNone' BY <1>1, AwayType DEF PageInv, Turning, PagesMissNone
<1>3. visitor' \in Visitor BY <1>1, AwayType
<1> QED BY <1>1, <1>2, <1>3, TurningStep

(* Any change of the adverts that keeps their times.                       *)
LEMMA WatchStep ==
  ASSUME TablesInv, VisitorInv, NEW rows, Watch(rows), row' = rows,
         IsFiniteSet(DOMAIN rows), \A a \in Rows : createdAt'[a] = createdAt[a],
         UNCHANGED <<country, region, city>>
  PROVE  VisitorInv'
<1> DEFINE f == visitor.filter
<1> DEFINE k == PerPage * (visitor.page - 1)
<1> DEFINE new == Matching(rows, region, city, f)
<1>1. visitor' = IF visitor.op \notin {"ask", "counted"} THEN visitor
       ELSE [visitor EXCEPT
              !.owed = IF Passed \subseteq new THEN @ \cap new ELSE {},
              !.late = @ \/ (visitor.op = "counted" /\ ~ new \subseteq Matches)]
  <2>1. Listed(row, f) = Matches /\ Listed(rows, f) = new BY ListedMatches DEF Matches
  <2>2. FirstOf(Matches, k) = Passed BY FirstIsNewest DEF Passed
  <2> HIDE DEF new
  <2> QED BY <2>1, <2>2 DEF Watch
<1>2. visitor \in Visitor /\ PageInv /\ PagesMissNone BY DEF VisitorInv
<1>3. CASE visitor.op \notin {"ask", "counted"}
  <2>1. visitor' = visitor BY <1>1, <1>3
  <2>2. PageInv' BY <1>3, <2>1 DEF PageInv, Turning
  <2> QED BY <1>2, <2>1, <2>2 DEF VisitorInv, PagesMissNone, Visitor, Filters
<1>4. CASE visitor.op \in {"ask", "counted"}
  <2> DEFINE owed == IF Passed \subseteq new THEN visitor.owed \cap new ELSE {}
  <2> DEFINE late == visitor.late \/ (visitor.op = "counted" /\ ~ new \subseteq Matches)
  <2>1. visitor' = [visitor EXCEPT !.owed = owed, !.late = late] BY <1>1, <1>4
  <2>2. owed \in SUBSET Adverts /\ late \in BOOLEAN BY <1>2 DEF Visitor
  <2>3. owed \subseteq visitor.owed \cap new /\ (owed # {} => Passed \subseteq new) OBVIOUS
  <2>4. (~ late => ~ visitor.late) /\ (visitor.op = "ask" => late = visitor.late)
        /\ (visitor.op = "counted" /\ ~ late => new \subseteq Matches)
    BY <1>2 DEF Visitor
  <2> HIDE DEF owed, late
  <2>5. /\ visitor' \in Visitor /\ visitor'.op = visitor.op /\ visitor'.filter = f
        /\ visitor'.page = visitor.page /\ visitor'.total = visitor.total
        /\ visitor'.owed = owed /\ visitor'.late = late
    BY <1>2, <2>1, <2>2 DEF Visitor
  <2>6. visitor' \in Visitor' BY <2>5 DEF Visitor, Filters
  <2>7. Matches' = new BY <2>5 DEF Matches
  <2>8. Passed' = Newest(new, createdAt', k) BY <2>5, <2>7 DEF Passed
  <2>9. /\ visitor.page >= 1 /\ visitor.page \in Nat /\ visitor.total \in Nat
        /\ visitor.owed \subseteq Matches \ Passed
        /\ visitor.op = "counted" /\ ~ visitor.late => Cardinality(Matches) <= visitor.total
        /\ visitor.op = "ask" => ~ visitor.late
    BY <1>2, <1>4 DEF PageInv, Turning, Visitor
  <2>10. k \in Nat
    <3>1. visitor.page - 1 \in Nat BY <2>9
    <3> QED BY <3>1, PagesNat
  <2>11. Timed(Matches, createdAt, Cardinality(DOMAIN createdAt)) /\ Cardinality(Matches) \in Nat
    BY MatchesAreRows, RowsTimed
  <2>12. IsFiniteSet(new) /\ Cardinality(new) \in Nat
    <3>1. new \in SUBSET DOMAIN rows BY DEF Matching
    <3> QED BY <3>1, FS_Subset, FS_CardinalityType
  <2>13. \A b \in Matches : createdAt'[b] = createdAt[b] BY MatchesAreRows
  <2>14. Passed = Newest(Matches, createdAt, k) BY DEF Passed
  <2> HIDE DEF new, k, f
  <2>15. owed \subseteq new \ Newest(new, createdAt', k)
    <3> SUFFICES ASSUME NEW a \in owed PROVE a \in new /\ a \notin Newest(new, createdAt', k)
      OBVIOUS
    <3>1. a \in new /\ a \in Matches /\ a \notin Passed /\ Passed \subseteq new BY <2>3, <2>9
    <3> DEFINE aft == createdAt'
    <3>2. \A b \in Matches : aft[b] = createdAt[b] BY <2>13
    <3> HIDE DEF aft
    <3>3. a \notin Newest(new, aft, k)
      BY <2>10, <2>11, <2>12, <2>14, <3>1, <3>2, PassedStay
    <3> QED BY <3>1, <3>3 DEF aft
  <2>16. visitor.op = "counted" /\ ~ late => Cardinality(new) <= visitor.total
    <3> SUFFICES ASSUME visitor.op = "counted", ~ late PROVE Cardinality(new) <= visitor.total
      OBVIOUS
    <3>1. new \in SUBSET Matches BY <2>4
    <3>2. Cardinality(new) <= Cardinality(Matches) BY <2>11, <3>1, FS_Subset DEF Timed
    <3> QED BY <2>4, <2>9, <2>11, <2>12, <3>2
  <2>17. PageInv' BY <2>4, <2>5, <2>7, <2>8, <2>9, <2>15, <2>16 DEF PageInv, Turning
  <2>18. PagesMissNone' BY <1>4, <2>5 DEF PagesMissNone
  <2> QED BY <2>6, <2>17, <2>18 DEF VisitorInv
<1> QED BY <1>3, <1>4

-----------------------------------------------------------------------------
(* The changes of the adverts.                                             *)

LEMMA AdvertSavesStep ==
  ASSUME ListInv, NEW p \in Procs, AdvertSaves(p)
  PROVE  ListInv'
<1> DEFINE a == mem[p].advert
<1> DEFINE rows == [b \in Rows \cup {a} |-> IF b = a THEN mem[p].row ELSE row[b]]
<1> DEFINE ever == DOMAIN createdAt
<1> DEFINE now == Cardinality(ever) + 1
<1>0. /\ UNCHANGED <<country, region, city, users, wish, split>>
      /\ mem[p].op \in {"edit", "save"} /\ row' = rows /\ Watch(rows)
      /\ createdAt' = [b \in ever \cup {a} |-> IF b \in ever THEN createdAt[b] ELSE now]
      /\ mem' = [mem EXCEPT ![p] = Idle]
  BY DEF AdvertSaves, Goes, places
<1>1. /\ TablesInv /\ TablesTyped /\ AdvertsTyped /\ RowsPlaced /\ RowsOnce
      /\ HandlersInv /\ VisitorInv /\ WishesInv
  BY DEF ListInv, TablesInv
<1>2. /\ a \in Adverts /\ mem[p].row.point \in Points
      /\ IsCity(country, region, city, mem[p].row.city, Path(mem[p].row.point))
  BY <1>0, <1>1 DEF HandlersInv, HandlersFit, Fits
<1>3. mem[p].row \in RowOf(Len(city))
  <2>1. mem[p].row \in [point : Points \cup {None}, city : 0..Len(city), active : BOOLEAN]
    BY <1>1 DEF HandlersInv, MemTyped, MemoryOf
  <2>2. mem[p].row.city \in 1..Len(city) BY <1>1, <1>2 DEF IsCity, TablesTyped
  <2> QED BY <1>2, <2>1, <2>2 DEF RowOf
<1>4. HandlersInv' BY <1>0, <1>1, IdleFits, MovesOnly
<1>5. Rows' = Rows \cup {a} /\ \A b \in Rows' : row'[b] = IF b = a THEN mem[p].row ELSE row[b]
  BY <1>0 DEF Rows
<1>6. /\ IsFiniteSet(ever) /\ Cardinality(ever) \in Nat
      /\ \A b \in ever : createdAt[b] \in 1..Cardinality(ever)
      /\ \A b, c \in ever : createdAt[b] = createdAt[c] => b = c
      /\ Rows \subseteq ever /\ ever \subseteq Adverts
  BY <1>1, FS_CardinalityType DEF AdvertsTyped, IsInjective
<1>7. /\ IsFiniteSet(ever \cup {a})
      /\ Cardinality(ever \cup {a}) = IF a \in ever THEN Cardinality(ever) ELSE now
  BY <1>6, FS_AddElement
<1>8. DOMAIN createdAt' = ever \cup {a}
      /\ \A b \in ever \cup {a} : createdAt'[b] = IF b \in ever THEN createdAt[b] ELSE now
  BY <1>0
<1>9. AdvertsTyped'
  <2>1. createdAt' \in [ever \cup {a} -> 1..Cardinality(ever \cup {a})]
    <3>1. ASSUME NEW b \in ever \cup {a} PROVE createdAt'[b] \in 1..Cardinality(ever \cup {a})
      <4>1. CASE b \in ever
        <5>1. createdAt'[b] \in 1..Cardinality(ever) BY <1>6, <1>8, <4>1
        <5>2. 1..Cardinality(ever) \subseteq 1..Cardinality(ever \cup {a}) BY <1>6, <1>7
        <5> QED BY <5>1, <5>2
      <4>2. CASE b \notin ever BY <1>6, <1>7, <1>8, <4>2
      <4> QED BY <4>1, <4>2
    <3> HIDE DEF now
    <3> QED BY <1>0, <1>8, <3>1
  <2>2. IsInjective(createdAt')
    <3> SUFFICES ASSUME NEW b \in ever \cup {a}, NEW c \in ever \cup {a},
                        createdAt'[b] = createdAt'[c]
                 PROVE  b = c
      BY <1>8 DEF IsInjective
    <3>1. CASE b \in ever /\ c \in ever BY <1>6, <1>8, <3>1
    <3>2. CASE b \in ever /\ c \notin ever BY <1>6, <1>8, <3>2
    <3>3. CASE b \notin ever /\ c \in ever BY <1>6, <1>8, <3>3
    <3>4. CASE b \notin ever /\ c \notin ever BY <3>4
    <3> QED BY <3>1, <3>2, <3>3, <3>4
  <2>3. \A b \in Rows' : row'[b] \in RowOf(Len(city'))
    BY <1>0, <1>1, <1>3, <1>5 DEF AdvertsTyped
  <2> HIDE DEF now, rows
  <2> QED BY <1>2, <1>5, <1>6, <1>7, <1>8, <2>1, <2>2, <2>3 DEF AdvertsTyped
<1>10. RowsPlaced' BY <1>0, <1>1, <1>2, <1>5 DEF RowsPlaced
<1>11. TablesInv' BY <1>0, <1>1, <1>9, <1>10 DEF TablesInv, TablesTyped, RowsOnce
<1>12. VisitorInv'
  <2>1. IsFiniteSet(DOMAIN rows)
    <3>1. DOMAIN rows \in SUBSET (ever \cup {a}) BY <1>6
    <3> QED BY <1>7, <3>1, FS_Subset
  <2>2. \A b \in Rows : createdAt'[b] = createdAt[b] BY <1>6, <1>8
  <2> HIDE DEF rows
  <2> QED BY <1>0, <1>1, <2>1, <2>2, WatchStep
<1>13. WishesInv' BY <1>0, <1>1, <1>5 DEF WishesInv, WishesHold
<1> QED BY <1>4, <1>11, <1>12, <1>13 DEF ListInv

(* Adverts go, or change their status only.                                *)
LEMMA RowsStep ==
  ASSUME ListInv, NEW rows, Watch(rows), row' = rows, DOMAIN rows \subseteq Rows,
         \A a \in DOMAIN rows : /\ rows[a] \in RowOf(Len(city)) /\ rows[a].city = row[a].city
                                /\ rows[a].point = row[a].point,
         UNCHANGED <<country, region, city, createdAt, users, mem, split>>, WishesHold'
  PROVE  ListInv'
<1>1. /\ TablesInv /\ TablesTyped /\ AdvertsTyped /\ RowsPlaced /\ RowsOnce
      /\ HandlersInv /\ VisitorInv /\ WishesInv
  BY DEF ListInv, TablesInv
<1>2. AdvertsTyped' BY <1>1 DEF AdvertsTyped, Rows
<1>3. RowsPlaced' BY <1>1 DEF RowsPlaced, Rows
<1>4. TablesInv' BY <1>1, <1>2, <1>3 DEF TablesInv, TablesTyped, RowsOnce
<1>5. IsFiniteSet(DOMAIN rows)
  <2>1. DOMAIN rows \in SUBSET DOMAIN createdAt /\ IsFiniteSet(DOMAIN createdAt)
    BY <1>1 DEF AdvertsTyped
  <2> QED BY <2>1, FS_Subset
<1>6. VisitorInv' BY <1>1, <1>5, WatchStep
<1>7. WishesInv' BY <1>1 DEF WishesInv
<1> QED BY <1>1, <1>4, <1>6, <1>7, HandlersKept DEF ListInv

LEMMA RemoveAdvertStep ==
  ASSUME ListInv, NEW a, RemoveAdvert(a)
  PROVE  ListInv'
<1> DEFINE rows == [b \in Rows \ {a} |-> row[b]]
<1>1. /\ row' = rows /\ Watch(rows) /\ wish' = {w \in wish : w[2] # a}
      /\ UNCHANGED <<country, region, city, createdAt, users, mem, split>>
  BY DEF RemoveAdvert, Without, places
<1>2. WishesHold' BY <1>1 DEF ListInv, WishesInv, WishesHold, Rows
<1>3. DOMAIN rows \subseteq Rows /\ \A b \in DOMAIN rows :
        /\ rows[b] \in RowOf(Len(city)) /\ rows[b].city = row[b].city
        /\ rows[b].point = row[b].point
  BY DEF ListInv, TablesInv, AdvertsTyped
<1> HIDE DEF rows
<1> QED BY <1>1, <1>2, <1>3, RowsStep

LEMMA ExpiresStep ==
  ASSUME ListInv, NEW a \in Adverts, Expires(a)
  PROVE  ListInv'
<1> DEFINE rows == [row EXCEPT ![a].active = FALSE]
<1>1. /\ row' = rows /\ Watch(rows) /\ a \in Rows
      /\ UNCHANGED <<country, region, city, createdAt, users, wish, mem, split>>
  BY DEF Expires, places
<1>2. DOMAIN rows = Rows BY DEF Rows
<1>3. WishesHold' BY <1>1, <1>2 DEF ListInv, WishesInv, WishesHold, Rows
<1>4. ASSUME NEW b \in Rows
      PROVE  /\ rows[b] \in RowOf(Len(city)) /\ rows[b].city = row[b].city
             /\ rows[b].point = row[b].point
  <2>1. row[b] \in RowOf(Len(city)) BY DEF ListInv, TablesInv, AdvertsTyped
  <2>2. rows[b] = IF b = a THEN [row[b] EXCEPT !.active = FALSE] ELSE row[b] BY DEF Rows
  <2> HIDE DEF rows
  <2>3. CASE b = a BY <2>1, <2>2, <2>3 DEF RowOf
  <2>4. CASE b # a BY <2>1, <2>2, <2>4
  <2> QED BY <2>3, <2>4
<1> HIDE DEF rows
<1> QED BY <1>1, <1>2, <1>3, <1>4, RowsStep

-----------------------------------------------------------------------------
LEMMA InitHolds == Init => ListInv
<1> SUFFICES ASSUME Init PROVE ListInv OBVIOUS
<1>0. /\ country = <<>> /\ region = <<>> /\ city = <<>>
      /\ row = [a \in {} |-> {}] /\ createdAt = [a \in {} |-> 0]
      /\ users = Users /\ wish = {} /\ mem = [p \in Procs |-> Idle]
      /\ visitor = Away /\ split = {}
  BY DEF Init
<1>1. DOMAIN country = {} /\ DOMAIN region = {} /\ DOMAIN city = {} BY <1>0
<1>2. TablesTyped BY <1>0, <1>1 DEF TablesTyped
<1>3. Rows = {} /\ DOMAIN createdAt = {} BY <1>0 DEF Rows
<1>4. AdvertsTyped BY <1>0, <1>3, FS_EmptySet DEF AdvertsTyped, IsInjective
<1>5. \A n, i, w : ~ Is(country, region, city, n, i, w)
  BY <1>1 DEF Is, IsCity, IsRegion, IsCountry
<1>6. TablesInv BY <1>2, <1>3, <1>4, <1>5 DEF TablesInv, RowsPlaced, RowsOnce
<1>7. mem \in [Procs -> MemoryOf(Len(country), Len(region), Len(city))]
      /\ \A p \in Procs : mem[p].op = "idle"
  BY <1>0, <1>2, IdleFits
<1>8. HandlersInv
  BY <1>7 DEF HandlersInv, MemTyped, HandlersFit, Fits, InsertsOnce, InsertsApart, Inserts
<1>9. VisitorInv
  BY <1>0, AwayType DEF VisitorInv, PageInv, Turning, PagesMissNone
<1>10. WishesInv BY <1>0 DEF WishesInv, WishesHold
<1> QED BY <1>6, <1>8, <1>9, <1>10 DEF ListInv

LEMMA StepHolds == ListInv /\ [Next]_vars => ListInv'
<1> SUFFICES ASSUME ListInv, [Next]_vars PROVE ListInv' OBVIOUS
<1>1. ASSUME NEW p \in Procs,
             \/ ItemRequests(p) \/ WishRequests(p)
             \/ \E x \in Points : UpdateLooksUp(p, x)
             \/ CitySaves(p) \/ AdvertSaves(p) \/ WishSaves(p) \/ Abort(p)
      PROVE  ListInv'
  <2>1. CASE ItemRequests(p)
    BY <2>1, CreateStep, UpdateReadsStep, RemoveAdvertStep DEF ItemRequests
  <2>2. CASE WishRequests(p) BY <2>2, WishReadsStep, WishGoesStep DEF WishRequests
  <2>3. CASE \E x \in Points : UpdateLooksUp(p, x) BY <2>3, UpdateStep
  <2>4. CASE CitySaves(p) \/ AdvertSaves(p) BY <2>4, CitySavesStep, AdvertSavesStep
  <2>5. CASE WishSaves(p) \/ Abort(p) BY <2>5, WishSavesStep, AbortStep
  <2> QED BY <1>1, <2>1, <2>2, <2>3, <2>4, <2>5
<1>2. ASSUME SearchRequests PROVE ListInv'
  BY <1>2, VisitStartsStep, VisitCountsStep, VisitReadsStep, VisitEndsStep DEF SearchRequests
<1>3. CASE Next BY <1>1, <1>2, <1>3, ExpiresStep, WishGoesStep DEF Next
<1>4. CASE UNCHANGED vars
  BY <1>4, TablesKept, HandlersKept, VisitorKept, WishesKept DEF ListInv, vars, places
<1> QED BY <1>3, <1>4

LEMMA Invariant == Spec => []ListInv
<1> QED BY InitHolds, StepHolds, PTL DEF Spec

-----------------------------------------------------------------------------
(* From rows that are on a path to the paths the properties speak of.      *)

LEMMA StartSame ==
  ASSUME NEW v \in Words, NEW w \in Words, NEW n \in 1..3, SubSeq(v, 1, n) = SubSeq(w, 1, n)
  PROVE  Same(n, v, w)
<1>1. ASSUME NEW u \in Words, NEW i \in 1..n PROVE SubSeq(u, 1, n)[i] = u[i]
  <2>1. 1 \in Int /\ n \in Int /\ \A j \in 1..n : u[j] \in Names BY <1>1 DEF Words
  <2>2. \A j \in 1..n - 1 + 1 : SubSeq(u, 1, n)[j] = u[1 + j - 1] BY <2>1, SubSeqProperties
  <2> QED BY <2>2
<1> HIDE DEF Words
<1> QED BY <1>1 DEF Same

LEMMA WordStarts ==
  ASSUME NEW w \in Words, NEW n \in 1..3
  PROVE  /\ w \in Seq(Names) /\ Len(w) = 3
         /\ SubSeq(w, 1, n) \in Seq(Names) /\ Len(SubSeq(w, 1, n)) = n
         /\ \A m \in 1..n : SubSeq(SubSeq(w, 1, n), 1, m) = SubSeq(w, 1, m)
<1>1. PICK a \in Names, b \in Names, c \in Names : w = <<a, b, c>> BY DEF Words
<1>2. w \in Seq(Names) /\ Len(w) = 3 /\ \A i \in 1..n : w[i] \in Names BY <1>1
<1>3. SubSeq(w, 1, n) \in Seq(Names) /\ Len(SubSeq(w, 1, n)) = IF 1 <= n THEN n - 1 + 1 ELSE 0
  BY <1>2, SubSeqProperties
<1>4. ASSUME NEW m \in 1..n PROVE SubSeq(SubSeq(w, 1, n), 1, m) = SubSeq(w, 1, m)
  <2>1. 1 \in 1..Len(w) /\ n \in 1..Len(w) /\ 1 \in 1..n - 1 + 1 /\ m \in 1..n - 1 + 1
    BY <1>2
  <2>2. SubSeq(SubSeq(w, 1, n), 1, m) = SubSeq(w, 1 + 1 - 1, 1 + m - 1)
    BY <1>2, <2>1, SubSeqOfSubSeq
  <2>3. 1 + 1 - 1 = 1 /\ 1 + m - 1 = m OBVIOUS
  <2> QED BY <2>2, <2>3
<1> QED BY <1>2, <1>3, <1>4

LEMMA SplitStart ==
  ASSUME NEW w \in Words, NEW n \in 1..3, Torn(split, n, w)
  PROVE  Split(SubSeq(w, 1, n))
<1>1. PICK m \in 1..n : SubSeq(w, 1, m) \in split BY DEF Torn
<1>2. SubSeq(SubSeq(w, 1, n), 1, m) \in split /\ Len(SubSeq(w, 1, n)) = n BY <1>1, WordStarts
<1> QED BY <1>2 DEF Split

(* One row is on one path only.                                            *)
LEMMA IsSame ==
  ASSUME NEW co, NEW re, NEW ci, NEW n \in 1..3, NEW i, NEW v, NEW w, Is(co, re, ci, n, i, v)
  PROVE  Is(co, re, ci, n, i, w) <=> Same(n, v, w)
<1>1. CASE n = 1 BY <1>1 DEF Is, IsCountry, Same
<1>2. CASE n = 2 BY <1>2 DEF Is, IsRegion, IsCountry, Same
<1>3. CASE n = 3 BY <1>3 DEF Is, IsCity, IsRegion, IsCountry, Same
<1> QED BY <1>1, <1>2, <1>3

Level(f, n) == \/ n = 1 /\ f.kind = "country"
               \/ n = 2 /\ f.kind = "region"
               \/ n = 3 /\ f.kind = "city"

LEMMA SmallSeqs ==
  ASSUME NEW S, NEW a \in S, NEW b \in S, NEW c \in S
  PROVE  /\ <<a>> \in Seq(S) /\ Len(<<a>>) = 1 /\ <<a>>[1] = a
         /\ \A v : \A j \in 1..1 : v[1] = a => <<a>>[j] = v[j]
         /\ <<a, b>> \in Seq(S) /\ Len(<<a, b>>) = 2
         /\ \A v : \A j \in 1..2 : v[1] = a /\ v[2] = b => <<a, b>>[j] = v[j]
         /\ Append(<<a, b>>, c) = <<a, b, c>>
<1>1. /\ <<a>> \in Seq(S) /\ Len(<<a>>) = 1 /\ <<a>>[1] = a
      /\ <<a, b>> \in Seq(S) /\ Len(<<a, b>>) = 2
      /\ <<a, b>>[1] = a /\ <<a, b>>[2] = b
  OBVIOUS
<1>2. /\ <<a, b, c>> \in Seq(S) /\ Len(<<a, b, c>>) = 3
      /\ <<a, b, c>>[1] = a /\ <<a, b, c>>[2] = b /\ <<a, b, c>>[3] = c
  OBVIOUS
<1>3. /\ Append(<<a, b>>, c) \in Seq(S) /\ Len(Append(<<a, b>>, c)) = 3
      /\ Append(<<a, b>>, c)[3] = c
      /\ \A j \in 1..2 : Append(<<a, b>>, c)[j] = <<a, b>>[j]
  <2> DEFINE s == <<a, b>>
  <2>1. s \in Seq(S) /\ Len(s) = 2 /\ DOMAIN s = 1..2 BY <1>1, RowsOfSeq
  <2> HIDE DEF s
  <2>2. /\ Append(s, c) \in Seq(S) /\ Len(Append(s, c)) = 2 + 1
        /\ Append(s, c)[2 + 1] = c /\ \A j \in 1..2 : Append(s, c)[j] = s[j]
    BY <2>1, AppendRows
  <2> QED BY <2>2 DEF s
<1>4. Append(<<a, b>>, c) = <<a, b, c>>
  <2>1. \A j \in 1..3 : Append(<<a, b>>, c)[j] = <<a, b, c>>[j]
    <3>1. Append(<<a, b>>, c)[1] = a /\ Append(<<a, b>>, c)[2] = b BY <1>1, <1>3
    <3> QED BY <1>2, <1>3, <3>1
  <2> QED BY <1>2, <1>3, <2>1, SeqEqual
<1>5. \A j \in 1..1 : j = 1 OBVIOUS
<1>6. \A j \in 1..2 : j = 1 \/ j = 2 OBVIOUS
<1> QED BY <1>1, <1>4, <1>5, <1>6

LEMMA FilterPath ==
  ASSUME TablesTyped, NEW f \in Filters, f.kind # "all"
  PROVE  \E n \in 1..3 : \E w \in Words :
           /\ Level(f, n) /\ Is(country, region, city, n, f.id, w) /\ f.id \in Nat
           /\ PathOf(f) = SubSeq(w, 1, n)
<1>1. Other \in Names BY DEF Names
<1>2. ASSUME NEW r \in DOMAIN region
      PROVE  /\ country[region[r].country] \in Names /\ region[r].name \in Names
             /\ region[r].country \in DOMAIN country
  BY TableRows DEF TablesTyped
<1>3. ASSUME NEW w \in Words
      PROVE  SubSeq(w, 1, 1) = <<w[1]>> /\ SubSeq(w, 1, 2) = <<w[1], w[2]>>
             /\ SubSeq(w, 1, 3) = w
  <2>1. PICK a \in Names, b \in Names, c \in Names : w = <<a, b, c>> BY DEF Words
  <2>2. w \in Seq(Names) /\ Len(w) = 3 BY <2>1
  <2>3. SubSeq(w, 1, 3) = w BY <2>2, SubSeqFull
  <2>4. ASSUME NEW n \in 1..3
        PROVE  /\ SubSeq(w, 1, n) \in Seq(Names) /\ Len(SubSeq(w, 1, n)) = n
               /\ \A j \in 1..n : SubSeq(w, 1, n)[j] = w[j]
    <3>1. 1 \in Int /\ n \in Int /\ \A j \in 1..n : w[j] \in Names BY <2>1
    <3>2. /\ SubSeq(w, 1, n) \in Seq(Names)
          /\ Len(SubSeq(w, 1, n)) = IF 1 <= n THEN n - 1 + 1 ELSE 0
          /\ \A j \in 1..n - 1 + 1 : SubSeq(w, 1, n)[j] = w[1 + j - 1]
      BY <3>1, SubSeqProperties
    <3> QED BY <3>2
  <2>5. ASSUME NEW n \in 1..3, NEW s \in Seq(Names), Len(s) = n, \A j \in 1..n : s[j] = w[j]
        PROVE  SubSeq(w, 1, n) = s
    BY <2>4, <2>5, SeqEqual
  <2>6. /\ <<w[1]>> \in Seq(Names) /\ Len(<<w[1]>>) = 1
        /\ \A j \in 1..1 : <<w[1]>>[j] = w[j]
        /\ <<w[1], w[2]>> \in Seq(Names) /\ Len(<<w[1], w[2]>>) = 2
        /\ \A j \in 1..2 : <<w[1], w[2]>>[j] = w[j]
    BY <2>1, SmallSeqs
  <2>7. SubSeq(w, 1, 1) = <<w[1]>>
    <3> DEFINE s == <<w[1]>>
    <3>1. s \in Seq(Names) /\ Len(s) = 1 /\ \A j \in 1..1 : s[j] = w[j] BY <2>6
    <3> HIDE DEF s
    <3>2. 1 \in 1..3 OBVIOUS
    <3>3. SubSeq(w, 1, 1) = s BY <2>5, <3>1, <3>2
    <3> QED BY <3>3 DEF s
  <2>8. SubSeq(w, 1, 2) = <<w[1], w[2]>>
    <3> DEFINE s == <<w[1], w[2]>>
    <3>1. s \in Seq(Names) /\ Len(s) = 2 /\ \A j \in 1..2 : s[j] = w[j] BY <2>6
    <3> HIDE DEF s
    <3>2. 2 \in 1..3 OBVIOUS
    <3>3. SubSeq(w, 1, 2) = s BY <2>5, <3>1, <3>2
    <3> QED BY <3>3 DEF s
  <2> QED BY <2>3, <2>7, <2>8
<1>4. CASE f.kind = "country"
  <2>1. f.id \in DOMAIN country BY <1>4 DEF Filters, All
  <2> DEFINE w == <<country[f.id], Other, Other>>
  <2>2. w \in Words /\ w[1] = country[f.id] /\ f.id \in Nat BY <1>1, <2>1, TableRows DEF Words
  <2>3. PathOf(f) = <<country[f.id]>> BY <1>4 DEF PathOf
  <2> HIDE DEF w
  <2>4. PathOf(f) = SubSeq(w, 1, 1) BY <1>3, <2>2, <2>3
  <2>5. Is(country, region, city, 1, f.id, w) BY <2>1, <2>2 DEF Is, IsCountry
  <2> QED BY <1>4, <2>2, <2>4, <2>5 DEF Level
<1>5. CASE f.kind = "region"
  <2>1. f.id \in DOMAIN region BY <1>5 DEF Filters, All
  <2> DEFINE w == <<country[region[f.id].country], region[f.id].name, Other>>
  <2>2. w \in Words /\ w[1] = country[region[f.id].country] /\ w[2] = region[f.id].name
        /\ f.id \in Nat
    BY <1>1, <1>2, <2>1, TableRows DEF Words
  <2>3. PathOf(f) = <<w[1], w[2]>> BY <1>5, <2>2 DEF PathOf, RegionPath
  <2> HIDE DEF w
  <2>4. PathOf(f) = SubSeq(w, 1, 2) BY <1>3, <2>2, <2>3
  <2>5. Is(country, region, city, 2, f.id, w)
    BY <1>2, <2>1, <2>2 DEF Is, IsRegion, IsCountry
  <2> QED BY <1>5, <2>2, <2>4, <2>5 DEF Level
<1>6. CASE f.kind = "city"
  <2> DEFINE r == city[f.id].region
  <2>1. f.id \in DOMAIN city BY <1>6 DEF Filters, All
  <2>2. r \in DOMAIN region /\ city[f.id].name \in Names /\ f.id \in Nat
    BY <2>1, TableRows DEF TablesTyped
  <2> DEFINE w == <<country[region[r].country], region[r].name, city[f.id].name>>
  <2>3. w \in Words /\ w[1] = country[region[r].country] /\ w[2] = region[r].name
        /\ w[3] = city[f.id].name
    BY <1>2, <2>2 DEF Words
  <2>4. PathOf(f) = w
    <3>1. PathOf(f) = Append(<<w[1], w[2]>>, w[3])
      BY <1>6, <2>3 DEF PathOf, CityPath, RegionPath
    <3>2. w = <<w[1], w[2], w[3]>> BY <2>3
    <3>3. Append(<<w[1], w[2]>>, w[3]) = <<w[1], w[2], w[3]>>
      BY <1>2, <2>2, <2>3, SmallSeqs
    <3> QED BY <3>1, <3>2, <3>3
  <2> HIDE DEF w
  <2>5. PathOf(f) = SubSeq(w, 1, 3) BY <1>3, <2>3, <2>4
  <2>6. Is(country, region, city, 3, f.id, w)
    BY <1>2, <2>1, <2>2, <2>3 DEF Is, IsCity, IsRegion, IsCountry
  <2> QED BY <1>6, <2>2, <2>3, <2>5, <2>6 DEF Level
<1>7. f.kind \in {"all", "country", "region", "city"} BY DEF Filters, All
<1> QED BY <1>4, <1>5, <1>6, <1>7

LEMMA OneRowHolds == ListInv => OneRowPerPlace
<1> SUFFICES ASSUME ListInv, NEW f \in Filters, NEW g \in Filters,
                    f.id < g.id, f.kind = g.kind, PathOf(f) = PathOf(g)
             PROVE  Split(PathOf(f))
  BY DEF OneRowPerPlace
<1>1. TablesTyped /\ RowsOnce BY DEF ListInv, TablesInv
<1>2. f.kind # "all"
  <2> SUFFICES ASSUME f.kind = "all" PROVE FALSE OBVIOUS
  <2>1. ASSUME NEW h \in Filters, h.kind = "all" PROVE h.id = 0
    <3>1. h \in {All} BY <2>1 DEF Filters
    <3> QED BY <3>1 DEF All
  <2>2. f.id = 0 /\ g.id = 0 BY <2>1
  <2>3. ~ (0 < 0) OBVIOUS
  <2> QED BY <2>2, <2>3
<1>3. PICK n \in 1..3 : \E w \in Words :
           /\ Level(f, n) /\ Is(country, region, city, n, f.id, w) /\ f.id \in Nat
           /\ PathOf(f) = SubSeq(w, 1, n)
  BY <1>1, <1>2, FilterPath
<1>4. PICK v \in Words : /\ Level(f, n) /\ Is(country, region, city, n, f.id, v) /\ f.id \in Nat
                        /\ PathOf(f) = SubSeq(v, 1, n)
  BY <1>3
<1>5. PICK m \in 1..3 : \E w \in Words :
           /\ Level(g, m) /\ Is(country, region, city, m, g.id, w) /\ g.id \in Nat
           /\ PathOf(g) = SubSeq(w, 1, m)
  BY <1>1, <1>2, FilterPath
<1>6. PICK w \in Words : /\ Level(g, m) /\ Is(country, region, city, m, g.id, w) /\ g.id \in Nat
                        /\ PathOf(g) = SubSeq(w, 1, m)
  BY <1>5
<1>7. m = n BY <1>4, <1>6 DEF Level
<1>8. Same(n, w, v) BY <1>4, <1>6, <1>7, StartSame
<1>9. Is(country, region, city, n, g.id, v) BY <1>6, <1>7, <1>8, IsSame
<1>10. f.id # g.id BY <1>4, <1>6
<1>11. Torn(split, n, v) BY <1>1, <1>4, <1>6, <1>9, <1>10 DEF RowsOnce
<1> QED BY <1>4, <1>11, SplitStart

LEMMA SearchHolds == ListInv => SearchIsWhole
<1> SUFFICES ASSUME ListInv, NEW a \in Rows, row[a].active, NEW f \in Filters
             PROVE  IF In(row[a].city, f) THEN IsPrefix(PathOf(f), Path(row[a].point))
                    ELSE IsPrefix(PathOf(f), Path(row[a].point)) => Split(PathOf(f))
  BY DEF SearchIsWhole
<1> DEFINE v == Path(row[a].point)
<1> DEFINE c == row[a].city
<1>1. TablesTyped /\ RowsOnce /\ IsCity(country, region, city, c, v)
      /\ row[a].point \in Points
  BY DEF ListInv, TablesInv, RowsPlaced, AdvertsTyped, RowOf
<1>2. v \in Words BY <1>1, PathsAreWords
<1>3. CASE f.kind = "all"
  <2>1. In(c, f) BY <1>3 DEF In
  <2>2. PathOf(f) = <<>> BY <1>3 DEF PathOf
  <2>3. Len(<<>>) = 0 /\ Len(v) = 3 BY <1>2, WordStarts
  <2>4. SubSeq(<<>>, 1, 0) = <<>> /\ SubSeq(v, 1, 0) = <<>> BY SubSeqEmpty
  <2>5. IsPrefix(PathOf(f), v) BY <2>2, <2>3, <2>4 DEF IsPrefix
  <2> QED BY <2>1, <2>5
<1>4. CASE f.kind # "all"
  <2>1. PICK n \in 1..3 : \E w \in Words :
           /\ Level(f, n) /\ Is(country, region, city, n, f.id, w) /\ f.id \in Nat
           /\ PathOf(f) = SubSeq(w, 1, n)
    BY <1>1, <1>4, FilterPath
  <2>2. PICK w \in Words : /\ Level(f, n) /\ Is(country, region, city, n, f.id, w)
                          /\ f.id \in Nat /\ PathOf(f) = SubSeq(w, 1, n)
    BY <2>1
  <2> DEFINE at == IF n = 3 THEN c ELSE IF n = 2 THEN city[c].region
                   ELSE region[city[c].region].country
  <2>3. Is(country, region, city, n, at, v) /\ at \in Nat
    <3>1. /\ c \in DOMAIN city /\ city[c].region \in DOMAIN region
          /\ region[city[c].region].country \in DOMAIN country
      BY <1>1 DEF TablesTyped, IsCity
    <3>2. c \in Nat /\ city[c].region \in Nat /\ region[city[c].region].country \in Nat
      BY <1>1, <3>1, TableRows
    <3> HIDE DEF v, c
    <3> QED BY <1>1, <3>2 DEF Is, IsCity, IsRegion
  <2>4. In(c, f) <=> f.id = at BY <2>2 DEF In, Level
  <2>5. IsPrefix(PathOf(f), v) <=> Same(n, w, v)
    <3>1. Len(v) = 3 /\ Len(PathOf(f)) = n /\ SubSeq(PathOf(f), 1, n) = PathOf(f)
      <4>1. PathOf(f) \in Seq(Names) /\ Len(PathOf(f)) = n BY <2>2, WordStarts
      <4> QED BY <1>2, <4>1, WordStarts, SubSeqFull
    <3>2. n <= 3 OBVIOUS
    <3>3. IsPrefix(PathOf(f), v) <=> SubSeq(w, 1, n) = SubSeq(v, 1, n)
      BY <2>2, <3>1, <3>2 DEF IsPrefix
    <3> HIDE DEF v
    <3> QED BY <1>2, <3>3, SameStart, StartSame
  <2> HIDE DEF v, c, at
  <2>6. CASE In(c, f)
    <3>1. Is(country, region, city, n, f.id, v) BY <2>3, <2>4, <2>6
    <3>2. Same(n, w, v) BY <2>2, <3>1, IsSame
    <3> QED BY <2>5, <2>6, <3>2 DEF v, c
  <2>7. CASE ~ In(c, f)
    <3> SUFFICES ASSUME IsPrefix(PathOf(f), v) PROVE Split(PathOf(f)) BY <2>7 DEF v, c
    <3>1. Same(n, w, v) BY <2>5
    <3>2. Is(country, region, city, n, f.id, v) BY <2>2, <3>1, IsSame
    <3>3. Torn(split, n, v) BY <1>1, <1>2, <2>2, <2>3, <2>4, <2>7, <3>2 DEF RowsOnce
    <3>4. SubSeq(w, 1, n) = SubSeq(v, 1, n) BY <1>2, <3>1, SameStart
    <3> QED BY <1>2, <2>2, <3>3, <3>4, SplitStart
  <2> QED BY <2>6, <2>7
<1> QED BY <1>3, <1>4

-----------------------------------------------------------------------------
(* The rows of places hang together, adverts are in cities and have times  *)
(* of their own, handlers and the visitor refer to what there is.          *)
THEOREM ListingsTyped == Spec => []TypeOK
<1> QED BY TypesHold, Invariant, PTL

(* However creations and updates overlap, a country, a region or a city    *)
(* gets a second row only where two lookups both missed a name on its      *)
(* path: getLocation inserts nothing it has found.                         *)
THEOREM OneRowUnlessSplit == Spec => []OneRowPerPlace
<1> QED BY OneRowHolds, Invariant, PTL

(* A search by place finds the active adverts there and no others, except  *)
(* that it may miss those of a split place.                                *)
THEOREM SearchWholeUnlessSplit == Spec => []SearchIsWhole
<1> QED BY SearchHolds, Invariant, PTL

(* Whatever the page size and however many adverts come, change and go     *)
(* between two pages, a visitor who reaches the total has seen all that    *)
(* matched throughout, unless what he had passed went away or one came     *)
(* late.                                                                   *)
THEOREM PagesNeverMiss == Spec => []PagesMissNone
<1>1. ListInv => PagesMissNone BY DEF ListInv, VisitorInv
<1> QED BY <1>1, Invariant, PTL

(* No wish survives its user or its advert, not even one saved by a        *)
(* handler that read both before they were deleted.                        *)
THEOREM WishesAlwaysHold == Spec => []WishesHold
<1>1. ListInv => WishesHold BY DEF ListInv, WishesInv
<1> QED BY <1>1, Invariant, PTL

-----------------------------------------------------------------------------
(* What the exception is worth: nothing is split while no two handlers are *)
(* between a lookup that missed and its insert.                            *)
LookupsApart == \A p, q \in Procs : mem[p].op = "city" /\ mem[q].op = "city" => p = q

LEMMA FoundWhole ==
  ASSUME TablesTyped, NEW v,
         NEW k \in Countries(v), NEW r \in Regions(v, k), NEW c \in Cities(v, r), c # 0
  PROVE  k # 0 /\ r # 0
<1>1. /\ DOMAIN country = 1..Len(country) /\ DOMAIN region = 1..Len(region)
      /\ \A j \in DOMAIN region : region[j].country \in DOMAIN country
      /\ \A j \in DOMAIN city : city[j].region \in DOMAIN region
  BY DEF TablesTyped
<1>2. c \in DOMAIN city /\ city[c] = [name |-> v[3], region |-> r] BY DEF Cities, OrNone
<1>3. city[c].region = r BY <1>2
<1>4. r # 0 BY <1>1, <1>2, <1>3
<1>5. r \in DOMAIN region /\ region[r] = [name |-> v[2], country |-> k]
  BY <1>4 DEF Regions, OrNone
<1>6. region[r].country = k BY <1>5
<1>7. k # 0 BY <1>1, <1>5, <1>6
<1> QED BY <1>4, <1>7

LEMMA LookupSplitsNothing ==
  ASSUME ListInv, split = {}, LookupsApart', NEW p \in Procs, NEW a, NEW x, NEW active,
         LooksUp(p, a, x, active)
  PROVE  split' = {}
<1> DEFINE v == Path(x)
<1> DEFINE Of(k, r, c) == [country |-> k, region |-> r, city |-> c]
<1> DEFINE others == UNION {Missed(Path(mem[q].row.point), mem[q].found)
                              : q \in {q \in Procs \ {p} : At(q, "city")}}
<1> DEFINE Finds(k, r, c) ==
        /\ Goes(p, [Idle EXCEPT !.op = NextOp(Of(k, r, c)), !.advert = a,
                      !.found = IF NextOp(Of(k, r, c)) = "city" THEN Of(k, r, c)
                                ELSE Nothing,
                      !.row = [point |-> x, city |-> c, active |-> active]])
        /\ split' = split \cup (Missed(v, Of(k, r, c)) \cap others)
<1>1. PICK k \in Countries(v) : \E r \in Regions(v, k) : \E c \in Cities(v, r) : Finds(k, r, c)
  BY DEF LooksUp
<1>2. PICK r \in Regions(v, k) : \E c \in Cities(v, r) : Finds(k, r, c)
  BY <1>1
<1>3. PICK c \in Cities(v, r) : Finds(k, r, c)
  BY <1>2
<1>4. TablesTyped /\ DOMAIN mem = Procs
  BY DEF ListInv, TablesInv, HandlersInv, MemTyped
<1>5. CASE c = 0
  <2> DEFINE m == [Idle EXCEPT !.op = NextOp(Of(k, r, c)), !.advert = a,
                      !.found = IF NextOp(Of(k, r, c)) = "city" THEN Of(k, r, c)
                                ELSE Nothing,
                      !.row = [point |-> x, city |-> c, active |-> active]]
  <2>1. m.op = "city" BY <1>5 DEF NextOp, Idle
  <2>2. mem' = [mem EXCEPT ![p] = m] BY <1>3 DEF Goes
  <2> HIDE DEF m
  <2>3. mem'[p].op = "city" /\ \A q \in Procs \ {p} : mem'[q] = mem[q] BY <1>4, <2>1, <2>2
  <2>4. \A q \in Procs \ {p} : ~ At(q, "city") BY <2>3 DEF LookupsApart, At
  <2>5. others = {} BY <2>4
  <2> HIDE DEF others
  <2> QED BY <1>3, <2>5
<1>6. CASE c # 0
  <2>1. k # 0 /\ r # 0 BY <1>4, <1>6, FoundWhole
  <2>2. Missed(v, Of(k, r, c)) = {} BY <1>6, <2>1 DEF Missed
  <2> HIDE DEF others
  <2> QED BY <1>3, <2>2
<1> QED BY <1>5, <1>6

LEMMA SplitsNothing ==
  ASSUME ListInv, split = {}, LookupsApart', [Next]_vars
  PROVE  split' = {}
<1>1. ASSUME NEW p \in Procs, ItemRequests(p) PROVE split' = {}
  BY <1>1, LookupSplitsNothing DEF ItemRequests, CreateLooksUp, UpdateReads, RemoveAdvert, Without
<1>2. ASSUME NEW p \in Procs, NEW x \in Points, UpdateLooksUp(p, x) PROVE split' = {}
  BY <1>2, LookupSplitsNothing DEF UpdateLooksUp
<1>3. ASSUME UNCHANGED split PROVE split' = {} BY <1>3
<1>4. CASE Next
  BY <1>1, <1>2, <1>4 DEF Next, CitySaves, AdvertSaves, WishSaves, Abort, WishRequests,
     WishReads, WishRemoved, SearchRequests, VisitStarts, VisitCounts, VisitReads, VisitEnds,
     Expires, DeleteUser
<1>5. CASE UNCHANGED vars BY <1>5 DEF vars
<1> QED BY <1>4, <1>5


PlacesWhole ==
  /\ \A f, g \in Filters : f.kind = g.kind /\ PathOf(f) = PathOf(g) => f.id = g.id
  /\ \A a \in Rows : row[a].active =>
       \A f \in Filters : In(row[a].city, f) <=> IsPrefix(PathOf(f), Path(row[a].point))

(* If lookups that may insert are kept apart from each other, as a lock    *)
(* around getLocation and its save would, then a place has one row and a   *)
(* filter finds all and only the active adverts there, without exception.  *)
THEOREM ApartLookupsKeepPlacesWhole == Spec /\ []LookupsApart => []PlacesWhole
<1>1. Init => split = {} BY DEF Init
<1>2. ListInv /\ split = {} /\ LookupsApart' /\ [Next]_vars => (split = {})'
  BY SplitsNothing
<1>3. ListInv /\ split = {} =>
        \A f, g \in Filters : f.kind = g.kind /\ PathOf(f) = PathOf(g) => f.id = g.id
  <2> SUFFICES ASSUME ListInv, split = {}, NEW f \in Filters, NEW g \in Filters,
                      f.kind = g.kind, PathOf(f) = PathOf(g)
               PROVE  f.id = g.id
    OBVIOUS
  <2>1. ASSUME NEW h \in Filters PROVE h.id \in Nat
    <3>1. TablesTyped BY DEF ListInv, TablesInv
    <3>2. /\ \A j \in DOMAIN country : j \in Nat
          /\ \A j \in DOMAIN region : j \in Nat
          /\ \A j \in DOMAIN city : j \in Nat
      BY <3>1, TableRows
    <3> QED BY <2>1, <3>2 DEF Filters, All
  <2>2. \A path : ~ Split(path) BY DEF Split
  <2>3. ~ (f.id < g.id) /\ ~ (g.id < f.id) BY <2>2, OneRowHolds DEF OneRowPerPlace
  <2> QED BY <2>1, <2>3
<1>4. ListInv /\ split = {} =>
        \A a \in Rows : row[a].active =>
          \A f \in Filters : In(row[a].city, f) <=> IsPrefix(PathOf(f), Path(row[a].point))
  <2> SUFFICES ASSUME ListInv, split = {}, NEW a \in Rows, row[a].active, NEW f \in Filters
               PROVE  In(row[a].city, f) <=> IsPrefix(PathOf(f), Path(row[a].point))
    OBVIOUS
  <2>1. ~ Split(PathOf(f)) BY DEF Split
  <2> QED BY <2>1, SearchHolds DEF SearchIsWhole
<1>5. ListInv /\ split = {} => PlacesWhole BY <1>3, <1>4 DEF PlacesWhole
<1> QED BY <1>1, <1>2, <1>5, Invariant, PTL DEF Spec
=============================================================================
