------------------------- MODULE ItemsCalendarProofs -------------------------
(* The life span of adverts: what is EXPIRED is old, what is purged is too. *)
EXTENDS ItemsProofs

(* A handler that writes EXPIRED back read it from an advert that was old. *)
Aged(m, ages) ==
  m.status = "EXPIRED" => m.item \in ItemIds /\ ages[m.item] > ExpireAge

(* Ages only grow, so what the purge listed stays old enough, and a stale  *)
(* EXPIRED stays true however late it is written.                          *)
CalendarInv ==
  /\ ExpiredIsOld
  /\ \A p \in Procs : Aged(mem[p], age)
  /\ \A i \in purge.todo : age[i] > DraftAge
  /\ purge.item # NoItem => age[purge.item] > DraftAge

-----------------------------------------------------------------------------
LEMMA CalendarInit == Init => CalendarInv
  BY DEF Init, CalendarInv, ExpiredIsOld, Aged, Idle, NoPurge

LEMMA CalendarSame ==
  ASSUME CalendarInv, UNCHANGED <<status, age, mem, purge>>
  PROVE  CalendarInv'
  BY DEF CalendarInv, ExpiredIsOld, Aged

LEMMA CalendarRemembers ==
  ASSUME StateInv, CalendarInv, NEW p \in Procs, NEW m, Remember(p, m), Aged(m, age), age' = age
  PROVE  \A q \in Procs : Aged(mem'[q], age')
  BY DEF Remember, CalendarInv, StateInv, TypeInv, TypeOK

LEMMA CalendarOnlyMem ==
  ASSUME StateInv, CalendarInv, NEW p \in Procs, NEW m, Remember(p, m), Aged(m, age), OnlyMem
  PROVE  CalendarInv'
<1>1. \A q \in Procs : Aged(mem'[q], age')
  BY CalendarRemembers DEF OnlyMem, timeVars
<1>. QED
  BY <1>1 DEF CalendarInv, ExpiredIsOld, OnlyMem, dbVars, timeVars, Aged

LEMMA CalendarIdle == Aged(Idle, age)
  BY DEF Aged, Idle

(* A save writes what was read, and what was read was old if EXPIRED.      *)
LEMMA CalendarSaveItem ==
  ASSUME StateInv, CalendarInv, NEW p \in Procs, NEW images,
         mem[p].item \in ItemIds, SaveItem(mem[p].item, mem[p].status, images),
         Remember(p, Idle), UNCHANGED <<age, purge>>
  PROVE  CalendarInv'
<1>1. \A q \in Procs : Aged(mem'[q], age')
  BY CalendarIdle, CalendarRemembers
<1>2. \A i \in ItemIds : \/ status'[i] = status[i]
                         \/ i = mem[p].item /\ status'[i] = mem[p].status
  BY DEF SaveItem, StateInv, TypeInv, TypeOK
<1>3. ExpiredIsOld'
  BY <1>2 DEF ExpiredIsOld, CalendarInv, Aged
<1>. QED
  BY <1>1, <1>3 DEF CalendarInv, Aged

LEMMA CalendarUpdating ==
  ASSUME StateInv, CalendarInv, Updating
  PROVE  CalendarInv'
<1>1. ASSUME NEW p \in Procs, NEW c, NEW i \in ItemIds, NEW s \in Statuses, UpdateReads(p, c, i, s)
      PROVE  CalendarInv'
  <2>. DEFINE m == [Idle EXCEPT !.op = "update", !.item = i,
                                !.status = s, !.images = RowsOf(i)]
  <2>1. Aged(m, age)
    BY <1>1 DEF UpdateReads, Aged, Idle
  <2>. QED
    BY <1>1, <2>1, CalendarOnlyMem DEF UpdateReads
<1>2. ASSUME NEW p \in Procs, NEW r \in RowIds, UpdateFindsImage(p, r)
      PROVE  CalendarInv'
  <2>. DEFINE m == [mem[p] EXCEPT !.op = "found", !.image = r]
  <2>1. Aged(m, age)
    BY DEF CalendarInv, Aged, StateInv, TypeInv, TypeOK, Memory
  <2>. QED
    BY <1>2, <2>1, CalendarOnlyMem DEF UpdateFindsImage
<1>3. ASSUME NEW p \in Procs, UpdateQueuesImage(p)
      PROVE  CalendarInv'
  <2>. DEFINE m == [mem[p] EXCEPT !.op = "queued"]
  <2>1. Aged(m, age)
    BY DEF CalendarInv, Aged, StateInv, TypeInv, TypeOK, Memory
  <2>2. Remember(p, m) /\ UNCHANGED <<status, age, purge>>
    BY <1>3 DEF UpdateQueuesImage, dbVars, timeVars
  <2>. HIDE DEF m
  <2>. QED
    BY <2>1, <2>2, CalendarRemembers DEF CalendarInv, ExpiredIsOld, Aged
<1>4. ASSUME NEW p \in Procs, UpdateRemovesImage(p)
      PROVE  CalendarInv'
  <2>. DEFINE m == [mem[p] EXCEPT !.op = "update", !.image = NoRow,
                                  !.images = @ \ {mem[p].image}]
  <2>1. Aged(m, age)
    BY DEF CalendarInv, Aged, StateInv, TypeInv, TypeOK, Memory
  <2>2. Remember(p, m) /\ UNCHANGED <<status, age, purge>>
    BY <1>4 DEF UpdateRemovesImage, timeVars
  <2>. HIDE DEF m
  <2>. QED
    BY <2>1, <2>2, CalendarRemembers DEF CalendarInv, ExpiredIsOld, Aged
<1>5. ASSUME NEW p \in Procs, NEW want \in BOOLEAN, UpdateSaves(p, want)
      PROVE  CalendarInv'
  <2>1. mem[p].item \in ItemIds
    BY <1>5 DEF UpdateSaves, StateInv, TypeInv, MemOK, Sound
  <2>. QED
    BY <1>5, <2>1, CalendarSaveItem DEF UpdateSaves, timeVars
<1>. QED
  BY <1>1, <1>2, <1>3, <1>4, <1>5 DEF Updating

LEMMA CalendarAddingImages ==
  ASSUME StateInv, CalendarInv, AddingImages
  PROVE  CalendarInv'
<1>1. ASSUME NEW p \in Procs, NEW c, NEW i \in ItemIds, NEW publish \in BOOLEAN,
             AddImagesReads(p, c, i, publish)
      PROVE  CalendarInv'
  <2>. DEFINE st == IF status[i] = "DRAFT" /\ publish THEN "ACTIVE" ELSE status[i]
              m  == [Idle EXCEPT !.op = "addImages", !.item = i, !.status = st,
                                 !.images = RowsOf(i)]
  <2>1. st = "EXPIRED" => age[i] > ExpireAge
    BY DEF CalendarInv, ExpiredIsOld
  <2>2. Remember(p, m) /\ OnlyMem
    BY <1>1 DEF AddImagesReads
  <2>. HIDE DEF st
  <2>3. Aged(m, age)
    BY <2>1 DEF Aged, Idle
  <2>. QED
    BY <2>2, <2>3, CalendarOnlyMem
<1>2. ASSUME NEW p \in Procs, NEW r \in RowIds, NEW l \in Links, AddImagesChecks(p, r, l)
      PROVE  CalendarInv'
  <2>. DEFINE m == [mem[p] EXCEPT !.added = @ \cup {r}]
  <2>1. Aged(m, age)
    BY DEF CalendarInv, Aged, StateInv, TypeInv, TypeOK, Memory
  <2>2. Remember(p, m) /\ UNCHANGED <<status, age, purge>>
    BY <1>2 DEF AddImagesChecks, AddRow, dbVars, timeVars
  <2>. HIDE DEF m
  <2>. QED
    BY <2>1, <2>2, CalendarRemembers DEF CalendarInv, ExpiredIsOld, Aged
<1>3. ASSUME NEW p \in Procs, AddImagesSaves(p)
      PROVE  CalendarInv'
  <2>1. mem[p].item \in ItemIds
    BY <1>3 DEF AddImagesSaves, StateInv, TypeInv, MemOK, Sound
  <2>. QED
    BY <1>3, <2>1, CalendarSaveItem DEF AddImagesSaves, timeVars
<1>. QED
  BY <1>1, <1>2, <1>3 DEF AddingImages

(* Removed adverts are not EXPIRED.                                        *)
LEMMA CalendarDeleteItems ==
  ASSUME CalendarInv, NEW gone, DeleteItems(gone), UNCHANGED age
  PROVE  ExpiredIsOld'
  BY DEF DeleteItems, CalendarInv, ExpiredIsOld

LEMMA CalendarRemoving ==
  ASSUME StateInv, CalendarInv, Removing \/ DeletingUsers
  PROVE  CalendarInv'
<1>1. ASSUME NEW p \in Procs, NEW c, NEW i \in ItemIds, NEW d \in BOOLEAN, RemoveReads(p, c, i, d)
      PROVE  CalendarInv'
  <2>. DEFINE m == [Idle EXCEPT !.op = "remove", !.item = i]
  <2>1. Aged(m, age)
    BY DEF Aged, Idle
  <2>2. Remember(p, m) /\ UNCHANGED <<status, age, purge>>
    BY <1>1 DEF RemoveReads, dbVars, timeVars
  <2>. HIDE DEF m
  <2>. QED
    BY <2>1, <2>2, CalendarRemembers DEF CalendarInv, ExpiredIsOld, Aged
<1>2. ASSUME NEW p \in Procs, RemoveDeletes(p)
      PROVE  CalendarInv'
  BY <1>2, CalendarIdle, CalendarRemembers, CalendarDeleteItems
  DEF RemoveDeletes, CalendarInv, Aged, timeVars
<1>3. ASSUME NEW u \in Users, DeleteUserRemoves(u)
      PROVE  CalendarInv'
  BY <1>3, CalendarDeleteItems DEF DeleteUserRemoves, CalendarInv, Aged, timeVars
<1>4. CASE \E u \in Users : DeleteUserFails(u) \/ \E d \in BOOLEAN : DeleteUserQueues(u, d)
  BY <1>4, CalendarSame DEF DeleteUserFails, DeleteUserQueues, dbVars, timeVars
<1>. QED
  BY <1>1, <1>2, <1>3, <1>4 DEF Removing, DeletingUsers

LEMMA CalendarPurge ==
  ASSUME StateInv, CalendarInv, Purge
  PROVE  CalendarInv'
<1>1. CASE PurgeLists
  BY <1>1 DEF PurgeLists, PurgeStarts, OnlyPurge, NoPurge, CalendarInv, ExpiredIsOld, Aged,
              dbVars, timeVars
<1>2. ASSUME NEW i \in ItemIds, NEW d \in BOOLEAN, PurgeReads(i, d)
      PROVE  CalendarInv'
  BY <1>2 DEF PurgeReads, CalendarInv, ExpiredIsOld, Aged, StateInv, TypeInv, TypeOK,
              dbVars, timeVars
<1>3. CASE PurgeDeletes
  BY <1>3, CalendarDeleteItems DEF PurgeDeletes, CalendarInv, Aged, timeVars
<1>4. CASE PurgeFails \/ \E i \in ItemIds : PurgeMisses(i)
  BY <1>4 DEF PurgeFails, PurgeMisses, OnlyPurge, NoPurge, CalendarInv, ExpiredIsOld, Aged,
              dbVars, timeVars
<1>. QED
  BY <1>1, <1>2, <1>3, <1>4 DEF Purge

LEMMA CalendarTick ==
  ASSUME StateInv, CalendarInv, Tick
  PROVE  CalendarInv'
<1>1. \A i \in ItemIds : /\ age[i] \in Nat /\ age'[i] \in Nat
                         /\ age'[i] >= age[i]
  BY TimeAssumption DEF Tick, SetMin, StateInv, TypeInv, TypeOK
<1>2. /\ \A p \in Procs : mem[p].status = "EXPIRED" => mem[p].item \in ItemIds
      /\ purge.todo \subseteq ItemIds /\ purge.item \in ItemIds \cup {NoItem}
      /\ ExpireAge \in Nat /\ DraftAge \in Nat
  BY TimeAssumption DEF CalendarInv, Aged, StateInv, TypeInv, TypeOK
<1>3. UNCHANGED <<status, mem, purge>>
  BY DEF Tick, dbVars
<1>. QED
  BY <1>1, <1>2, <1>3 DEF CalendarInv, ExpiredIsOld, Aged

LEMMA CalendarNext ==
  ASSUME StateInv, CalendarInv, [Next]_vars
  PROVE  CalendarInv'
<1>1. CASE Publishing
  <2>1. ASSUME NEW u, NEW i, NEW want, Create(u, i, want)
        PROVE  CalendarInv'
    <3>1. \A j \in ItemIds : status'[j] = "EXPIRED" => status[j] = "EXPIRED"
      BY <2>1 DEF Create, StateInv, TypeInv, TypeOK
    <3>2. UNCHANGED <<age, mem, purge>>
      BY <2>1 DEF Create, timeVars
    <3>. QED
      BY <3>1, <3>2 DEF CalendarInv, ExpiredIsOld, Aged
  <2>. QED
    BY <1>1, <2>1, CalendarSame DEF Publishing, Upload, dbVars, timeVars
<1>2. CASE ExpireOldItems
  BY <1>2 DEF ExpireOldItems, Expire, CalendarInv, ExpiredIsOld, Aged, timeVars
<1>3. CASE Aborting
  BY <1>3, CalendarIdle, CalendarOnlyMem DEF Aborting, Abort
<1>4. CASE Workers
  <2>1. \E gone : DeletesFiles(gone)
    BY <1>4 DEF Workers, ImageJobRuns, ImageJobFails, FolderJobRuns, FolderJobFails
  <2>. QED
    BY <2>1, CalendarSame DEF DeletesFiles, dbVars, timeVars
<1>5. CASE Sweep \/ UNCHANGED vars
  BY <1>5, CalendarSame
  DEF Sweep, SweepLists, SweepStarts, SweepQueries, SweepForgets, SweepDeletes, SweepFails,
      vars, dbVars, timeVars
<1>. QED
  BY <1>1, <1>2, <1>3, <1>4, <1>5, CalendarUpdating, CalendarAddingImages, CalendarRemoving,
     CalendarPurge, CalendarTick DEF Next

LEMMA CalendarInvariant == Spec => []CalendarInv
<1>1. Init => CalendarInv
  BY CalendarInit
<1>2. StateInv /\ CalendarInv /\ [Next]_vars => CalendarInv'
  BY CalendarNext
<1>. QED
  BY <1>1, <1>2, StateInvariant, PTL DEF Spec

(* No stale save ever makes a young advert EXPIRED.                        *)
THEOREM ExpiredItemsAreOld == Spec => []ExpiredIsOld
<1>1. CalendarInv => ExpiredIsOld
  BY DEF CalendarInv
<1>. QED
  BY <1>1, CalendarInvariant, PTL

(* The purge, which works from a list, removes only what is past a draft's *)
(* life span, for any number of items and handlers.                        *)
THEOREM PurgeSparesYoungItems == Spec => PurgeSparesYoung
<1>1. ASSUME StateInv, CalendarInv, [Next]_vars, NEW i \in ItemIds,
             PurgeDeletes, Exists(i), status'[i] = "ABSENT"
      PROVE  age[i] > DraftAge
  <2>1. i = purge.item
    BY <1>1 DEF PurgeDeletes, DeleteItems, Exists, StateInv, TypeInv, TypeOK
  <2>. QED
    BY <1>1, <2>1 DEF PurgeDeletes, CalendarInv
<1>2. StateInv /\ CalendarInv /\ [Next]_vars
        => [\A i \in ItemIds : (PurgeDeletes /\ Exists(i) /\ status'[i] = "ABSENT")
                                  => age[i] > DraftAge]_vars
  BY <1>1
<1>. QED
  BY <1>2, CalendarInvariant, StateInvariant, PTL DEF Spec, PurgeSparesYoung
=============================================================================
