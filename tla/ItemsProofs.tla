----------------------------- MODULE ItemsProofs -----------------------------
(* Theorems about Items for all users, items, names, rows, handlers and    *)
(* life spans.                                                             *)
EXTENDS Items, TLAPS

(* What a handler remembers is about the item it loaded.                   *)
Sound(m, lk) ==
  /\ m.op # "idle" => m.item \in ItemIds
  /\ m.op \notin {"idle", "remove"} => m.status # "ABSENT"
  /\ m.op \in {"found", "queued"} => m.image \in DOMAIN lk
  /\ \A r \in m.images \cup m.added :
       r \in DOMAIN lk /\ lk[r].item = m.item

MemOK == \A p \in Procs : Sound(mem[p], link)

TypeInv == TypeOK /\ MemOK

LEMMA LinkFields == \A l \in Links : l.user \in Users /\ l.item \in ItemIds
  BY DEF Links

LEMMA CoveredLinks == \A f : CoveredBy(f) \subseteq Links
  BY DEF CoveredBy

LEMMA RememberedMemory ==
  ASSUME mem \in [Procs -> Memory], MemOK, UNCHANGED link,
         NEW p \in Procs, NEW m \in Memory, Remember(p, m), Sound(m, link)
  PROVE  /\ mem' \in [Procs -> Memory]
         /\ MemOK'
<1>1. mem' \in [Procs -> Memory] /\ \A q \in Procs : mem'[q] = IF q = p THEN m ELSE mem[q]
  BY DEF Remember
<1>2. \A q \in Procs : Sound(mem'[q], link)
  BY <1>1 DEF MemOK
<1>. QED
  BY <1>1, <1>2 DEF MemOK, Sound

LEMMA IdleMemory == Idle \in Memory /\ Sound(Idle, link)
  BY DEF Idle, Memory, Sound, NoItem, NoRow

LEMMA TypeInit == Init => TypeInv
<1>. SUFFICES ASSUME Init PROVE TypeInv
  OBVIOUS
<1>1. MemOK /\ mem \in [Procs -> Memory]
  BY IdleMemory DEF Init, MemOK
<1>. QED
  BY <1>1, IdsAssumption, TimeAssumption
  DEF Init, TypeInv, TypeOK, NoPurge, NoSweep, Statuses, NoItem, Nobody

LEMMA TypeOnlyMem ==
  ASSUME TypeInv, OnlyMem, NEW p \in Procs, NEW m \in Memory, Remember(p, m), Sound(m, link)
  PROVE  TypeInv'
<1>1. UNCHANGED link
  BY DEF OnlyMem
<1>2. mem' \in [Procs -> Memory] /\ MemOK'
  BY <1>1, RememberedMemory DEF TypeInv, TypeOK
<1>. QED
  BY <1>2 DEF OnlyMem, TypeInv, TypeOK, dbVars, timeVars, fileVars, jobVars

LEMMA TypeCreate ==
  ASSUME TypeInv, NEW u \in Users, NEW i \in ItemIds, NEW want \in BOOLEAN, Create(u, i, want)
  PROVE  TypeInv'
  BY DEF Create, TypeInv, TypeOK, MemOK, Sound, timeVars, fileVars, jobVars, Statuses

LEMMA TypeUpdateReads ==
  ASSUME TypeInv, NEW p \in Procs, NEW c, NEW i \in ItemIds, NEW s \in Statuses,
         UpdateReads(p, c, i, s)
  PROVE  TypeInv'
<1>. DEFINE m == [Idle EXCEPT !.op = "update", !.item = i,
                              !.status = s, !.images = RowsOf(i)]
<1>0. s # "ABSENT"
  BY DEF Statuses
<1>1. m \in Memory /\ Sound(m, link)
  BY <1>0 DEF Idle, Memory, Sound, NoItem, NoRow, RowsOf, TypeInv, TypeOK
<1>2. Remember(p, m) /\ OnlyMem
  BY DEF UpdateReads
<1>. HIDE DEF m
<1>. QED
  BY <1>1, <1>2, TypeOnlyMem

LEMMA TypeUpdateFindsImage ==
  ASSUME TypeInv, NEW p \in Procs, NEW r \in RowIds, UpdateFindsImage(p, r)
  PROVE  TypeInv'
<1>. DEFINE m == [mem[p] EXCEPT !.op = "found", !.image = r]
<1>0. /\ mem[p] \in Memory /\ Sound(mem[p], link) /\ mem[p].op = "update"
      /\ r \in DOMAIN link
  BY DEF UpdateFindsImage, RowsOf, TypeInv, TypeOK, MemOK
<1>1. m \in Memory /\ Sound(m, link)
  BY <1>0 DEF Memory, Sound
<1>. QED
  BY <1>1, TypeOnlyMem DEF UpdateFindsImage

LEMMA TypeQueueImage ==
  ASSUME TypeOK, NEW l \in Links, QueueImage(l)
  PROVE  imageJobs' \subseteq Links /\ folderJobs' \subseteq Folders /\ condemned' \subseteq Links
  BY DEF TypeOK, QueueImage

LEMMA TypeQueueFolder ==
  ASSUME TypeOK, NEW f \in Folders, QueueFolder(f)
  PROVE  imageJobs' \subseteq Links /\ folderJobs' \subseteq Folders /\ condemned' \subseteq Links
  BY CoveredLinks DEF TypeOK, QueueFolder

LEMMA TypeUpdateQueuesImage ==
  ASSUME TypeInv, NEW p \in Procs, UpdateQueuesImage(p)
  PROVE  TypeInv'
<1>. DEFINE m == [mem[p] EXCEPT !.op = "queued"]
<1>1. m \in Memory /\ Sound(m, link)
  BY DEF UpdateQueuesImage, Memory, Sound, TypeInv, TypeOK, MemOK
<1>2. Remember(p, m) /\ UNCHANGED link
  BY DEF UpdateQueuesImage
<1>3. mem' \in [Procs -> Memory] /\ MemOK'
  BY <1>1, <1>2, RememberedMemory DEF TypeInv, TypeOK
<1>4. link[mem[p].image] \in Links
  BY DEF UpdateQueuesImage, TypeInv, TypeOK, MemOK, Sound
<1>5. imageJobs' \subseteq Links /\ folderJobs' \subseteq Folders /\ condemned' \subseteq Links
  BY <1>4, TypeQueueImage DEF UpdateQueuesImage, TypeInv
<1>. HIDE DEF m
<1>. QED
  BY <1>3, <1>5 DEF UpdateQueuesImage, TypeInv, TypeOK, dbVars, timeVars, fileVars

LEMMA TypeUpdateRemovesImage ==
  ASSUME TypeInv, NEW p \in Procs, UpdateRemovesImage(p)
  PROVE  TypeInv'
<1>. DEFINE m == [mem[p] EXCEPT !.op = "update", !.image = NoRow,
                                !.images = @ \ {mem[p].image}]
<1>0. mem[p] \in Memory /\ Sound(mem[p], link) /\ mem[p].op = "queued"
  BY DEF UpdateRemovesImage, TypeInv, TypeOK, MemOK
<1>1. m \in Memory /\ Sound(m, link)
  BY <1>0 DEF Memory, Sound, NoRow
<1>2. Remember(p, m) /\ UNCHANGED link
  BY DEF UpdateRemovesImage
<1>3. mem' \in [Procs -> Memory] /\ MemOK'
  BY <1>1, <1>2, RememberedMemory DEF TypeInv, TypeOK
<1>. QED
  BY <1>3 DEF UpdateRemovesImage, TypeInv, TypeOK, timeVars, fileVars, jobVars

LEMMA TypeSaveItem ==
  ASSUME TypeInv, NEW i \in ItemIds, NEW s \in Statuses, NEW images \in SUBSET DOMAIN link,
         SaveItem(i, s, images)
  PROVE  /\ status' \in [ItemIds -> Statuses \cup {"ABSENT"}]
         /\ rows' \subseteq DOMAIN link
         /\ loose' \subseteq DOMAIN link
         /\ prompt' \subseteq DOMAIN link
         /\ attached' \subseteq Links
  BY DEF SaveItem, TypeInv, TypeOK, RowsOf, Exists

LEMMA TypeUpdateSaves ==
  ASSUME TypeInv, NEW p \in Procs, NEW w \in BOOLEAN, UpdateSaves(p, w)
  PROVE  TypeInv'
<1>1. mem[p].item \in ItemIds /\ mem[p].status \in Statuses /\ mem[p].images \in SUBSET DOMAIN link
  BY DEF TypeInv, TypeOK, MemOK, Sound, Memory, UpdateSaves
<1>2. mem' \in [Procs -> Memory] /\ MemOK'
  BY IdleMemory, RememberedMemory DEF UpdateSaves, TypeInv, TypeOK
<1>. QED
  BY <1>1, <1>2, TypeSaveItem DEF UpdateSaves, TypeInv, TypeOK, timeVars, fileVars, jobVars

LEMMA TypeAddImagesReads ==
  ASSUME TypeInv, NEW p \in Procs, NEW c, NEW i \in ItemIds, NEW publish \in BOOLEAN,
         AddImagesReads(p, c, i, publish)
  PROVE  TypeInv'
<1>. DEFINE st == IF status[i] = "DRAFT" /\ publish THEN "ACTIVE" ELSE status[i]
            m == [Idle EXCEPT !.op = "addImages", !.item = i, !.status = st,
                              !.images = RowsOf(i)]
<1>0. st \in Statuses /\ st # "ABSENT"
  BY DEF AddImagesReads, Exists, TypeInv, TypeOK, Statuses
<1>. HIDE DEF st
<1>1. m \in Memory /\ Sound(m, link)
  BY <1>0 DEF Idle, Memory, Sound, NoItem, NoRow, RowsOf, TypeInv, TypeOK
<1>2. Remember(p, m) /\ OnlyMem
  BY DEF AddImagesReads, st
<1>. QED
  BY <1>1, <1>2, TypeOnlyMem

LEMMA TypeAddImagesChecks ==
  ASSUME TypeInv, NEW p \in Procs, NEW r \in RowIds, NEW l \in Links, AddImagesChecks(p, r, l)
  PROVE  TypeInv'
<1>. DEFINE m == [mem[p] EXCEPT !.added = @ \cup {r}]
<1>1. /\ DOMAIN link' = DOMAIN link \cup {r} /\ r \notin DOMAIN link
      /\ link'[r] = l
      /\ \A q \in DOMAIN link : link'[q] = link[q]
  BY DEF AddImagesChecks, AddRow
<1>2. mem[p] \in Memory /\ m \in Memory /\ mem[p].item = l.item /\ mem[p].op = "addImages"
  BY DEF AddImagesChecks, AddRow, Memory, TypeInv, TypeOK
<1>3. \A x \in Memory : Sound(x, link) => Sound(x, link')
  BY <1>1 DEF Sound
<1>3a. Sound(mem[p], link')
  BY <1>2, <1>3 DEF TypeInv, MemOK, Sound
<1>3b. m.op = "addImages" /\ m.item = mem[p].item /\ m.status = mem[p].status
       /\ m.images = mem[p].images /\ m.added = mem[p].added \cup {r}
  BY <1>2 DEF Memory
<1>3c. mem[p].status # "ABSENT"
  BY <1>2 DEF TypeInv, MemOK, Sound
<1>. HIDE DEF m
<1>4. Sound(m, link')
  BY <1>1, <1>2, <1>3b, <1>3c DEF Sound, TypeInv, MemOK
<1>5. mem' \in [Procs -> Memory] /\ \A q \in Procs : mem'[q] = IF q = p THEN m ELSE mem[q]
  BY <1>2 DEF AddImagesChecks, AddRow, Remember, TypeInv, TypeOK, m
<1>6. MemOK'
  BY <1>3, <1>4, <1>5 DEF MemOK, TypeInv, TypeOK, Sound
<1>. QED
  BY <1>1, <1>5, <1>6 DEF AddImagesChecks, AddRow, TypeInv, TypeOK, dbVars, timeVars, fileVars, jobVars

LEMMA TypeAddImagesSaves ==
  ASSUME TypeInv, NEW p \in Procs, AddImagesSaves(p)
  PROVE  TypeInv'
<1>1. /\ mem[p].item \in ItemIds /\ mem[p].status \in Statuses
      /\ mem[p].images \cup mem[p].added \in SUBSET DOMAIN link
  BY DEF TypeInv, TypeOK, MemOK, Sound, Memory, AddImagesSaves
<1>2. mem' \in [Procs -> Memory] /\ MemOK'
  BY IdleMemory, RememberedMemory DEF AddImagesSaves, TypeInv, TypeOK
<1>. QED
  BY <1>1, <1>2, TypeSaveItem DEF AddImagesSaves, TypeInv, TypeOK, timeVars, fileVars, jobVars

LEMMA TypeQueueWipe ==
  ASSUME TypeOK, RelationsHold, NEW i \in ItemIds, NEW d \in BOOLEAN, Exists(i), QueueWipe(i, d)
  PROVE  imageJobs' \subseteq Links /\ folderJobs' \subseteq Folders /\ condemned' \subseteq Links
<1>. DEFINE f == [user |-> owner[i], item |-> i]
<1>1. f \in Folders
  BY DEF Folders, RelationsHold, TypeOK
<1>2. QueueFolder(f) \/ UNCHANGED jobVars
  BY DEF QueueWipe
<1>. HIDE DEF f
<1>3. CASE QueueFolder(f)
  BY <1>1, <1>3, TypeQueueFolder
<1>4. CASE UNCHANGED jobVars
  BY <1>4 DEF TypeOK, jobVars
<1>. QED
  BY <1>2, <1>3, <1>4

LEMMA TypeRemoveReads ==
  ASSUME TypeInv, RelationsHold, NEW p \in Procs, NEW c, NEW i \in ItemIds, NEW d \in BOOLEAN,
         RemoveReads(p, c, i, d)
  PROVE  TypeInv'
<1>. DEFINE m == [Idle EXCEPT !.op = "remove", !.item = i]
<1>1. m \in Memory /\ Sound(m, link)
  BY DEF Idle, Memory, Sound, NoRow
<1>2. Remember(p, m) /\ UNCHANGED link
  BY DEF RemoveReads
<1>3. mem' \in [Procs -> Memory] /\ MemOK'
  BY <1>1, <1>2, RememberedMemory DEF TypeInv, TypeOK
<1>. QED
  BY <1>3, TypeQueueWipe DEF RemoveReads, TypeInv, TypeOK, dbVars, timeVars, fileVars

LEMMA TypeDeleteItems ==
  ASSUME TypeOK, NEW gone, DeleteItems(gone)
  PROVE  /\ status' \in [ItemIds -> Statuses \cup {"ABSENT"}]
         /\ rows' \subseteq DOMAIN link
         /\ prompt' \subseteq DOMAIN link
  BY DEF DeleteItems, TypeOK

LEMMA TypeRemoveDeletes ==
  ASSUME TypeInv, NEW p \in Procs, RemoveDeletes(p)
  PROVE  TypeInv'
<1>1. mem' \in [Procs -> Memory] /\ MemOK'
  BY IdleMemory, RememberedMemory DEF RemoveDeletes, TypeInv, TypeOK
<1>2. DeleteItems({mem[p].item})
  BY DEF RemoveDeletes
<1>. QED
  BY <1>1, <1>2, TypeDeleteItems
  DEF RemoveDeletes, TypeInv, TypeOK, timeVars, fileVars, jobVars

LEMMA TypeAbort ==
  ASSUME TypeInv, NEW p \in Procs, Abort(p)
  PROVE  TypeInv'
  BY IdleMemory, TypeOnlyMem DEF Abort

LEMMA TypeUpload ==
  ASSUME TypeInv, NEW l \in Links, Upload(l)
  PROVE  TypeInv'
  BY DEF Upload, TypeInv, TypeOK, MemOK, dbVars, timeVars, jobVars

LEMMA TypeDeleteUserQueues ==
  ASSUME TypeInv, NEW u \in Users, NEW d \in BOOLEAN, DeleteUserQueues(u, d)
  PROVE  TypeInv'
<1>. DEFINE f == [user |-> u, item |-> NoItem]
<1>1. f \in Folders
  BY DEF Folders
<1>2. QueueFolder(f) \/ UNCHANGED jobVars
  BY DEF DeleteUserQueues
<1>. HIDE DEF f
<1>3. imageJobs' \subseteq Links /\ folderJobs' \subseteq Folders /\ condemned' \subseteq Links
  BY <1>1, <1>2, TypeQueueFolder DEF TypeInv, TypeOK, jobVars
<1>. QED
  BY <1>3 DEF DeleteUserQueues, TypeInv, TypeOK, MemOK, dbVars, timeVars, fileVars

LEMMA TypeDeleteUserEnds ==
  ASSUME TypeInv, NEW u \in Users, DeleteUserRemoves(u) \/ DeleteUserFails(u)
  PROVE  TypeInv'
<1>1. CASE DeleteUserRemoves(u)
  BY <1>1, TypeDeleteItems
  DEF DeleteUserRemoves, TypeInv, TypeOK, MemOK, timeVars, fileVars, jobVars
<1>2. CASE DeleteUserFails(u)
  BY <1>2 DEF DeleteUserFails, TypeInv, TypeOK, MemOK, dbVars, timeVars, fileVars, jobVars
<1>. QED
  BY <1>1, <1>2

LEMMA TypeWorkers ==
  ASSUME TypeInv, Workers
  PROVE  TypeInv'
<1>1. /\ imageJobs' \subseteq imageJobs /\ folderJobs' \subseteq folderJobs
      /\ \E gone : DeletesFiles(gone)
  BY DEF Workers, ImageJobRuns, ImageJobFails, FolderJobRuns, FolderJobFails
<1>. QED
  BY <1>1 DEF DeletesFiles, TypeInv, TypeOK, MemOK, dbVars, timeVars

LEMMA TypeExpireOldItems ==
  ASSUME TypeInv, ExpireOldItems
  PROVE  TypeInv'
  BY DEF ExpireOldItems, Expire, TypeInv, TypeOK, MemOK, Statuses, timeVars, fileVars, jobVars

LEMMA TypePurge ==
  ASSUME TypeInv, RelationsHold, Purge
  PROVE  TypeInv'
<1>1. CASE PurgeLists
  BY <1>1 DEF PurgeLists, PurgeStarts, OnlyPurge, NoPurge, TypeInv, TypeOK, MemOK,
              dbVars, timeVars, fileVars, jobVars, NoItem
<1>2. ASSUME NEW i \in ItemIds, NEW d \in BOOLEAN, PurgeReads(i, d)
      PROVE  TypeInv'
  <2>1. imageJobs' \subseteq Links /\ folderJobs' \subseteq Folders /\ condemned' \subseteq Links
    BY <1>2, TypeQueueWipe DEF PurgeReads, TypeInv
  <2>. QED
    BY <1>2, <2>1 DEF PurgeReads, TypeInv, TypeOK, MemOK, dbVars, timeVars, fileVars
<1>3. CASE PurgeDeletes
  BY <1>3, TypeDeleteItems
  DEF PurgeDeletes, TypeInv, TypeOK, MemOK, timeVars, fileVars, jobVars, NoItem
<1>4. CASE PurgeFails \/ \E i \in ItemIds : PurgeMisses(i)
  BY <1>4 DEF PurgeFails, PurgeMisses, OnlyPurge, NoPurge, TypeInv, TypeOK, MemOK,
              dbVars, timeVars, fileVars, jobVars, NoItem
<1>. QED
  BY <1>1, <1>2, <1>3, <1>4 DEF Purge

LEMMA TypeSweep ==
  ASSUME TypeInv, Sweep
  PROVE  TypeInv'
<1>1. CASE SweepLists
  BY <1>1, TimeAssumption DEF SweepLists, SweepStarts, TypeInv, TypeOK, MemOK, dbVars, fileVars, jobVars
<1>2. CASE SweepQueries
  BY <1>2 DEF SweepQueries, SweepForgets, TypeInv, TypeOK, MemOK, dbVars, timeVars, fileVars, jobVars
<1>3. CASE SweepDeletes
  BY <1>3, TimeAssumption DEF SweepDeletes, NoSweep, TypeInv, TypeOK, MemOK, dbVars, jobVars
<1>4. CASE SweepFails
  BY <1>4, TimeAssumption DEF SweepFails, NoSweep, TypeInv, TypeOK, MemOK, dbVars, fileVars, jobVars
<1>. QED
  BY <1>1, <1>2, <1>3, <1>4 DEF Sweep

LEMMA TypeTick ==
  ASSUME TypeInv, Tick
  PROVE  TypeInv'
  BY TimeAssumption DEF Tick, SetMin, TypeInv, TypeOK, MemOK, dbVars, fileVars, jobVars

-----------------------------------------------------------------------------
(* Relations.                                                              *)

LEMMA RowItems == TypeOK => \A r \in rows : link[r].item \in ItemIds
  BY LinkFields DEF TypeOK

LEMMA RelationsSame ==
  ASSUME RelationsHold, UNCHANGED <<dbVars, link>>
  PROVE  RelationsHold'
  BY DEF RelationsHold, Exists, dbVars

LEMMA RelationsSaveItem ==
  ASSUME TypeInv, RelationsHold, NEW i \in ItemIds, NEW s \in Statuses,
         NEW images \in SUBSET DOMAIN link, \A r \in images : link[r].item = i,
         SaveItem(i, s, images), UNCHANGED <<users, owner, link>>
  PROVE  RelationsHold'
<1>. s # "ABSENT"
  BY DEF Statuses
<1>1. CASE ~Exists(i) /\ owner[i] \notin users
  BY <1>1 DEF SaveItem, RelationsHold, Exists
<1>2. CASE Exists(i) \/ owner[i] \in users
  <2>1. /\ status' = [status EXCEPT ![i] = s]
        /\ rows' = (rows \ (RowsOf(i) \ images)) \cup (images \ (rows \cup loose))
        /\ loose' = loose \cup (RowsOf(i) \ images)
    BY <1>2 DEF SaveItem
  <2>2. \A j \in ItemIds : status'[j] = IF j = i THEN s ELSE status[j]
    BY <2>1 DEF TypeInv, TypeOK
  <2>3. \A j \in ItemIds : Exists(j)' => owner'[j] \in users'
    BY <1>2, <2>2 DEF RelationsHold, Exists
  <2>4. \A r \in rows' : link[r].item \in ItemIds /\ (r \in rows \/ link[r].item = i)
    BY <2>1, RowItems DEF TypeInv
  <2>5. \A r \in rows' : Exists(link[r].item)'
    BY <2>2, <2>4 DEF RelationsHold, Exists
  <2>6. rows' \cap loose' = {}
    BY <2>1 DEF RelationsHold
  <2>. QED
    BY <2>3, <2>5, <2>6 DEF RelationsHold
<1>. QED
  BY <1>1, <1>2

LEMMA RelationsDeleteItems ==
  ASSUME RelationsHold, NEW gone, DeleteItems(gone), status \in [ItemIds -> Statuses \cup {"ABSENT"}],
         UNCHANGED <<owner, loose, link>>,
         \A r \in rows : link[r].item \in ItemIds,
         \A i \in ItemIds \ gone : owner[i] \in users => owner[i] \in users'
  PROVE  RelationsHold'
  BY DEF RelationsHold, DeleteItems, Exists

LEMMA RelationsPublishing ==
  ASSUME TypeInv, RelationsHold, Publishing
  PROVE  RelationsHold'
<1>1. ASSUME NEW u \in Users, NEW i \in ItemIds, NEW want \in BOOLEAN, Create(u, i, want)
      PROVE  RelationsHold'
  BY <1>1 DEF Create, RelationsHold, Exists, TypeInv, TypeOK
<1>2. ASSUME NEW l \in Links, Upload(l)
      PROVE  RelationsHold'
  BY <1>2, RelationsSame DEF Upload
<1>. QED
  BY <1>1, <1>2 DEF Publishing

LEMMA RelationsUpdating ==
  ASSUME TypeInv, RelationsHold, Updating
  PROVE  RelationsHold'
<1>1. ASSUME NEW p \in Procs, NEW want \in BOOLEAN, UpdateSaves(p, want)
      PROVE  RelationsHold'
  <2>1. /\ mem[p].item \in ItemIds /\ mem[p].status \in Statuses
        /\ mem[p].images \in SUBSET DOMAIN link
        /\ \A r \in mem[p].images : link[r].item = mem[p].item
    BY <1>1 DEF TypeInv, TypeOK, MemOK, Sound, Memory, UpdateSaves
  <2>. QED
    BY <1>1, <2>1, RelationsSaveItem DEF UpdateSaves
<1>2. ASSUME NEW p \in Procs, UpdateRemovesImage(p)
      PROVE  RelationsHold'
  BY <1>2 DEF UpdateRemovesImage, RelationsHold, Exists
<1>3. ASSUME UNCHANGED <<dbVars, link>>
      PROVE  RelationsHold'
  BY <1>3, RelationsSame
<1>. QED
  BY <1>1, <1>2, <1>3
  DEF Updating, UpdateReads, UpdateFindsImage, UpdateQueuesImage, OnlyMem

LEMMA RelationsAddingImages ==
  ASSUME TypeInv, RelationsHold, AddingImages
  PROVE  RelationsHold'
<1>1. ASSUME NEW p \in Procs, NEW r \in RowIds, NEW l \in Links, AddImagesChecks(p, r, l)
      PROVE  RelationsHold'
  BY <1>1 DEF AddImagesChecks, AddRow, RelationsHold, Exists, TypeInv, TypeOK, dbVars
<1>2. ASSUME NEW p \in Procs, AddImagesSaves(p)
      PROVE  RelationsHold'
  <2>. DEFINE images == mem[p].images \cup mem[p].added
  <2>1. /\ mem[p].item \in ItemIds /\ mem[p].status \in Statuses
        /\ images \in SUBSET DOMAIN link
        /\ \A r \in images : link[r].item = mem[p].item
    BY <1>2 DEF TypeInv, TypeOK, MemOK, Sound, Memory, AddImagesSaves
  <2>. QED
    BY <1>2, <2>1, RelationsSaveItem DEF AddImagesSaves
<1>. QED
  BY <1>1, <1>2, RelationsSame DEF AddingImages, AddImagesReads, OnlyMem

LEMMA RelationsRemoving ==
  ASSUME TypeInv, RelationsHold, Removing \/ DeletingUsers \/ Purge
  PROVE  RelationsHold'
<1>1. ASSUME NEW gone, DeleteItems(gone), UNCHANGED <<users, owner, loose, link>>
      PROVE  RelationsHold'
  BY <1>1, RowItems, RelationsDeleteItems DEF TypeInv, TypeOK
<1>2. ASSUME NEW u \in Users, DeleteUserRemoves(u)
      PROVE  RelationsHold'
  <2>. DEFINE gone == {i \in ItemIds : owner[i] = u}
  <2>1. DeleteItems(gone) /\ UNCHANGED <<owner, loose, link>> /\ users' = users \ {u}
    BY <1>2 DEF DeleteUserRemoves
  <2>2. \A i \in ItemIds \ gone : owner[i] \in users => owner[i] \in users'
    BY <2>1
  <2>. HIDE DEF gone
  <2>. QED
    BY <2>1, <2>2, RowItems, RelationsDeleteItems DEF TypeInv, TypeOK
<1>3. CASE Removing
  BY <1>1, <1>3, RelationsSame DEF Removing, RemoveReads, RemoveDeletes
<1>4. CASE DeletingUsers
  BY <1>2, <1>4, RelationsSame DEF DeletingUsers, DeleteUserQueues, DeleteUserFails
<1>5. CASE Purge
  BY <1>1, <1>5, RelationsSame
  DEF Purge, PurgeLists, PurgeStarts, PurgeReads, PurgeMisses, PurgeDeletes, PurgeFails, OnlyPurge
<1>. QED
  BY <1>3, <1>4, <1>5

LEMMA RelationsElse ==
  ASSUME TypeInv, RelationsHold,
         Aborting \/ Workers \/ ExpireOldItems \/ Sweep \/ Tick \/ UNCHANGED vars
  PROVE  RelationsHold'
<1>1. CASE ExpireOldItems
  <2>1. \A i \in ItemIds : Exists(i)' <=> Exists(i)
    BY <1>1 DEF ExpireOldItems, Expire, Exists, TypeInv, TypeOK
  <2>. QED
    BY <1>1, <2>1, RowItems DEF ExpireOldItems, Expire, RelationsHold, TypeInv
<1>2. CASE Aborting
  BY <1>2, RelationsSame DEF Aborting, Abort, OnlyMem
<1>6. CASE Workers
  BY <1>6, RelationsSame DEF Workers, ImageJobRuns, ImageJobFails, FolderJobRuns,
     FolderJobFails, DeletesFiles
<1>3. CASE Sweep
  BY <1>3, RelationsSame DEF Sweep, SweepLists, SweepStarts, SweepQueries, SweepForgets,
     SweepDeletes, SweepFails
<1>4. CASE Tick
  BY <1>4, RelationsSame DEF Tick
<1>5. CASE UNCHANGED vars
  BY <1>5, RelationsSame DEF vars, dbVars
<1>. QED
  BY <1>1, <1>2, <1>3, <1>4, <1>5, <1>6

-----------------------------------------------------------------------------
StateInv == TypeInv /\ RelationsHold

LEMMA TypeNext ==
  ASSUME StateInv, [Next]_vars
  PROVE  TypeInv'
<1>. USE DEF StateInv
<1>1. CASE Publishing
  BY <1>1, TypeCreate, TypeUpload DEF Publishing
<1>2. CASE Updating
  BY <1>2, TypeUpdateReads, TypeUpdateFindsImage, TypeUpdateQueuesImage,
     TypeUpdateRemovesImage, TypeUpdateSaves DEF Updating
<1>3. CASE AddingImages
  BY <1>3, TypeAddImagesReads, TypeAddImagesChecks, TypeAddImagesSaves DEF AddingImages
<1>4. CASE Removing \/ Aborting
  BY <1>4, TypeRemoveReads, TypeRemoveDeletes, TypeAbort DEF Removing, Aborting
<1>5. CASE DeletingUsers
  BY <1>5, TypeDeleteUserQueues, TypeDeleteUserEnds DEF DeletingUsers
<1>6. CASE Workers \/ ExpireOldItems \/ Purge \/ Sweep \/ Tick
  BY <1>6, TypeWorkers, TypeExpireOldItems, TypePurge, TypeSweep, TypeTick
<1>7. CASE UNCHANGED vars
  BY <1>7 DEF vars, TypeInv, TypeOK, MemOK
<1>. QED
  BY <1>1, <1>2, <1>3, <1>4, <1>5, <1>6, <1>7 DEF Next

LEMMA RelationsNext ==
  ASSUME StateInv, [Next]_vars
  PROVE  RelationsHold'
  BY RelationsPublishing, RelationsUpdating, RelationsAddingImages, RelationsRemoving,
     RelationsElse DEF Next, StateInv

LEMMA StateInvariant == Spec => []StateInv
<1>1. Init => StateInv
  <2>1. Init => RelationsHold
    BY DEF Init, RelationsHold, Exists
  <2>. QED
    BY <2>1, TypeInit DEF StateInv
<1>2. StateInv /\ [Next]_vars => StateInv'
  BY TypeNext, RelationsNext DEF StateInv
<1>. QED
  BY <1>1, <1>2, PTL DEF Spec

(* Every variable keeps its type, and every image row names a file that    *)
(* was uploaded.                                                           *)
THEOREM TypeCorrect == Spec => []TypeOK
  BY StateInvariant, PTL DEF StateInv, TypeInv

(* Foreign keys: stale saves never leave a row without its item or an item *)
(* without its owner.                                                      *)
THEOREM RelationsCorrect == Spec => []RelationsHold
  BY StateInvariant, PTL DEF StateInv
=============================================================================
