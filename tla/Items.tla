------------------------------- MODULE Items -------------------------------
(***************************************************************************)
(* Adverts ("items"), their image rows in Postgres, the files of those     *)
(* images in Cloudinary, the BullMQ deletion jobs and the three nightly    *)
(* jobs.                                                                   *)
(*                                                                         *)
(* Every handler runs on one Node event loop and gives it up at each       *)
(* await, so a handler is a sequence of actions with the entity it loaded  *)
(* in its local memory mem[p].  A request that throws, or dies with the    *)
(* process, is Abort(p): a restart is the abort of everything in flight,   *)
(* because rows, jobs and files live in other processes.                   *)
(*                                                                         *)
(* Time is counted in hours, as ages that stop growing once no guard can   *)
(* tell two of them apart.                                                 *)
(***************************************************************************)
EXTENDS Naturals, FiniteSets

CONSTANTS
  Users,             \* ids of registered accounts
  ItemIds,           \* ids the item sequence hands out
  Names,             \* the random file names Cloudinary chooses
  RowIds,            \* ids the image_item sequence hands out
  Procs,             \* request handlers that may overlap
  SweepMin,          \* uploaded_at<1h   of the sweep's search
  SweepMax,          \* uploaded_at>3d   of the sweep's search
  SweepPeriod,       \* hours between two runs of the sweep
  MaxSweepFailures,  \* bound: sweeps that may fail in a row
  DraftAge,          \* hours after which a draft is purged
  ExpireAge          \* hours after which an advert expires

ASSUME IdsAssumption == /\ Users \subseteq Nat \ {0}
                        /\ ItemIds \subseteq Nat \ {0}
                        /\ RowIds \subseteq Nat \ {0}

ASSUME TimeAssumption ==
  /\ {SweepMin, SweepMax, SweepPeriod, MaxSweepFailures, DraftAge, ExpireAge}
       \subseteq Nat
  /\ SweepMin < SweepMax /\ DraftAge < ExpireAge
  /\ 0 < SweepPeriod
  (* 1 + 2 * 24 <= 72: a file stays in the search window for two sweeps *)
  /\ SweepMin + (MaxSweepFailures + 1) * SweepPeriod <= SweepMax

Nobody == 0
Admin  == 0          \* the caller id the purge uses, and any administrator
NoItem == 0
NoRow  == 0

Statuses == {"DRAFT", "ACTIVE", "SOLD", "EXPIRED"}

(* A link is https://.../items/user_<user>/<item>/<name>; a folder is the  *)
(* path up to the item, or up to the user when item is NoItem.             *)
Links   == [user : Users, item : ItemIds, name : Names]
Folders == [user : Users, item : ItemIds \cup {NoItem}]

(* The decimal digits of a begin those of b (ids of up to four digits).    *)
DigitPrefix(a, b) == \E power \in {1, 10, 100, 1000} : b \div power = a

(* delete_resources_by_prefix compares strings, and the folder path does   *)
(* not end in "/": user_1/1 also begins user_1/10/...                      *)
Under(folder, link) ==
  IF folder.item = NoItem
  THEN DigitPrefix(folder.user, link.user)
  ELSE folder.user = link.user /\ DigitPrefix(folder.item, link.item)

CoveredBy(folder) == {l \in Links : Under(folder, l)}

SetMin(a, b) == IF a < b THEN a ELSE b

-----------------------------------------------------------------------------
VARIABLES
  users,       \* accounts that exist
  owner,       \* owner[i]: who created item i, Nobody before that
  status,      \* status[i]: the status column, "ABSENT" without a row
  age,         \* age[i]: hours since createdAt
  link,        \* link[r]: the link of every image row id handed out
  rows,        \* image rows bound to their item
  loose,       \* image rows whose itemId is NULL
  signed,      \* signed[i]: hours an upload signature of item i may still last
  uploaded,    \* files ever uploaded
  stored,      \* files Cloudinary holds
  assetAge,    \* assetAge[l]: hours since the upload
  imageJobs,   \* deleteImage-queue
  folderJobs,  \* deleteFolder-queue
  leaving,     \* accounts whose deletion is between its two calls
  mem,         \* mem[p]: what handler p has read and means to write
  purge,       \* the loop of deleteDrafts
  sweep,       \* the steps of deleteUnusedCloudinaryImages
  sinceSweep,  \* hours since the last sweep was due
  failed,      \* sweeps that failed in a row
  condemned,   \* history: links some deletion job was queued for
  prompt,      \* history: rows inserted before their file could be swept
  attached     \* history: links that ever had a row

dbVars   == <<users, owner, status, rows, loose>>
timeVars == <<age, assetAge, sinceSweep, failed>>
jobVars  == <<imageJobs, folderJobs, condemned>>
fileVars == <<uploaded, stored>>
vars == <<users, owner, status, age, link, rows, loose, signed, uploaded,
          stored, assetAge, imageJobs, folderJobs, leaving, mem, purge, sweep,
          sinceSweep, failed, condemned, prompt, attached>>

RowsOf(i) == {r \in rows : link[r].item = i}
Exists(i) == status[i] # "ABSENT"

Idle    == [op |-> "idle", item |-> NoItem, status |-> "ABSENT",
            images |-> {}, added |-> {}, image |-> NoRow]
NoPurge == [todo |-> {}, item |-> NoItem]
NoSweep == [stage |-> "idle", links |-> {}]

Memory == [op : {"idle", "update", "found", "queued", "addImages", "remove"},
           item : ItemIds \cup {NoItem}, status : Statuses \cup {"ABSENT"},
           images : SUBSET RowIds, added : SUBSET RowIds,
           image : RowIds \cup {NoRow}]

TypeOK ==
  /\ users \subseteq Users
  /\ owner \in [ItemIds -> Users \cup {Nobody}]
  /\ status \in [ItemIds -> Statuses \cup {"ABSENT"}]
  /\ age \in [ItemIds -> 0 .. ExpireAge + 1]
  /\ DOMAIN link \subseteq RowIds
  /\ \A r \in DOMAIN link : link[r] \in uploaded
  /\ rows \subseteq DOMAIN link
  /\ loose \subseteq DOMAIN link
  /\ signed \in [ItemIds -> 0 .. 2]
  /\ uploaded \subseteq Links
  /\ stored \subseteq uploaded
  /\ assetAge \in [Links -> 0 .. SweepMax + 1]
  /\ imageJobs \subseteq Links
  /\ folderJobs \subseteq Folders
  /\ leaving \subseteq Users
  /\ mem \in [Procs -> Memory]
  /\ purge \in [todo : SUBSET ItemIds, item : ItemIds \cup {NoItem}]
  /\ sweep \in [stage : {"idle", "listed", "queried"}, links : SUBSET Links]
  /\ sinceSweep \in 0 .. SweepPeriod
  /\ failed \in 0 .. MaxSweepFailures
  /\ condemned \subseteq Links
  /\ prompt \subseteq DOMAIN link
  /\ attached \subseteq Links

Init ==
  /\ users = Users
  /\ owner = [i \in ItemIds |-> Nobody]
  /\ status = [i \in ItemIds |-> "ABSENT"]
  /\ age = [i \in ItemIds |-> 0]
  /\ link = [r \in {} |-> {}]
  /\ rows = {} /\ loose = {}
  /\ signed = [i \in ItemIds |-> 0]
  /\ uploaded = {} /\ stored = {}
  /\ assetAge = [l \in Links |-> 0]
  /\ imageJobs = {} /\ folderJobs = {}
  /\ leaving = {}
  /\ mem = [p \in Procs |-> Idle]
  /\ purge = NoPurge
  /\ sweep = NoSweep
  /\ sinceSweep \in 0 .. SweepPeriod
  /\ failed = 0
  /\ condemned = {} /\ prompt = {} /\ attached = {}

-----------------------------------------------------------------------------
(* TypeORM and Postgres, as the code uses them.                            *)

(* itemsRepository.save(item) with the entity read earlier: every column   *)
(* that differs is written back; a missing row is inserted again, which    *)
(* its foreign key refuses without the owner; image rows of the item that  *)
(* the entity does not hold are detached; image rows it holds that do not  *)
(* exist are inserted (cascade: ['insert']), detached ones are left alone. *)
SaveItem(i, newStatus, images) ==
  IF ~Exists(i) /\ owner[i] \notin users
  THEN UNCHANGED <<status, rows, loose, prompt, attached>>
  ELSE LET inserted == images \ (rows \cup loose)
           detached == RowsOf(i) \ images
       IN /\ status' = [status EXCEPT ![i] = newStatus]
          /\ rows' = (rows \ detached) \cup inserted
          /\ loose' = loose \cup detached
          /\ prompt' = prompt \cup
               {r \in inserted : assetAge[link[r]] <= SweepMin}
          /\ attached' = attached \cup {link[r] : r \in inserted}

(* Bug: without ON DELETE CASCADE. *)
DeleteItemsKeepingRows(gone) ==
  /\ status' = [i \in ItemIds |-> IF i \in gone THEN "ABSENT" ELSE status[i]]
  /\ UNCHANGED <<rows, prompt>>

(* DELETE of items, with ON DELETE CASCADE to their image rows.            *)
DeleteItems(gone) ==
  /\ status' = [i \in ItemIds |-> IF i \in gone THEN "ABSENT" ELSE status[i]]
  /\ rows' = {r \in rows : link[r].item \notin gone}
  /\ prompt' = {r \in prompt : r \in loose \/ link[r].item \notin gone}

QueueImage(l) ==
  /\ imageJobs' = imageJobs \cup {l}
  /\ condemned' = condemned \cup {l}
  /\ UNCHANGED folderJobs

QueueFolder(folder) ==
  /\ folderJobs' = folderJobs \cup {folder}
  /\ condemned' = condemned \cup CoveredBy(folder)
  /\ UNCHANGED imageJobs

-----------------------------------------------------------------------------
(* Requests of the items API.                                              *)

(* Handler p goes on with m in its local variables.                        *)
Remember(p, m) == mem' = [mem EXCEPT ![p] = m]

MayManage(caller, i) == caller = Admin \/ caller = owner[i]

(* The reads before the INSERT can only refuse the request.                *)
Create(u, i, wantSignature) ==
  /\ u \in users
  /\ \A j \in ItemIds : owner[j] # Nobody => j < i
  /\ owner' = [owner EXCEPT ![i] = u]
  /\ status' = [status EXCEPT ![i] = IF wantSignature THEN "DRAFT" ELSE "ACTIVE"]
  /\ signed' = [signed EXCEPT ![i] = IF wantSignature THEN 2 ELSE @]
  /\ UNCHANGED <<users, rows, loose, timeVars, link, fileVars, jobVars,
                 leaving, mem, purge, sweep, prompt, attached>>

(* The client sends a file straight to Cloudinary, which names it.         *)
Upload(l) ==
  /\ signed[l.item] > 0
  /\ l.user = owner[l.item]
  /\ l \notin uploaded
  /\ uploaded' = uploaded \cup {l}
  /\ stored' = stored \cup {l}
  /\ UNCHANGED <<dbVars, timeVars, link, signed, jobVars, leaving, mem, purge,
                 sweep, prompt, attached>>

OnlyMem == UNCHANGED <<dbVars, timeVars, link, signed, fileVars, jobVars,
                       leaving, purge, sweep, prompt, attached>>

UpdateReads(p, caller, i, newStatus) ==
  /\ mem[p] = Idle
  /\ Exists(i) /\ MayManage(caller, i)
  /\ status[i] # "EXPIRED"
  /\ newStatus \in {status[i], "ACTIVE", "SOLD"}
  /\ Remember(p, [Idle EXCEPT !.op = "update", !.item = i,
                              !.status = newStatus, !.images = RowsOf(i)])
  /\ OnlyMem

UpdateFindsImage(p, r) ==
  /\ mem[p].op = "update"
  /\ r \in RowsOf(mem[p].item)
  /\ Remember(p, [mem[p] EXCEPT !.op = "found", !.image = r])
  /\ OnlyMem

UpdateQueuesImage(p) ==
  /\ mem[p].op = "found"
  /\ QueueImage(link[mem[p].image])
  /\ Remember(p, [mem[p] EXCEPT !.op = "queued"])
  /\ UNCHANGED <<dbVars, timeVars, link, signed, fileVars, leaving, purge,
                 sweep, prompt, attached>>

UpdateRemovesImage(p) ==
  /\ mem[p].op = "queued"
  /\ rows' = rows \ {mem[p].image}
  /\ loose' = loose \ {mem[p].image}
  /\ prompt' = prompt \ {mem[p].image}
  /\ Remember(p, [mem[p] EXCEPT !.op = "update", !.image = NoRow,
                                !.images = @ \ {mem[p].image}])
  /\ UNCHANGED <<users, owner, status, timeVars, link, signed, fileVars,
                 jobVars, leaving, purge, sweep, attached>>

UpdateSaves(p, wantSignature) ==
  /\ mem[p].op = "update"
  /\ SaveItem(mem[p].item, mem[p].status, mem[p].images)
  /\ signed' = [signed EXCEPT ![mem[p].item] = IF wantSignature THEN 2 ELSE @]
  /\ Remember(p, Idle)
  /\ UNCHANGED <<users, owner, timeVars, link, fileVars, jobVars, leaving,
                 purge, sweep>>

AddImagesReads(p, caller, i, changeDraftToActive) ==
  /\ mem[p] = Idle
  /\ Exists(i) /\ caller = owner[i]
  /\ Remember(p, [Idle EXCEPT !.op = "addImages", !.item = i,
                 !.status = IF status[i] = "DRAFT" /\ changeDraftToActive
                            THEN "ACTIVE" ELSE status[i],
                 !.images = RowsOf(i)])
  /\ OnlyMem

AddRow(p, r, l) ==
  /\ mem[p].op = "addImages"
  /\ l.item = mem[p].item /\ l.user = owner[l.item]
  /\ l \notin {link[q] : q \in mem[p].images}
  /\ r \notin DOMAIN link /\ \A q \in RowIds \ DOMAIN link : r <= q
  /\ link' = [q \in DOMAIN link \cup {r} |-> IF q = r THEN l ELSE link[q]]
  /\ Remember(p, [mem[p] EXCEPT !.added = @ \cup {r}])
  /\ UNCHANGED <<dbVars, timeVars, signed, fileVars, jobVars, leaving, purge,
                 sweep, prompt, attached>>

(* Bug: the file is not looked up. *)
AddImagesChecksNothing(p, r, l) == AddRow(p, r, l)

(* imageExists answers yes and a row for the link is added to the entity.  *)
(* Its id, which the INSERT of the save would choose, is chosen here: ids  *)
(* are only ever compared.                                                 *)
AddImagesChecks(p, r, l) == l \in stored /\ AddRow(p, r, l)

AddImagesSaves(p) ==
  /\ mem[p].op = "addImages"
  /\ SaveItem(mem[p].item, mem[p].status, mem[p].images \cup mem[p].added)
  /\ Remember(p, Idle)
  /\ UNCHANGED <<users, owner, timeVars, link, signed, fileVars, jobVars,
                 leaving, purge, sweep>>

(* remove() up to its DELETE.  The wipe is queued before the row is        *)
(* removed and not awaited: the call to Redis may fail (delivered is       *)
(* FALSE) without stopping the removal.                                    *)
QueueWipe(i, delivered) ==
  IF RowsOf(i) # {} /\ delivered
  THEN QueueFolder([user |-> owner[i], item |-> i])
  ELSE UNCHANGED jobVars

RemoveReads(p, caller, i, delivered) ==
  /\ mem[p] = Idle
  /\ Exists(i) /\ MayManage(caller, i)
  /\ QueueWipe(i, delivered)
  /\ Remember(p, [Idle EXCEPT !.op = "remove", !.item = i])
  /\ UNCHANGED <<dbVars, timeVars, link, signed, fileVars, leaving, purge,
                 sweep, prompt, attached>>

RemoveDeletes(p) ==
  /\ mem[p].op = "remove"
  /\ DeleteItems({mem[p].item})
  /\ Remember(p, Idle)
  /\ UNCHANGED <<users, owner, loose, timeVars, link, signed, fileVars,
                 jobVars, leaving, purge, sweep, attached>>

Abort(p) ==
  /\ mem[p] # Idle
  /\ Remember(p, Idle)
  /\ OnlyMem

(* An account is deleted with everything that cascades from it.            *)
DeleteUserQueues(u, delivered) ==
  /\ u \in users \ leaving
  /\ IF delivered THEN QueueFolder([user |-> u, item |-> NoItem])
                  ELSE UNCHANGED jobVars
  /\ leaving' = leaving \cup {u}
  /\ UNCHANGED <<dbVars, timeVars, link, signed, fileVars, mem, purge, sweep,
                 prompt, attached>>

DeleteUserRemoves(u) ==
  /\ u \in leaving
  /\ users' = users \ {u}
  /\ leaving' = leaving \ {u}
  /\ DeleteItems({i \in ItemIds : owner[i] = u})
  /\ UNCHANGED <<owner, loose, timeVars, link, signed, fileVars, jobVars, mem,
                 purge, sweep, attached>>

DeleteUserFails(u) ==
  /\ u \in leaving
  /\ leaving' = leaving \ {u}
  /\ UNCHANGED <<dbVars, timeVars, link, signed, fileVars, jobVars, mem, purge,
                 sweep, prompt, attached>>

-----------------------------------------------------------------------------
(* BullMQ workers.  A finished job leaves its queue, unless its completion *)
(* is lost and BullMQ hands it out again as stalled; a failed one is not   *)
(* retried.                                                                *)

DeletesFiles(gone) ==
  /\ stored' = stored \ gone
  /\ UNCHANGED <<dbVars, timeVars, link, signed, uploaded, condemned, leaving,
                 mem, purge, sweep, prompt, attached>>

ImageJobRuns(l, stalled) ==
  /\ l \in imageJobs
  /\ imageJobs' = IF stalled THEN imageJobs ELSE imageJobs \ {l}
  /\ DeletesFiles({l})
  /\ UNCHANGED folderJobs

ImageJobFails(l) ==
  /\ l \in imageJobs
  /\ imageJobs' = imageJobs \ {l}
  /\ DeletesFiles({})
  /\ UNCHANGED folderJobs

FolderJobRuns(f, stalled) ==
  /\ f \in folderJobs
  /\ folderJobs' = IF stalled THEN folderJobs ELSE folderJobs \ {f}
  /\ DeletesFiles(CoveredBy(f))
  /\ UNCHANGED imageJobs

FolderJobFails(f) ==
  /\ f \in folderJobs
  /\ folderJobs' = folderJobs \ {f}
  /\ DeletesFiles({})
  /\ UNCHANGED imageJobs

-----------------------------------------------------------------------------
(* Nightly jobs.                                                           *)

Expire(live, tooOld) ==
  /\ status' = [i \in ItemIds |->
       IF status[i] \in live /\ i \in tooOld THEN "EXPIRED" ELSE status[i]]
  /\ UNCHANGED <<users, owner, rows, loose, timeVars, link, signed, fileVars,
                 jobVars, leaving, mem, purge, sweep, prompt, attached>>

(* Bugs: the boundary is off by one; sold adverts are forgotten. *)
ExpireOneEarly == Expire({"ACTIVE", "SOLD"}, {i \in ItemIds : age[i] >= ExpireAge})
ExpireOnlyActive == Expire({"ACTIVE"}, {i \in ItemIds : age[i] > ExpireAge})

ExpireOldItems == Expire({"ACTIVE", "SOLD"}, {i \in ItemIds : age[i] > ExpireAge})

OnlyPurge == UNCHANGED <<dbVars, timeVars, link, signed, fileVars, jobVars,
                         leaving, mem, sweep, prompt, attached>>

PurgeStarts(drafts) ==
  /\ purge = NoPurge
  /\ purge' = [NoPurge EXCEPT !.todo = drafts]
  /\ OnlyPurge

(* Bug: the age of the draft is not asked for. *)
PurgeListsAll == PurgeStarts({i \in ItemIds : status[i] = "DRAFT"})

PurgeLists ==
  PurgeStarts({i \in ItemIds : status[i] = "DRAFT" /\ age[i] > DraftAge})

PurgeReads(i, delivered) ==
  /\ i \in purge.todo /\ purge.item = NoItem
  /\ Exists(i)
  /\ QueueWipe(i, delivered)
  /\ purge' = [purge EXCEPT !.item = i]
  /\ UNCHANGED <<dbVars, timeVars, link, signed, fileVars, leaving, mem, sweep,
                 prompt, attached>>

PurgeDeletes ==
  /\ purge.item # NoItem
  /\ DeleteItems({purge.item})
  /\ purge' = [todo |-> purge.todo \ {purge.item}, item |-> NoItem]
  /\ UNCHANGED <<users, owner, loose, timeVars, link, signed, fileVars,
                 jobVars, leaving, mem, sweep, attached>>

(* remove() throws when the item is gone, and any error ends the loop.     *)
PurgeMisses(i) ==
  /\ i \in purge.todo /\ purge.item = NoItem
  /\ ~Exists(i)
  /\ purge' = NoPurge
  /\ OnlyPurge

PurgeFails ==
  /\ purge # NoPurge
  /\ purge' = NoPurge
  /\ OnlyPurge

SweepStarts(found) ==
  /\ sweep = NoSweep /\ sinceSweep = SweepPeriod
  /\ sweep' = [stage |-> "listed", links |-> found]
  /\ sinceSweep' = 0
  /\ UNCHANGED <<dbVars, age, assetAge, failed, link, signed, fileVars,
                 jobVars, leaving, mem, purge, prompt, attached>>

(* Bugs: fresh uploads are searched too; the window is an hour short. *)
SweepListsFresh == SweepStarts({l \in stored : assetAge[l] <= SweepMax})
SweepListsShort ==
  SweepStarts({l \in stored : SweepMin < assetAge[l] /\ assetAge[l] < SweepMax})

SweepLists ==
  SweepStarts({l \in stored : SweepMin < assetAge[l] /\ assetAge[l] <= SweepMax})

SweepForgets(known) ==
  /\ sweep.stage = "listed"
  /\ sweep' = [stage |-> "queried", links |-> sweep.links \ known]
  /\ UNCHANGED <<dbVars, timeVars, link, signed, fileVars, jobVars, leaving,
                 mem, purge, prompt, attached>>

(* Bug: rows are looked up through their item. *)
SweepQueriesItems == SweepForgets({link[r] : r \in rows})

SweepQueries == SweepForgets({link[r] : r \in rows \cup loose})

SweepDeletes ==
  /\ sweep.stage = "queried"
  /\ stored' = stored \ sweep.links
  /\ sweep' = NoSweep
  /\ failed' = 0
  /\ UNCHANGED <<dbVars, age, assetAge, sinceSweep, link, signed, uploaded,
                 jobVars, leaving, mem, purge, prompt, attached>>

SweepFails ==
  /\ sweep # NoSweep
  /\ failed < MaxSweepFailures
  /\ sweep' = NoSweep
  /\ failed' = failed + 1
  /\ UNCHANGED <<dbVars, age, assetAge, sinceSweep, link, signed, fileVars,
                 jobVars, leaving, mem, purge, prompt, attached>>

(* An hour passes.  A sweep starts when it is due, and its three calls end *)
(* or fail within the hour.                                                *)
Tick ==
  /\ sinceSweep < SweepPeriod /\ sweep = NoSweep
  /\ sinceSweep' = sinceSweep + 1
  /\ age' = [i \in ItemIds |-> IF owner[i] = Nobody THEN age[i]
                               ELSE SetMin(age[i] + 1, ExpireAge + 1)]
  /\ assetAge' = [l \in Links |-> IF l \notin uploaded THEN assetAge[l]
                                  ELSE SetMin(assetAge[l] + 1, SweepMax + 1)]
  /\ signed' = [i \in ItemIds |-> IF signed[i] = 0 THEN 0 ELSE signed[i] - 1]
  /\ UNCHANGED <<dbVars, failed, link, fileVars, jobVars, leaving, mem, purge,
                 sweep, prompt, attached>>

-----------------------------------------------------------------------------
Publishing ==
  \/ \E u \in Users, i \in ItemIds, want \in BOOLEAN : Create(u, i, want)
  \/ \E l \in Links : Upload(l)

Updating == \E p \in Procs :
  \/ \E caller \in Users \cup {Admin}, i \in ItemIds, s \in Statuses :
       UpdateReads(p, caller, i, s)
  \/ \E r \in RowIds : UpdateFindsImage(p, r)
  \/ UpdateQueuesImage(p)
  \/ UpdateRemovesImage(p)
  \/ \E want \in BOOLEAN : UpdateSaves(p, want)

AddingImages == \E p \in Procs :
  \/ \E caller \in Users, i \in ItemIds, publish \in BOOLEAN :
       AddImagesReads(p, caller, i, publish)
  \/ \E r \in RowIds, l \in Links : AddImagesChecks(p, r, l)
  \/ AddImagesSaves(p)

Removing == \E p \in Procs :
  \/ \E caller \in Users \cup {Admin}, i \in ItemIds, delivered \in BOOLEAN :
       RemoveReads(p, caller, i, delivered)
  \/ RemoveDeletes(p)

Aborting == \E p \in Procs : Abort(p)

DeletingUsers == \E u \in Users :
  \/ \E delivered \in BOOLEAN : DeleteUserQueues(u, delivered)
  \/ DeleteUserRemoves(u)
  \/ DeleteUserFails(u)

Workers ==
  \/ \E l \in imageJobs :
       (\E stalled \in BOOLEAN : ImageJobRuns(l, stalled)) \/ ImageJobFails(l)
  \/ \E f \in folderJobs :
       (\E stalled \in BOOLEAN : FolderJobRuns(f, stalled)) \/ FolderJobFails(f)

Purge == \/ PurgeLists
         \/ \E i \in ItemIds, delivered \in BOOLEAN : PurgeReads(i, delivered)
         \/ \E i \in ItemIds : PurgeMisses(i)
         \/ PurgeDeletes
         \/ PurgeFails

Sweep == SweepLists \/ SweepQueries \/ SweepDeletes \/ SweepFails

Next == \/ Publishing \/ Updating \/ AddingImages \/ Removing \/ Aborting
        \/ DeletingUsers \/ Workers \/ ExpireOldItems \/ Purge \/ Sweep \/ Tick

Spec == Init /\ [][Next]_vars

(* The clock does not stop and the cron jobs run every night.  Clients,    *)
(* handlers and workers owe nothing, but they are not in league with the   *)
(* calendar either: an advert that can be expired on end meets a midnight  *)
(* at such a moment, and the purge of one that can be purged night after   *)
(* night does not fail every night.                                        *)
Fairness ==
  /\ WF_vars(Tick) /\ SF_vars(ExpireOldItems)
  /\ WF_vars(SweepLists) /\ WF_vars(SweepQueries) /\ WF_vars(SweepDeletes)
  /\ WF_vars(PurgeLists)
  /\ \A i \in ItemIds :
       /\ WF_vars(PurgeMisses(i))
       /\ SF_vars(PurgeReads(i, TRUE) \/ PurgeReads(i, FALSE))
       /\ SF_vars(PurgeDeletes /\ purge.item = i)

FairSpec == Spec /\ Fairness

-----------------------------------------------------------------------------
(* An advert attached its image within the hour in which the sweep cannot  *)
(* see the file, and nobody asked for its deletion: the file is served,    *)
(* however the sweep, the deletion jobs and stale saves interleave.  The   *)
(* one-hour floor of the sweep's search is what this rests on.             *)
PromptRowsServed == \A r \in prompt : link[r] \in condemned \cup stored

(* Only an advert past its life span is ever EXPIRED, whatever stale       *)
(* status a handler writes back or inserts again.                          *)
ExpiredIsOld == \A i \in ItemIds : status[i] = "EXPIRED" => age[i] > ExpireAge

(* A file that never got a row is gone before it leaves the window of the  *)
(* sweep's search, although MaxSweepFailures sweeps in a row may fail.     *)
AbandonedUploadsSwept ==
  \A l \in stored \ attached : assetAge[l] <= SweepMax

(* The nightly purge removes nothing younger than a draft's life span,     *)
(* although it works from a list and reads each item again.                *)
PurgeSparesYoung ==
  [][\A i \in ItemIds : (PurgeDeletes /\ Exists(i) /\ status'[i] = "ABSENT")
                          => age[i] > DraftAge]_vars

(* Every advert ends: it is expired or removed.                            *)
EveryAdvertEnds ==
  \A i \in ItemIds : Exists(i) ~> status[i] \in {"EXPIRED", "ABSENT"}

(* Every row has its item and every item its owner, although handlers      *)
(* insert rows again from what they remember.                              *)
RelationsHold ==
  /\ \A i \in ItemIds : Exists(i) => owner[i] \in users
  /\ \A r \in rows : Exists(link[r].item)
  /\ rows \cap loose = {}

(* What the image store promises to the owner of an advert, and that the   *)
(* system keeps the promise: the files kept are those of prompt rows whose *)
(* deletion nobody asked for.                                              *)
Kept == {link[r] : r \in prompt} \ condemned

Promise == INSTANCE ServedImages WITH Files <- Links, kept <- Kept

KeepsPromise == Promise!Spec
=============================================================================
