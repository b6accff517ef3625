-------------------------- MODULE ItemsImageProofs --------------------------
(* The files of adverts: prompt rows stay served, abandoned uploads go.    *)
EXTENDS ItemsProofs

(* Why a prompt row keeps its file: files disappear only by a job, which   *)
(* condemns them first, or by the sweep, which lists files older than      *)
(* SweepMin only, after every prompt row of theirs was inserted.           *)
ServedInv ==
  /\ \A l \in uploaded \ stored : l \in condemned \/ assetAge[l] > SweepMin
  /\ \A l \in sweep.links : l \in uploaded /\ assetAge[l] > SweepMin
  /\ sweep.stage = "queried" => \A r \in prompt : link[r] \notin sweep.links
  /\ prompt \subseteq rows \cup loose
  /\ imageJobs \subseteq condemned
  /\ \A f \in folderJobs : CoveredBy(f) \subseteq condemned
  /\ PromptRowsServed

(* How old a file without a row can be.                                    *)
SweptInv ==
  /\ \A r \in rows \cup loose : link[r] \in attached
  /\ \A l \in Links \ uploaded : assetAge[l] = 0
  /\ \A l \in stored \ attached :
       IF sweep.stage = "idle"
       THEN assetAge[l] <= SweepMin + failed * SweepPeriod + sinceSweep
       ELSE /\ l \in sweep.links \/ assetAge[l] <= SweepMin
            /\ assetAge[l] <= SweepMin + failed * SweepPeriod + SweepPeriod

files == <<link, uploaded, stored, assetAge, sweep, rows, loose, prompt,
           imageJobs, folderJobs, condemned>>

-----------------------------------------------------------------------------
(* The age of a file only grows.                                           *)
LEMMA AgesGrow ==
  ASSUME StateInv, Tick
  PROVE  \A l \in Links : /\ assetAge[l] \in Nat /\ assetAge'[l] \in Nat
                          /\ assetAge[l] > SweepMin => assetAge'[l] > SweepMin
  BY TimeAssumption DEF Tick, SetMin, StateInv, TypeInv, TypeOK

LEMMA ServedInit == Init => ServedInv
  BY DEF Init, ServedInv, PromptRowsServed, NoSweep

LEMMA ServedSame ==
  ASSUME ServedInv, UNCHANGED files
  PROVE  ServedInv'
  BY DEF ServedInv, PromptRowsServed, files

LEMMA ServedUpload ==
  ASSUME StateInv, ServedInv, NEW l \in Links, Upload(l)
  PROVE  ServedInv'
  BY DEF Upload, ServedInv, PromptRowsServed, timeVars, dbVars, jobVars

LEMMA ServedAddRow ==
  ASSUME StateInv, ServedInv, NEW p \in Procs, NEW r \in RowIds, NEW l \in Links,
         AddImagesChecks(p, r, l)
  PROVE  ServedInv'
<1>1. \A q \in DOMAIN link : link'[q] = link[q]
  BY DEF AddImagesChecks, AddRow
<1>2. prompt \subseteq DOMAIN link
  BY DEF StateInv, TypeInv, TypeOK
<1>. QED
  BY <1>1, <1>2
  DEF AddImagesChecks, AddRow, ServedInv, PromptRowsServed, timeVars, dbVars, jobVars, fileVars

LEMMA ServedSaveItem ==
  ASSUME StateInv, ServedInv, NEW i \in ItemIds, NEW s, NEW images \in SUBSET DOMAIN link,
         SaveItem(i, s, images),
         UNCHANGED <<link, fileVars, assetAge, sweep, jobVars>>
  PROVE  ServedInv'
<1>1. CASE ~Exists(i) /\ owner[i] \notin users
  BY <1>1, ServedSame DEF SaveItem, files, fileVars, jobVars
<1>2. CASE Exists(i) \/ owner[i] \in users
  <2>. DEFINE inserted == images \ (rows \cup loose)
  <2>1. /\ rows' \cup loose' = rows \cup loose \cup inserted
        /\ prompt' = prompt \cup {r \in inserted : assetAge[link[r]] <= SweepMin}
    BY <1>2 DEF SaveItem, RowsOf
  <2>2. \A r \in inserted : link[r] \in uploaded /\ assetAge[link[r]] \in Nat
    BY DEF StateInv, TypeInv, TypeOK
  <2>3. \A r \in prompt' \ prompt : /\ link[r] \in condemned \cup stored
                                    /\ link[r] \notin sweep.links
    BY <2>1, <2>2, TimeAssumption DEF ServedInv
  <2>. HIDE DEF inserted
  <2>4. prompt' \subseteq rows' \cup loose'
    BY <2>1 DEF ServedInv
  <2>. QED
    BY <2>3, <2>4 DEF ServedInv, PromptRowsServed, fileVars, jobVars
<1>. QED
  BY <1>1, <1>2

(* Rows go: so do their promises.                                          *)
LEMMA ServedFewerRows ==
  ASSUME ServedInv, prompt' \subseteq prompt, prompt' \subseteq rows' \cup loose',
         condemned \subseteq condemned', imageJobs' \subseteq condemned',
         \A f \in folderJobs' : CoveredBy(f) \subseteq condemned',
         UNCHANGED <<link, fileVars, assetAge, sweep>>
  PROVE  ServedInv'
  BY DEF ServedInv, PromptRowsServed, fileVars

LEMMA ServedQueues ==
  ASSUME ServedInv, \/ \E l : QueueImage(l)
                    \/ \E f : QueueFolder(f)
                    \/ UNCHANGED jobVars
  PROVE  /\ condemned \subseteq condemned' /\ imageJobs' \subseteq condemned'
         /\ \A f \in folderJobs' : CoveredBy(f) \subseteq condemned'
<1>1. CASE \E l : QueueImage(l)
  BY <1>1 DEF QueueImage, ServedInv
<1>2. CASE \E f : QueueFolder(f)
  BY <1>2 DEF QueueFolder, ServedInv
<1>3. CASE UNCHANGED jobVars
  BY <1>3 DEF jobVars, ServedInv
<1>. QED
  BY <1>1, <1>2, <1>3

LEMMA ServedDeleteItems ==
  ASSUME ServedInv, NEW gone, DeleteItems(gone),
         UNCHANGED <<loose, link, fileVars, assetAge, sweep, jobVars>>
  PROVE  ServedInv'
<1>1. prompt' \subseteq prompt /\ prompt' \subseteq rows' \cup loose'
  BY DEF DeleteItems, ServedInv
<1>. QED
  BY <1>1, ServedQueues, ServedFewerRows

LEMMA ServedUpdating ==
  ASSUME StateInv, ServedInv, Updating
  PROVE  ServedInv'
<1>1. ASSUME NEW p \in Procs, NEW want \in BOOLEAN, UpdateSaves(p, want)
      PROVE  ServedInv'
  <2>1. mem[p].item \in ItemIds /\ mem[p].images \in SUBSET DOMAIN link
    BY <1>1 DEF StateInv, TypeInv, TypeOK, MemOK, Sound, Memory, UpdateSaves
  <2>. QED
    BY <1>1, <2>1, ServedSaveItem DEF UpdateSaves, timeVars
<1>2. ASSUME NEW p \in Procs, UpdateRemovesImage(p)
      PROVE  ServedInv'
  <2>1. /\ prompt' \subseteq prompt /\ prompt' \subseteq rows' \cup loose'
        /\ UNCHANGED <<link, fileVars, assetAge, sweep, jobVars>>
    BY <1>2 DEF UpdateRemovesImage, ServedInv, timeVars
  <2>. QED
    BY <2>1, ServedQueues, ServedFewerRows
<1>3. ASSUME NEW p \in Procs, UpdateQueuesImage(p)
      PROVE  ServedInv'
  <2>1. /\ \E l : QueueImage(l)
        /\ UNCHANGED <<rows, loose, prompt, link, fileVars, assetAge, sweep>>
    BY <1>3 DEF UpdateQueuesImage, timeVars, dbVars
  <2>2. prompt' \subseteq prompt /\ prompt' \subseteq rows' \cup loose'
    BY <2>1 DEF ServedInv
  <2>. QED
    BY <2>1, <2>2, ServedQueues, ServedFewerRows
<1>4. ASSUME NEW p \in Procs, OnlyMem
      PROVE  ServedInv'
  BY <1>4, ServedSame DEF OnlyMem, files, dbVars, timeVars, fileVars, jobVars
<1>. QED
  BY <1>1, <1>2, <1>3, <1>4 DEF Updating, UpdateReads, UpdateFindsImage

LEMMA ServedAddingImages ==
  ASSUME StateInv, ServedInv, AddingImages
  PROVE  ServedInv'
<1>1. ASSUME NEW p \in Procs, AddImagesSaves(p)
      PROVE  ServedInv'
  <2>. DEFINE images == mem[p].images \cup mem[p].added
  <2>1. mem[p].item \in ItemIds /\ images \in SUBSET DOMAIN link
    BY <1>1 DEF StateInv, TypeInv, TypeOK, MemOK, Sound, Memory, AddImagesSaves
  <2>2. /\ SaveItem(mem[p].item, mem[p].status, images)
        /\ UNCHANGED <<link, fileVars, assetAge, sweep, jobVars>>
    BY <1>1 DEF AddImagesSaves, timeVars
  <2>. HIDE DEF images
  <2>. QED
    BY <2>1, <2>2, ServedSaveItem
<1>2. ASSUME OnlyMem
      PROVE  ServedInv'
  BY <1>2, ServedSame DEF OnlyMem, files, dbVars, timeVars, fileVars, jobVars
<1>. QED
  BY <1>1, <1>2, ServedAddRow DEF AddingImages, AddImagesReads

LEMMA ServedRemoving ==
  ASSUME StateInv, ServedInv, Removing \/ DeletingUsers \/ Purge
  PROVE  ServedInv'
<1>1. ASSUME NEW gone, DeleteItems(gone),
             UNCHANGED <<loose, link, fileVars, timeVars, sweep, jobVars>>
      PROVE  ServedInv'
  BY <1>1, ServedDeleteItems DEF timeVars
<1>2. ASSUME (\E f : QueueFolder(f)) \/ UNCHANGED jobVars,
             UNCHANGED <<dbVars, timeVars, link, fileVars, sweep, prompt>>
      PROVE  ServedInv'
  <2>1. /\ prompt' \subseteq prompt /\ prompt' \subseteq rows' \cup loose'
        /\ UNCHANGED <<link, fileVars, assetAge, sweep>>
    BY <1>2 DEF ServedInv, dbVars, timeVars
  <2>. QED
    BY <1>2, <2>1, ServedQueues, ServedFewerRows
<1>3. CASE Removing
  BY <1>1, <1>2, <1>3 DEF Removing, RemoveReads, RemoveDeletes, QueueWipe
<1>4. CASE DeletingUsers
  BY <1>1, <1>2, <1>4
  DEF DeletingUsers, DeleteUserQueues, DeleteUserRemoves, DeleteUserFails
<1>5. CASE Purge
  BY <1>1, <1>2, <1>5
  DEF Purge, PurgeLists, PurgeStarts, PurgeReads, PurgeMisses, PurgeDeletes, PurgeFails,
      OnlyPurge, QueueWipe
<1>. QED
  BY <1>3, <1>4, <1>5

LEMMA ServedWorkers ==
  ASSUME StateInv, ServedInv, Workers
  PROVE  ServedInv'
<1>1. ASSUME NEW gone, gone \subseteq condemned, DeletesFiles(gone),
             imageJobs' \subseteq imageJobs, folderJobs' \subseteq folderJobs
      PROVE  ServedInv'
  BY <1>1 DEF DeletesFiles, ServedInv, PromptRowsServed, dbVars, timeVars
<1>2. ASSUME NEW l \in imageJobs, NEW stalled \in BOOLEAN, ImageJobRuns(l, stalled)
      PROVE  ServedInv'
  BY <1>1, <1>2 DEF ImageJobRuns, ServedInv
<1>3. ASSUME NEW f \in folderJobs, NEW stalled \in BOOLEAN, FolderJobRuns(f, stalled)
      PROVE  ServedInv'
  BY <1>1, <1>3 DEF FolderJobRuns, ServedInv
<1>4. ASSUME NEW j, ImageJobFails(j) \/ FolderJobFails(j)
      PROVE  ServedInv'
  BY <1>1, <1>4 DEF ImageJobFails, FolderJobFails
<1>. QED
  BY <1>2, <1>3, <1>4 DEF Workers

LEMMA ServedSweep ==
  ASSUME StateInv, ServedInv, Sweep
  PROVE  ServedInv'
<1>1. CASE SweepLists
  BY <1>1 DEF SweepLists, SweepStarts, ServedInv, PromptRowsServed, StateInv, TypeInv, TypeOK,
              dbVars, fileVars, jobVars
<1>2. CASE SweepQueries
  BY <1>2 DEF SweepQueries, SweepForgets, ServedInv, PromptRowsServed, dbVars, timeVars,
              fileVars, jobVars
<1>3. CASE SweepDeletes
  BY <1>3 DEF SweepDeletes, NoSweep, ServedInv, PromptRowsServed, dbVars, jobVars
<1>4. CASE SweepFails
  BY <1>4 DEF SweepFails, NoSweep, ServedInv, PromptRowsServed, dbVars, fileVars, jobVars
<1>. QED
  BY <1>1, <1>2, <1>3, <1>4 DEF Sweep

LEMMA ServedTick ==
  ASSUME StateInv, ServedInv, Tick
  PROVE  ServedInv'
<1>1. uploaded \subseteq Links
  BY DEF StateInv, TypeInv, TypeOK
<1>. QED
  BY <1>1, AgesGrow DEF Tick, ServedInv, PromptRowsServed, dbVars, fileVars, jobVars

LEMMA ServedNext ==
  ASSUME StateInv, ServedInv, [Next]_vars
  PROVE  ServedInv'
<1>1. CASE Publishing
  <2>1. ASSUME NEW u, NEW i, NEW want, Create(u, i, want)
        PROVE  ServedInv'
    BY <2>1, ServedSame DEF Create, files, timeVars, fileVars, jobVars
  <2>. QED
    BY <1>1, <2>1, ServedUpload DEF Publishing
<1>2. CASE Aborting \/ ExpireOldItems \/ UNCHANGED vars
  BY <1>2, ServedSame
  DEF Aborting, Abort, OnlyMem, ExpireOldItems, Expire, vars, files, dbVars, timeVars,
      fileVars, jobVars
<1>. QED
  BY <1>1, <1>2, ServedUpdating, ServedAddingImages, ServedRemoving, ServedWorkers,
     ServedSweep, ServedTick DEF Next

(* The file of a prompt row that nobody asked to delete is in the store,   *)
(* for any number of users, items, rows and overlapping handlers.          *)
THEOREM PromptRowsAreServed == Spec => []PromptRowsServed
<1>1. Init => ServedInv
  BY ServedInit
<1>2. StateInv /\ ServedInv /\ [Next]_vars => ServedInv'
  BY ServedNext
<1>3. ServedInv => PromptRowsServed
  BY DEF ServedInv
<1>. QED
  BY <1>1, <1>2, <1>3, StateInvariant, PTL DEF Spec

-----------------------------------------------------------------------------
(* Abandoned uploads.                                                      *)

LEMMA SweptInit == Init => SweptInv
  BY DEF Init, SweptInv

LEMMA SweptSame ==
  ASSUME SweptInv, UNCHANGED <<files, sinceSweep, failed, attached>>
  PROVE  SweptInv'
  BY DEF SweptInv, files

(* Rows and files go, rows may come with their link recorded.              *)
LEMMA SweptRows ==
  ASSUME SweptInv, stored' \subseteq stored, attached \subseteq attached',
         \A r \in rows' \cup loose' : link'[r] \in attached',
         UNCHANGED <<uploaded, assetAge, sweep, sinceSweep, failed>>
  PROVE  SweptInv'
  BY DEF SweptInv

LEMMA SweptSaveItem ==
  ASSUME StateInv, SweptInv, NEW i \in ItemIds, NEW s, NEW images \in SUBSET DOMAIN link,
         SaveItem(i, s, images), UNCHANGED <<link, fileVars, timeVars, sweep>>
  PROVE  SweptInv'
<1>1. attached \subseteq attached' /\ \A r \in rows' \cup loose' : link[r] \in attached'
  <2>1. CASE ~Exists(i) /\ owner[i] \notin users
    BY <2>1 DEF SaveItem, SweptInv
  <2>2. CASE Exists(i) \/ owner[i] \in users
    BY <2>2 DEF SaveItem, SweptInv, RowsOf
  <2>. QED
    BY <2>1, <2>2
<1>2. /\ stored' \subseteq stored /\ link' = link
      /\ UNCHANGED <<uploaded, assetAge, sweep, sinceSweep, failed>>
  BY DEF fileVars, timeVars
<1>. QED
  BY <1>1, <1>2, SweptRows

LEMMA SweptPublishing ==
  ASSUME StateInv, SweptInv, Publishing
  PROVE  SweptInv'
<1>1. ASSUME NEW u, NEW i, NEW want, Create(u, i, want)
      PROVE  SweptInv'
  BY <1>1, SweptSame DEF Create, files, timeVars, fileVars, jobVars
<1>2. ASSUME NEW l \in Links, Upload(l)
      PROVE  SweptInv'
  <2>1. assetAge[l] = 0
    BY <1>2 DEF Upload, SweptInv
  <2>. DEFINE slack == failed * SweepPeriod
  <2>2. /\ failed \in Nat /\ SweepPeriod \in Nat /\ SweepMin \in Nat
        /\ sinceSweep \in Nat /\ stored \subseteq Links
    BY TimeAssumption DEF StateInv, TypeInv, TypeOK
  <2>3. slack \in Nat /\ slack' = slack
    BY <1>2, <2>2 DEF Upload, timeVars
  <2>4. \A k \in Links : k # l => (k \in stored' \ attached' <=> k \in stored \ attached)
    BY <1>2 DEF Upload
  <2>5. UNCHANGED <<rows, loose, link, attached, assetAge, sweep, sinceSweep, failed>>
        /\ uploaded' = uploaded \cup {l} /\ stored' = stored \cup {l}
    BY <1>2 DEF Upload, timeVars, dbVars
  <2>. HIDE DEF slack
  <2>6. /\ \A r \in rows' \cup loose' : link'[r] \in attached'
        /\ \A k \in Links \ uploaded' : assetAge'[k] = 0
    BY <2>5 DEF SweptInv
  <2>7. ASSUME NEW k \in stored' \ attached'
        PROVE  IF sweep.stage = "idle"
               THEN assetAge[k] <= SweepMin + slack + sinceSweep
               ELSE /\ k \in sweep.links \/ assetAge[k] <= SweepMin
                    /\ assetAge[k] <= SweepMin + slack + SweepPeriod
    <3>1. CASE k = l
      BY <2>1, <2>2, <2>3, <3>1
    <3>2. CASE k # l
      BY <2>2, <2>4, <2>5, <2>7, <3>2 DEF SweptInv, slack
    <3>. QED
      BY <3>1, <3>2
  <2>. QED
    BY <2>3, <2>5, <2>6, <2>7 DEF SweptInv, slack
<1>. QED
  BY <1>1, <1>2 DEF Publishing

LEMMA SweptHandlers ==
  ASSUME StateInv, SweptInv, Updating \/ AddingImages
  PROVE  SweptInv'
<1>1. ASSUME NEW p \in Procs, NEW want \in BOOLEAN, UpdateSaves(p, want)
      PROVE  SweptInv'
  <2>1. mem[p].item \in ItemIds /\ mem[p].images \in SUBSET DOMAIN link
    BY <1>1 DEF StateInv, TypeInv, TypeOK, MemOK, Sound, Memory, UpdateSaves
  <2>. QED
    BY <1>1, <2>1, SweptSaveItem DEF UpdateSaves
<1>2. ASSUME NEW p \in Procs, AddImagesSaves(p)
      PROVE  SweptInv'
  <2>. DEFINE images == mem[p].images \cup mem[p].added
  <2>1. mem[p].item \in ItemIds /\ images \in SUBSET DOMAIN link
    BY <1>2 DEF StateInv, TypeInv, TypeOK, MemOK, Sound, Memory, AddImagesSaves
  <2>2. /\ SaveItem(mem[p].item, mem[p].status, images)
        /\ UNCHANGED <<link, fileVars, timeVars, sweep>>
    BY <1>2 DEF AddImagesSaves
  <2>. HIDE DEF images
  <2>. QED
    BY <2>1, <2>2, SweptSaveItem
<1>3. ASSUME NEW p \in Procs, UpdateRemovesImage(p)
      PROVE  SweptInv'
  BY <1>3 DEF UpdateRemovesImage, SweptInv, timeVars, fileVars
<1>4. ASSUME NEW p \in Procs, NEW r \in RowIds, NEW l \in Links, AddImagesChecks(p, r, l)
      PROVE  SweptInv'
  <2>1. \A q \in rows \cup loose : link'[q] = link[q]
    BY <1>4 DEF AddImagesChecks, AddRow, StateInv, TypeInv, TypeOK
  <2>2. UNCHANGED <<dbVars, timeVars, fileVars, sweep, attached>>
    BY <1>4 DEF AddImagesChecks, AddRow
  <2>3. \A q \in rows' \cup loose' : link'[q] \in attached'
    BY <2>1, <2>2 DEF SweptInv, dbVars
  <2>. QED
    BY <2>2, <2>3, SweptRows DEF timeVars, fileVars
<1>5. ASSUME OnlyMem \/ \E p \in Procs : UpdateQueuesImage(p)
      PROVE  SweptInv'
  BY <1>5, SweptRows
  DEF OnlyMem, UpdateQueuesImage, SweptInv, dbVars, timeVars, fileVars
<1>. QED
  BY <1>1, <1>2, <1>3, <1>4, <1>5
  DEF Updating, AddingImages, UpdateReads, UpdateFindsImage, AddImagesReads

LEMMA SweptRemoving ==
  ASSUME StateInv, SweptInv,
         Removing \/ DeletingUsers \/ Purge \/ Workers
  PROVE  SweptInv'
<1>1. ASSUME NEW gone, DeleteItems(gone), UNCHANGED <<loose, link, fileVars, timeVars, sweep, attached>>
      PROVE  SweptInv'
  BY <1>1 DEF DeleteItems, SweptInv, fileVars, timeVars
<1>2. ASSUME UNCHANGED <<dbVars, timeVars, link, fileVars, sweep, attached>>
      PROVE  SweptInv'
  BY <1>2 DEF SweptInv, dbVars, fileVars, timeVars
<1>3. CASE Removing
  BY <1>1, <1>2, <1>3 DEF Removing, RemoveReads, RemoveDeletes
<1>4. CASE DeletingUsers
  BY <1>1, <1>2, <1>4
  DEF DeletingUsers, DeleteUserQueues, DeleteUserRemoves, DeleteUserFails
<1>5. CASE Purge
  BY <1>1, <1>2, <1>5
  DEF Purge, PurgeLists, PurgeStarts, PurgeReads, PurgeMisses, PurgeDeletes, PurgeFails, OnlyPurge
<1>6. CASE Workers
  <2>1. \E gone : DeletesFiles(gone)
    BY <1>6 DEF Workers, ImageJobRuns, ImageJobFails, FolderJobRuns, FolderJobFails
  <2>. QED
    BY <2>1 DEF DeletesFiles, SweptInv, dbVars, timeVars
<1>. QED
  BY <1>3, <1>4, <1>5, <1>6

(* Between two sweeps a file ages by at most a period.                     *)
LEMMA SweptSweep ==
  ASSUME StateInv, SweptInv, Sweep
  PROVE  SweptInv'
<1>0. /\ failed \in Nat /\ SweepPeriod \in Nat /\ SweepMin \in Nat /\ SweepMax \in Nat
      /\ sinceSweep \in 0 .. SweepPeriod /\ \A l \in stored : l \in Links /\ assetAge[l] \in Nat
      /\ MaxSweepFailures \in Nat /\ failed <= MaxSweepFailures
  BY TimeAssumption DEF StateInv, TypeInv, TypeOK
<1>1. failed * SweepPeriod \in Nat /\ (failed + 1) * SweepPeriod = failed * SweepPeriod + SweepPeriod
  BY <1>0
<1>2. CASE SweepLists
  <2>1. SweepMin + failed * SweepPeriod + SweepPeriod <= SweepMax
    BY <1>0, <1>1, TimeAssumption
  <2>. QED
    BY <1>0, <1>1, <1>2, <2>1
    DEF SweepLists, SweepStarts, NoSweep, SweptInv, dbVars, fileVars
<1>3. CASE SweepQueries
  BY <1>3 DEF SweepQueries, SweepForgets, SweptInv, dbVars, timeVars, fileVars
<1>4. CASE SweepDeletes
  <2>1. 0 * SweepPeriod = 0
    BY <1>0
  <2>. QED
    BY <1>0, <1>4, <2>1 DEF SweepDeletes, NoSweep, SweptInv, dbVars
<1>5. CASE SweepFails
  <2>1. sweep.stage # "idle" \/ sweep.stage = "idle"
    OBVIOUS
  <2>. QED
    BY <1>0, <1>1, <1>5 DEF SweepFails, NoSweep, SweptInv, dbVars, fileVars
<1>. QED
  BY <1>2, <1>3, <1>4, <1>5 DEF Sweep

LEMMA SweptTick ==
  ASSUME StateInv, SweptInv, Tick
  PROVE  SweptInv'
<1>1. \A l \in Links : /\ assetAge[l] \in Nat
                       /\ assetAge'[l] <= assetAge[l] + 1
                       /\ l \notin uploaded => assetAge'[l] = assetAge[l]
  BY TimeAssumption DEF Tick, SetMin, StateInv, TypeInv, TypeOK
<1>2. failed * SweepPeriod \in Nat /\ SweepMin \in Nat /\ sinceSweep \in Nat
      /\ stored \subseteq Links
  BY TimeAssumption DEF StateInv, TypeInv, TypeOK
<1>. DEFINE slack == failed * SweepPeriod
<1>3. slack \in Nat /\ slack' = slack
  BY <1>2, TimeAssumption DEF Tick, StateInv, TypeInv, TypeOK
<1>4. /\ UNCHANGED <<rows, loose, link, attached, uploaded, stored, sweep>>
      /\ sweep.stage = "idle" /\ sinceSweep' = sinceSweep + 1
  BY DEF Tick, NoSweep, dbVars, fileVars
<1>. HIDE DEF slack
<1>5. /\ \A r \in rows' \cup loose' : link'[r] \in attached'
      /\ \A k \in Links \ uploaded' : assetAge'[k] = 0
  BY <1>1, <1>4 DEF SweptInv
<1>6. ASSUME NEW k \in stored' \ attached'
      PROVE  assetAge'[k] <= SweepMin + slack + sinceSweep'
  <2>1. k \in Links /\ assetAge[k] <= SweepMin + slack + sinceSweep
    BY <1>2, <1>4, <1>6 DEF SweptInv, slack
  <2>2. assetAge'[k] \in Nat
    BY <2>1, TimeAssumption DEF Tick, SetMin, StateInv, TypeInv, TypeOK
  <2>. QED
    BY <1>1, <1>2, <1>3, <1>4, <2>1, <2>2
<1>. QED
  BY <1>3, <1>4, <1>5, <1>6 DEF SweptInv, slack

LEMMA SweptNext ==
  ASSUME StateInv, SweptInv, [Next]_vars
  PROVE  SweptInv'
<1>1. CASE Aborting \/ ExpireOldItems \/ UNCHANGED vars
  BY <1>1, SweptSame
  DEF Aborting, Abort, OnlyMem, ExpireOldItems, Expire, vars, files, dbVars, timeVars,
      fileVars, jobVars
<1>. QED
  BY <1>1, SweptPublishing, SweptHandlers, SweptRemoving, SweptSweep, SweptTick DEF Next

(* The window of the sweep's search is wide enough.                        *)
LEMMA WindowSuffices ==
  ASSUME StateInv, SweptInv
  PROVE  AbandonedUploadsSwept
<1>. DEFINE slack == failed * SweepPeriod
            all   == MaxSweepFailures * SweepPeriod
<1>1. /\ failed \in Nat /\ SweepPeriod \in Nat /\ SweepMin \in Nat /\ SweepMax \in Nat
      /\ sinceSweep \in 0 .. SweepPeriod /\ \A l \in stored : l \in Links /\ assetAge[l] \in Nat
      /\ MaxSweepFailures \in Nat /\ failed <= MaxSweepFailures
  BY TimeAssumption DEF StateInv, TypeInv, TypeOK
<1>2. slack \in Nat /\ all \in Nat /\ slack <= all
  BY <1>1
<1>3. (MaxSweepFailures + 1) * SweepPeriod = all + SweepPeriod
  BY <1>1
<1>4. SweepMin + all + SweepPeriod <= SweepMax
  <2>. HIDE DEF all
  <2>. QED
    BY <1>1, <1>2, <1>3, TimeAssumption
<1>. HIDE DEF slack, all
<1>5. ASSUME NEW l \in stored \ attached
      PROVE  assetAge[l] <= SweepMin + slack + SweepPeriod
  BY <1>1, <1>2, <1>5 DEF SweptInv, slack
<1>. QED
  BY <1>1, <1>2, <1>4, <1>5 DEF AbandonedUploadsSwept

(* No uploaded file that never got a row outlives the window in which the  *)
(* sweep looks for it, as long as no more than MaxSweepFailures sweeps in  *)
(* a row fail, whatever the period, the window and that number are.        *)
THEOREM AbandonedUploadsAreSwept == Spec => []AbandonedUploadsSwept
<1>1. Init => SweptInv
  BY SweptInit
<1>2. StateInv /\ SweptInv /\ [Next]_vars => SweptInv'
  BY SweptNext
<1>3. StateInv /\ SweptInv => AbandonedUploadsSwept
  BY WindowSuffices
<1>. QED
  BY <1>1, <1>2, <1>3, StateInvariant, PTL DEF Spec

-----------------------------------------------------------------------------
(* The promise of ServedImages.                                            *)

LEMMA KeptFiles ==
  ASSUME StateInv, ServedInv
  PROVE  Kept \subseteq stored /\ stored \subseteq Links
  BY DEF Kept, ServedInv, PromptRowsServed, StateInv, TypeInv, TypeOK

LEMMA PromiseSame ==
  ASSUME UNCHANGED <<stored, link, prompt, condemned>>
  PROVE  UNCHANGED Promise!served
  BY DEF Promise!served, Kept

LEMMA PromiseRelease ==
  ASSUME StateInv, ServedInv, prompt' \subseteq prompt, condemned \subseteq condemned',
         UNCHANGED <<stored, link>>
  PROVE  Promise!Next
<1>1. Kept' \subseteq Kept
  BY DEF Kept
<1>2. Kept \ Kept' \in SUBSET Links
  BY KeptFiles
<1>3. Promise!Release(Kept \ Kept')
  BY <1>1 DEF Promise!Release
<1>. QED
  BY <1>2, <1>3 DEF Promise!Next

LEMMA PromiseKeep ==
  ASSUME StateInv, ServedInv, (StateInv /\ ServedInv)', prompt \subseteq prompt',
         UNCHANGED <<stored, link, condemned>>
  PROVE  Promise!Next
<1>1. Kept \subseteq Kept'
  BY DEF Kept
<1>2. Kept' \subseteq stored /\ Kept' \in SUBSET Links
  BY DEF Kept, ServedInv, PromptRowsServed, StateInv, TypeInv, TypeOK
<1>3. Promise!Keep(Kept')
  BY <1>1, <1>2 DEF Promise!Keep
<1>. QED
  BY <1>2, <1>3 DEF Promise!Next

LEMMA PromiseDiscard ==
  ASSUME NEW gone \in SUBSET Links, gone \cap Kept = {}, stored' = stored \ gone,
         UNCHANGED <<link, prompt, condemned>>
  PROVE  Promise!Next
<1>1. Kept' = Kept
  BY DEF Kept
<1>2. Promise!Discard(gone)
  BY <1>1 DEF Promise!Discard
<1>. QED
  BY <1>2 DEF Promise!Next

LEMMA PromisePublishing ==
  ASSUME StateInv, Publishing
  PROVE  Promise!Next \/ UNCHANGED Promise!served
<1>1. ASSUME NEW u, NEW i, NEW want, Create(u, i, want)
      PROVE  UNCHANGED Promise!served
  BY <1>1, PromiseSame DEF Create, fileVars, jobVars
<1>2. ASSUME NEW l \in Links, Upload(l)
      PROVE  Promise!Next
  <2>1. Kept' = Kept
    BY <1>2 DEF Upload, Kept, jobVars
  <2>2. l \notin stored /\ stored' = stored \cup {l}
    BY <1>2 DEF Upload, StateInv, TypeInv, TypeOK
  <2>3. Promise!Receive(l)
    BY <2>1, <2>2 DEF Promise!Receive
  <2>. QED
    BY <2>3 DEF Promise!Next
<1>. QED
  BY <1>1, <1>2 DEF Publishing

LEMMA PromiseHandlers ==
  ASSUME StateInv, ServedInv, (StateInv /\ ServedInv)', Updating \/ AddingImages
  PROVE  Promise!Next \/ UNCHANGED Promise!served
<1>1. ASSUME NEW i, NEW s, NEW images, SaveItem(i, s, images), UNCHANGED <<link, fileVars, jobVars>>
      PROVE  Promise!Next
  <2>1. prompt \subseteq prompt' /\ UNCHANGED <<stored, link, condemned>>
    BY <1>1 DEF SaveItem, fileVars, jobVars
  <2>. QED
    BY <2>1, PromiseKeep
<1>2. ASSUME NEW p \in Procs, UpdateRemovesImage(p) \/ UpdateQueuesImage(p)
      PROVE  Promise!Next
  <2>1. prompt' \subseteq prompt /\ condemned \subseteq condemned' /\ UNCHANGED <<stored, link>>
    BY <1>2 DEF UpdateRemovesImage, UpdateQueuesImage, QueueImage, fileVars, jobVars
  <2>. QED
    BY <2>1, PromiseRelease
<1>3. ASSUME NEW p \in Procs, NEW r \in RowIds, NEW l \in Links, AddImagesChecks(p, r, l)
      PROVE  UNCHANGED Promise!served
  <2>1. UNCHANGED <<stored, prompt, condemned>> /\ \A q \in prompt : link'[q] = link[q]
    BY <1>3 DEF AddImagesChecks, AddRow, fileVars, jobVars, StateInv, TypeInv, TypeOK
  <2>2. Kept' = Kept
    BY <2>1 DEF Kept
  <2>. QED
    BY <2>1, <2>2 DEF Promise!served
<1>4. ASSUME OnlyMem
      PROVE  UNCHANGED Promise!served
  BY <1>4, PromiseSame DEF OnlyMem, fileVars, jobVars
<1>. QED
  BY <1>1, <1>2, <1>3, <1>4
  DEF Updating, AddingImages, UpdateReads, UpdateFindsImage, UpdateSaves, AddImagesReads,
      AddImagesSaves

LEMMA PromiseRemoving ==
  ASSUME StateInv, ServedInv, Removing \/ DeletingUsers \/ Purge
  PROVE  Promise!Next
<1>1. ASSUME NEW gone, DeleteItems(gone), UNCHANGED <<link, fileVars, jobVars>>
      PROVE  prompt' \subseteq prompt /\ condemned \subseteq condemned' /\ UNCHANGED <<stored, link>>
  BY <1>1 DEF DeleteItems, fileVars, jobVars
<1>2. ASSUME (\E f : QueueFolder(f)) \/ UNCHANGED jobVars, UNCHANGED <<link, fileVars, prompt>>
      PROVE  prompt' \subseteq prompt /\ condemned \subseteq condemned' /\ UNCHANGED <<stored, link>>
  BY <1>2 DEF QueueFolder, fileVars, jobVars
<1>3. CASE Removing
  BY <1>1, <1>2, <1>3, PromiseRelease DEF Removing, RemoveReads, RemoveDeletes, QueueWipe
<1>4. CASE DeletingUsers
  BY <1>1, <1>2, <1>4, PromiseRelease
  DEF DeletingUsers, DeleteUserQueues, DeleteUserRemoves, DeleteUserFails
<1>5. CASE Purge
  BY <1>1, <1>2, <1>5, PromiseRelease
  DEF Purge, PurgeLists, PurgeStarts, PurgeReads, PurgeMisses, PurgeDeletes, PurgeFails,
      OnlyPurge, QueueWipe
<1>. QED
  BY <1>3, <1>4, <1>5

LEMMA PromiseWorkers ==
  ASSUME StateInv, ServedInv, Workers
  PROVE  Promise!Next
<1>1. ASSUME NEW gone, gone \subseteq condemned, DeletesFiles(gone)
      PROVE  Promise!Next
  <2>1. gone \in SUBSET Links /\ gone \cap Kept = {}
    BY <1>1 DEF Kept, StateInv, TypeInv, TypeOK
  <2>. QED
    BY <1>1, <2>1, PromiseDiscard DEF DeletesFiles
<1>2. ASSUME NEW l \in imageJobs, NEW stalled \in BOOLEAN, ImageJobRuns(l, stalled)
      PROVE  Promise!Next
  BY <1>1, <1>2 DEF ImageJobRuns, ServedInv
<1>3. ASSUME NEW f \in folderJobs, NEW stalled \in BOOLEAN, FolderJobRuns(f, stalled)
      PROVE  Promise!Next
  BY <1>1, <1>3 DEF FolderJobRuns, ServedInv
<1>4. ASSUME NEW j, ImageJobFails(j) \/ FolderJobFails(j)
      PROVE  Promise!Next
  BY <1>1, <1>4 DEF ImageJobFails, FolderJobFails
<1>. QED
  BY <1>2, <1>3, <1>4 DEF Workers

LEMMA PromiseSweep ==
  ASSUME StateInv, ServedInv, Sweep
  PROVE  Promise!Next \/ UNCHANGED Promise!served
<1>1. CASE SweepDeletes
  <2>1. sweep.links \in SUBSET Links /\ sweep.links \cap Kept = {}
    BY <1>1 DEF SweepDeletes, Kept, ServedInv, StateInv, TypeInv, TypeOK
  <2>. QED
    BY <1>1, <2>1, PromiseDiscard DEF SweepDeletes, jobVars
<1>2. CASE SweepLists \/ SweepQueries \/ SweepFails
  BY <1>2, PromiseSame
  DEF SweepLists, SweepStarts, SweepQueries, SweepForgets, SweepFails, fileVars, jobVars
<1>. QED
  BY <1>1, <1>2 DEF Sweep

LEMMA PromiseNext ==
  ASSUME StateInv, ServedInv, (StateInv /\ ServedInv)', [Next]_vars
  PROVE  [Promise!Next]_Promise!served
<1>1. CASE Aborting \/ ExpireOldItems \/ Tick \/ UNCHANGED vars
  BY <1>1, PromiseSame
  DEF Aborting, Abort, OnlyMem, ExpireOldItems, Expire, Tick, vars, fileVars, jobVars
<1>. QED
  BY <1>1, PromisePublishing, PromiseHandlers, PromiseRemoving, PromiseWorkers, PromiseSweep
  DEF Next

(* The system implements ServedImages: a file an advert took into its      *)
(* keeping in time is discarded only after somebody asked for it.          *)
THEOREM PromiseKept == Spec => KeepsPromise
<1>1. Init => Promise!Init
  BY DEF Init, Promise!Init, Kept
<1>2. Init => ServedInv
  BY ServedInit
<1>3. StateInv /\ ServedInv /\ [Next]_vars => ServedInv'
  BY ServedNext
<1>4. /\ StateInv /\ ServedInv /\ (StateInv /\ ServedInv)' /\ [Next]_vars
      => [Promise!Next]_Promise!served
  BY PromiseNext
<1>. QED
  BY <1>1, <1>2, <1>3, <1>4, StateInvariant, PTL DEF Spec, KeepsPromise, Promise!Spec
=============================================================================
