------------------------------ MODULE MCItems ------------------------------
(* Instances of Items for TLC, and what the documentation says of it. *)
EXTENDS Items, TLC

Symmetry == Permutations(Procs)

(* Two overlapping handlers and what touches image rows and files.  The    *)
(* run of the whole specification covers expiry, the purge and the         *)
(* deletion of accounts with one handler; here the clients keep the        *)
(* status, which no image operation looks at.                              *)
ImagesNext ==
  \/ \E u \in Users, i \in ItemIds : Create(u, i, TRUE)
  \/ \E l \in Links : Upload(l)
  \/ \E p \in Procs :
       \/ \E i \in ItemIds :
            \/ UpdateReads(p, owner[i], i, status[i])
            \/ AddImagesReads(p, owner[i], i, FALSE)
            \/ RemoveReads(p, owner[i], i, TRUE)
       \/ \E r \in RowIds : UpdateFindsImage(p, r)
       \/ UpdateQueuesImage(p)
       \/ UpdateRemovesImage(p)
       \/ UpdateSaves(p, FALSE)
       \/ \E r \in RowIds, l \in Links : AddImagesChecks(p, r, l)
       \/ AddImagesSaves(p)
       \/ RemoveDeletes(p)
       \/ Abort(p)
  \/ Workers \/ Sweep \/ Tick

ImagesSpec == Init /\ [][ImagesNext]_vars

-----------------------------------------------------------------------------
(* README.md:41: the nightly script deletes orphaned, unused images.       *)
SweepRemovesOnlyOrphans ==
  [][SweepDeletes => sweep.links \cap {link[r] : r \in rows} = {}]_vars

(* README.md:37: deleting an item or a user account wipes the associated  *)
(* image assets; here, no others.                                          *)
WipeSparesOthers ==
  [][\A f \in folderJobs : FolderJobRuns(f, FALSE) =>
       \A l \in stored \ stored' :
         l.user = f.user /\ (f.item # NoItem => l.item = f.item)]_vars

(* README.md:40: the purge removes abandoned draft items.                  *)
PurgeRemovesOnlyDrafts ==
  [][\A i \in ItemIds : (PurgeDeletes /\ purge.item = i)
                          => status[i] \in {"DRAFT", "ABSENT"}]_vars
=============================================================================
