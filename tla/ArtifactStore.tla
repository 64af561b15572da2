---------------------------- MODULE ArtifactStore ----------------------------
(***************************************************************************)
(* The artifact storage under jobs/{id}/ (infrastructure/storage).  A run  *)
(* saves its artifacts one after the other, 1..NumArtifacts, under keys    *)
(* that depend on the job and the artifact type only, so that two runs of  *)
(* one job write to the same keys.  An artifact counts as stored when all  *)
(* of it is there.                                                         *)
(***************************************************************************)
EXTENDS DistillationJob

CONSTANTS NumArtifacts, \* how many artifacts the engine hands over
          Directories,  \* which of them are directories (the student model)
          Backend       \* "local" or "s3" (settings.storage.backend)

ASSUME ArtifactAssumption ==
  /\ NumArtifacts \in Nat \ {0}
  /\ Directories \subseteq 1..NumArtifacts
  /\ Backend \in {"local", "s3"}

VARIABLE files \* files[j]: the artifacts of job j that are stored

Artifacts == 1..NumArtifacts

StoreTypeOK == files \in [Job -> SUBSET Artifacts]

StoreInit == files = [j \in Job |-> {}]

\* LocalArtifactStorage.save_directory replaces a directory in two steps,
\* shutil.rmtree and then shutil.copytree; everything else overwrites in place.
Replaces(k) == Backend = "local" /\ k \in Directories

RemoveOld(j, k) == files' = [files EXCEPT ![j] = @ \ {k}]

\* shutil.copytree refuses a destination that exists.
Blocked(j, k) == Replaces(k) /\ k \in files[j]

Save(j, k) == files' = [files EXCEPT ![j] = @ \cup {k}]

\* storage.delete("jobs/{id}") removes the whole prefix.
DeletePrefix(j) == files' = [files EXCEPT ![j] = {}]
=============================================================================
