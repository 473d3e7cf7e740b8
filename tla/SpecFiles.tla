------------------------------ MODULE SpecFiles ------------------------------
(***************************************************************************)
(* The multi-file specification in Spec Hub (uploadSpecBundle,             *)
(* reconcileSpecBundle and restoreSpecBundle of the gateway client, and    *)
(* spec-file-reconcile.ts), as the orchestrator uses it: create or         *)
(* reconcile, verify, and on a later failure delete or restore.            *)
(*                                                                         *)
(* A bundle is a root path and the content of each path.  One call may     *)
(* fail without effect, or fail although it was executed; what fails is    *)
(* executed at once or never.                                              *)
(***************************************************************************)
EXTENDS Integers, FiniteSets, Sequences, SequencesExt, SortedSets

CONSTANTS
    Paths,          \* file paths, ordered as numbers
    Directory,      \* [Paths -> Directories]
    TopDirectory,   \* the directory of files without a folder
    Flat,           \* [Paths -> Paths]: the base name, at the top
    Contents,       \* file contents
    NoFile,
    Bundles,        \* the bundles that runs send or find
    MaxFileFaults,  \* bound on failing calls
    RestoreAttempts \* of the orchestrator's restore and delete

FileSets == [Paths -> Contents \cup {NoFile}]

ASSUME FileAssumption ==
    /\ Paths \subseteq Nat /\ IsFiniteSet(Paths)
    /\ Directory \in [Paths -> Paths \cup {TopDirectory}]
    /\ Flat \in [Paths -> Paths] /\ NoFile \notin Contents
    /\ Bundles \subseteq [root : Paths, files : FileSets] /\ Bundles # {}
    /\ \A b \in Bundles : b.files[b.root] # NoFile
    /\ MaxFileFaults \in Nat /\ RestoreAttempts \in Nat \ {0}

VARIABLES
    cloud,      \* the specification in Spec Hub
    holder,     \* "none", "own" or "peer": who created it, if it exists
    contended,  \* a peer has adopted the own specification
    sync,       \* the run
    fileFaults

fileVars == <<cloud, holder, contended, sync, fileFaults>>

Policies == {"atomicBulk", "bulk", "perFile"}
FileOps == [kind : {"create", "update", "delete"}, path : Paths]
SyncStages == {"idle", "post", "recover", "elect", "readback", "cleanup", "read", "bulk",
               "files", "failedWrite", "verify", "later", "delete",
               "published", "restored", "removed", "unrestored", "failed"}
SyncEnded == {"published", "restored", "removed", "unrestored", "failed"}

SyncState ==
    [pc : SyncStages, policy : Policies,
     tracked : BOOLEAN,      \* isSpecUpdate: the specification id was known
     created : BOOLEAN,      \* createdNewSpec
     restoring : BOOLEAN,
     prior : Bundles,        \* what the specification held at first
     target : Bundles, goal : Bundles,
     ops : Seq(FileOps), tries : 0..RestoreAttempts]

SpecFilesTypeOK ==
    /\ cloud \in [root : Paths, files : FileSets]
    /\ holder \in {"none", "own", "peer"}
    /\ contended \in BOOLEAN
    /\ sync \in SyncState
    /\ fileFaults \in 0..MaxFileFaults

FirstBundle == CHOOSE b \in Bundles : TRUE
SpecFilesInit ==
    /\ cloud = FirstBundle
    /\ holder = "none" /\ contended = FALSE
    /\ sync = [pc |-> "idle", policy |-> "perFile", tracked |-> FALSE, created |-> FALSE,
               restoring |-> FALSE, prior |-> FirstBundle, target |-> FirstBundle,
               goal |-> FirstBundle, ops |-> <<>>, tries |-> 0]
    /\ fileFaults = 0

-----------------------------------------------------------------------------
(* The plan *)

Has(b) == {p \in Paths : b.files[p] # NoFile}

Op(b, goal, p) ==
    [kind |-> IF b.files[p] = NoFile THEN "create"
              ELSE IF goal.files[p] = NoFile THEN "delete" ELSE "update",
     path |-> p]

\* orderPerFileReconcileOps: creates and updates by path, then the root, then
\* the stale files.
Sooner(b, o1, o2) ==
    LET Rank(o) == IF o.kind = "delete" THEN 2 ELSE IF o.path = b.root THEN 1 ELSE 0 IN
    Rank(o1) < Rank(o2) \/ (Rank(o1) = Rank(o2) /\ o1.path < o2.path)

\* planSpecFileReconcile
PlannedOps(b, goal) ==
    LET ops == {Op(b, goal, p) : p \in {q \in Paths : b.files[q] # goal.files[q]}} IN
    Ascending(ops, {r \in ops \X ops : Sooner(b, r[1], r[2])})

\* resolvePerFileCreateParentId: a file is created in a folder only when a
\* listed file shows that folder's id, and otherwise at the top.
Landing(b, p) ==
    IF Directory[p] = TopDirectory \/ \E q \in Has(b) : Directory[q] = Directory[p]
    THEN p ELSE Flat[p]

\* One call per file.  The service refuses a create where a file is.
FileWritten(b, op, goal) ==
    LET at == IF op.kind = "create" THEN Landing(b, op.path) ELSE op.path IN
    IF op.kind = "create" /\ at \in Has(b) THEN b
    ELSE [b EXCEPT !.files[at] = goal.files[op.path]]
FileRefused(b, op) == op.kind = "create" /\ Landing(b, op.path) \in Has(b)

\* One bulk request, with full paths.
BulkWritten(b, ops, goal) ==
    [b EXCEPT !.files = [p \in Paths |->
        IF \E o \in ops : o.path = p THEN goal.files[p] ELSE b.files[p]]]

-----------------------------------------------------------------------------
SyncAt(pc) == sync.pc = pc
SyncGoto(pc) == sync' = [sync EXCEPT !.pc = pc]
FileFault == fileFaults < MaxFileFaults /\ fileFaults' = fileFaults + 1
FilesWork == UNCHANGED fileFaults
CloudIdle == UNCHANGED <<cloud, holder, contended>>

\* A failed reconcile fails the run, or is one more failed attempt to restore.
Failing ==
    IF ~sync.restoring
    THEN [sync EXCEPT !.pc = IF sync.created THEN "delete"
                             ELSE IF sync.tracked THEN "read" ELSE "failed",
                      !.restoring = sync.tracked, !.goal = sync.prior, !.tries = 0]
    ELSE [sync EXCEPT !.pc = IF sync.tries + 1 < RestoreAttempts THEN "read" ELSE "unrestored",
                      !.tries = @ + 1]
Succeeding == [sync EXCEPT !.pc = IF sync.restoring THEN "restored" ELSE "later"]

\* A run starts with a tracked specification, or looks for its name: none, one
\* left by an earlier run, or a peer's.
BeginSync ==
    /\ SyncAt("idle")
    /\ \E before, target \in Bundles, policy \in Policies, known \in {"tracked", "found", "none"} :
          /\ cloud' = before
          /\ holder' = IF known = "none" THEN "none" ELSE "peer"
          /\ sync' = [sync EXCEPT !.pc = IF known = "none" THEN "post" ELSE "read",
                         !.policy = policy, !.tracked = known = "tracked",
                         !.prior = before, !.target = target, !.goal = target]
    /\ UNCHANGED contended /\ FilesWork

-----------------------------------------------------------------------------
(* reconcileSpecBundle *)

\* loadSpecBundleState, the comparison of digests, and the plan.  A different
\* root path is refused before anything is written.
ReadPrior ==
    /\ SyncAt("read")
    /\ \/ cloud = sync.goal /\ sync' = Succeeding /\ FilesWork
       \/ cloud.root # sync.goal.root /\ sync' = Failing /\ FilesWork
       \/ /\ cloud # sync.goal /\ cloud.root = sync.goal.root
          /\ sync' = [sync EXCEPT !.pc = IF sync.policy = "perFile" THEN "files" ELSE "bulk",
                                  !.ops = PlannedOps(cloud, sync.goal)]
          /\ FilesWork
       \/ sync' = Failing /\ FileFault
    /\ CloudIdle

\* applyBulkSpecFileReconcile.  Only an atomic bulk request is all or nothing.
ApplyBulk ==
    /\ SyncAt("bulk")
    /\ \/ /\ cloud' = BulkWritten(cloud, ToSet(sync.ops), sync.goal)
          /\ \/ SyncGoto("verify") /\ FilesWork
             \/ SyncGoto("failedWrite") /\ FileFault
       \/ /\ \E part \in SUBSET ToSet(sync.ops) :
                /\ sync.policy = "atomicBulk" => part = {}
                /\ cloud' = BulkWritten(cloud, part, sync.goal)
          /\ SyncGoto("failedWrite") /\ FileFault
    /\ UNCHANGED <<holder, contended>>

\* applyPerFileSpecFileReconcile
ApplyFile ==
    /\ SyncAt("files")
    /\ \/ sync.ops = <<>> /\ SyncGoto("verify") /\ UNCHANGED cloud /\ FilesWork
       \/ /\ sync.ops # <<>>
          /\ \/ /\ cloud' = FileWritten(cloud, Head(sync.ops), sync.goal)
                /\ sync' = IF FileRefused(cloud, Head(sync.ops))
                           THEN [sync EXCEPT !.pc = "failedWrite"]
                           ELSE [sync EXCEPT !.ops = Tail(@)]
                /\ FilesWork
             \/ /\ cloud' \in {cloud, FileWritten(cloud, Head(sync.ops), sync.goal)}
                /\ SyncGoto("failedWrite") /\ FileFault
    /\ UNCHANGED <<holder, contended>>

\* After a failed write nothing is sent again: what is there decides.
ReadAfterFailure ==
    /\ SyncAt("failedWrite")
    /\ \/ cloud = sync.goal /\ sync' = Succeeding /\ FilesWork
       \/ cloud # sync.goal /\ sync' = Failing /\ FilesWork
       \/ sync' = Failing /\ FileFault
    /\ CloudIdle

\* Mutant: accepted writes are not read back.
VerifyNothing == SyncAt("verify") /\ sync' = Succeeding /\ CloudIdle /\ FilesWork
\* The read-back of the full set.
VerifyGoal ==
    /\ SyncAt("verify")
    /\ \/ cloud = sync.goal /\ sync' = Succeeding /\ FilesWork
       \/ cloud # sync.goal /\ sync' = Failing /\ FilesWork
       \/ sync' = Failing /\ FileFault
    /\ CloudIdle

-----------------------------------------------------------------------------
(* uploadSpecBundle *)

\* The create.  An answer that is lost leads to one more lookup by name.
PostBundle ==
    /\ SyncAt("post")
    /\ \/ /\ cloud' = sync.target /\ holder' = "own"
          /\ \/ SyncGoto("elect") /\ FilesWork
             \/ SyncGoto("recover") /\ FileFault
       \/ /\ UNCHANGED <<cloud, holder>>
          /\ (SyncGoto("recover") \/ SyncGoto("failed")) /\ FileFault
    /\ UNCHANGED contended

RecoverPost ==
    /\ SyncAt("recover")
    /\ SyncGoto(IF holder = "none" THEN "failed" ELSE "read")
    /\ CloudIdle /\ FilesWork

\* electStableNewSpecificationIdentity: the own one, alone or adopted by a peer,
\* or a peer's, whose election has deleted the own one.
ElectBundle ==
    /\ SyncAt("elect")
    /\ \/ SyncGoto("readback") /\ contended' \in BOOLEAN /\ UNCHANGED <<cloud, holder>> /\ FilesWork
       \/ /\ cloud' \in Bundles /\ holder' = "peer" /\ UNCHANGED contended
          /\ SyncGoto("read") /\ FilesWork
       \/ SyncGoto("cleanup") /\ CloudIdle /\ FileFault

\* A stored bundle may differ from the one sent.
ReadBackCreated ==
    /\ SyncAt("readback")
    /\ \/ /\ cloud = sync.target
          /\ sync' = [sync EXCEPT !.pc = "later", !.created = ~contended] /\ FilesWork
       \/ SyncGoto("cleanup") /\ FileFault
    /\ CloudIdle

\* cleanupSafe: the whole specification is deleted unless a peer shares it.
CleanupCreated ==
    /\ SyncAt("cleanup")
    /\ \/ ~contended /\ holder' = "none" /\ FilesWork
       \/ contended /\ UNCHANGED holder /\ FilesWork
       \/ UNCHANGED holder /\ FileFault
    /\ SyncGoto("failed")
    /\ UNCHANGED <<cloud, contended>>

-----------------------------------------------------------------------------
(* The orchestrator *)

\* Later stages succeed, or fail and roll back: a created specification is
\* deleted, a tracked one restored, one found by name left as it is.
Later ==
    /\ SyncAt("later")
    /\ SyncGoto("published") \/ sync' = Failing
    /\ CloudIdle /\ FilesWork

DeleteCreated ==
    /\ SyncAt("delete")
    /\ \/ holder' = "none" /\ SyncGoto("removed") /\ FilesWork
       \/ /\ UNCHANGED holder /\ FileFault
          /\ sync' = [sync EXCEPT !.tries = @ + 1,
                         !.pc = IF sync.tries + 1 < RestoreAttempts THEN "delete" ELSE "unrestored"]
    /\ UNCHANGED <<cloud, contended>>

SpecFilesNext ==
    \/ BeginSync \/ ReadPrior \/ ApplyBulk \/ ApplyFile \/ ReadAfterFailure \/ VerifyGoal
    \/ PostBundle \/ RecoverPost \/ ElectBundle \/ ReadBackCreated \/ CleanupCreated
    \/ Later \/ DeleteCreated

SpecFilesSpec == SpecFilesInit /\ [][SpecFilesNext]_fileVars

-----------------------------------------------------------------------------
(* Properties *)

\* A run publishes a specification only when its files are exactly the bundle,
\* and says that it restored one only when they are exactly what it found.
FilesAsReported ==
    /\ SyncAt("published") => cloud = sync.target
    /\ SyncAt("restored") => cloud = sync.prior

\* A new file in a folder that no listed file reveals.
Strays ==
    /\ sync.policy = "perFile"
    /\ \E p \in Has(sync.prior) \cup Has(sync.target) : Directory[p] # TopDirectory

\* Whenever a reader looks, the files that the root refers to are there: new
\* files precede the root that names them, and files it no longer names follow
\* it, when a run is cut short and when it is rolled back too.
ClosureKept ==
    (sync.tracked /\ sync.policy # "bulk" /\ ~Strays /\ sync.prior.root = sync.target.root)
    => \A b, other \in {sync.prior, sync.target} :
          (b.files[b.root] # other.files[b.root] /\ cloud.files[b.root] = b.files[b.root])
          => Has(b) \subseteq Has(cloud)

\* No run deletes a specification that it found, or lost to a peer, or knows that
\* a peer has adopted.
DeletesOnlyUnshared ==
    holder # "none" /\ holder' = "none" => holder = "own" /\ ~contended

\* No step of a reconcile, of its rollback or of a peer's adoption breaks any of it.
ReconcileIsSafe ==
    [][SpecFilesTypeOK' /\ FilesAsReported' /\ ClosureKept' /\ DeletesOnlyUnshared]_fileVars
=============================================================================
