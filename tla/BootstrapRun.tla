---------------------------- MODULE BootstrapRun ----------------------------
(***************************************************************************)
(* One branch's bootstrap runs, one after the other: the stages of         *)
(* runBootstrapInner (index.ts) for an OpenAPI document under spec-sync-   *)
(* mode update and collection-sync-mode refresh, the two write lanes, the  *)
(* two rollback routes (failOwned and the outer catch), and runs that are  *)
(* killed between any two remote calls and started again.                  *)
(*                                                                         *)
(* Data: the content of a specification or collection is Old (what an      *)
(* earlier document produced), New (what this document produces) or Mixed  *)
(* (a granular update that stopped half way).  A role's collection has one *)
(* identity: a fresh import uses the deterministic root of its name, and   *)
(* the tracked id is the root an earlier run imported.                     *)
(***************************************************************************)
EXTENDS Integers, Sequences, FiniteSets

CONSTANTS
    Roles,          \* the generated collections: baseline, smoke and contract
    RoleOrder,      \* collectionRoles, the order in which the workers take them
    SpecIds,        \* ids Spec Hub may allocate
    None, Absent,   \* no id or result; no such asset
    Lanes,          \* write workers when some role is reused
    Scopes,         \* the onboarding-scope inputs the runs are given
    PartlyTracked,  \* a tracked specification may come without tracked collections
    Granular,       \* collection-update-strategy auto: a failed update may stop half way
    MaxFaults, MaxCrashes   \* bounds: failing calls, killed runs

Contents == {"Old", "New", "Mixed"}

ASSUME RunAssumption ==
    /\ RoleOrder \in Seq(Roles) /\ \A r \in Roles : \E i \in 1..Len(RoleOrder) : RoleOrder[i] = r
    /\ \A i, j \in 1..Len(RoleOrder) : RoleOrder[i] = RoleOrder[j] => i = j
    /\ None \notin SpecIds /\ Absent \notin Contents /\ None \notin Contents
    /\ Lanes \in Nat \ {0} /\ Scopes \subseteq {"full", "spec-only"}
    /\ {Granular, PartlyTracked} \subseteq BOOLEAN
    /\ {MaxFaults, MaxCrashes} \subseteq Nat

VARIABLES
    specs,      \* [SpecIds -> Contents \cup {Absent}]: this asset name in Spec Hub
    coll,       \* [Roles -> Contents \cup {Absent}]: the role collections
    link,       \* [Roles -> SpecIds \cup {None}]: the specification relation
    file,       \* .postman/resources.yaml: [spec, roles]
    run,        \* the local state of the current run
    start,      \* [specs, coll, file] when the current run read its inputs
    faults, crashes

cloud == <<specs, coll, link>>
vars == <<specs, coll, link, file, run, start, faults, crashes>>

Stages == {"preflight", "spec", "convert", "snapshot", "write", "verify", "link", "tag",
           "save", "ownedRestore", "catch", "catchRestore", "restoreSpec",
           "published", "failed", "rollbackFailed", "crashed"}
Ended == {"published", "failed", "rollbackFailed", "crashed"}
Results == {"import", "update", "unchanged", "rejected"}

RunState ==
    [pc : Stages, scope : {"full", "spec-only"},
     spec : SpecIds \cup {None}, update : BOOLEAN, prev : Contents \cup {None},
     unchanged : BOOLEAN, created : BOOLEAN,
     reuse : SUBSET Roles, snaps : [Roles -> Contents \cup {None}],
     attempted : SUBSET Roles,
     next : 1..Len(RoleOrder) + 1, writing : SUBSET Roles, lost : BOOLEAN,
     result : [Roles -> Results \cup {None}], proved : SUBSET Roles,
     todo : SUBSET Roles, restoreFailed : BOOLEAN, ownedFailed : BOOLEAN]

FreshRun ==
    [pc |-> "preflight", scope |-> "full",
     spec |-> None, update |-> FALSE,   \* specId, isSpecUpdate
     prev |-> None,                     \* previousSpecContent
     unchanged |-> FALSE,               \* specContentUnchanged
     created |-> FALSE,                 \* createdNewSpec
     reuse |-> {},                      \* roles with an existing id
     snaps |-> [r \in Roles |-> None],  \* deepUpdateSnapshots
     attempted |-> {},                  \* attemptedDeepUpdates
     next |-> 1, writing |-> {}, lost |-> FALSE,   \* the write workers
     result |-> [r \in Roles |-> None],
     proved |-> {},                     \* roles whose final content was verified
     todo |-> {}, restoreFailed |-> FALSE, ownedFailed |-> FALSE]

Existing == {i \in SpecIds : specs[i] # Absent}

\* A role is tracked, or its root may be left from a run that never saved; the
\* specification likewise.  Assets that the file tracks exist.
Init ==
    /\ file \in [spec : {None} \cup SpecIds, roles : SUBSET Roles]
    /\ specs \in [SpecIds -> {"Old", "New", Absent}]
    /\ \A i, j \in Existing : i = j
    /\ file.spec # None => specs[file.spec] # Absent
    /\ coll \in [Roles -> {"Old", "New", Absent}]
    /\ \A r \in file.roles : coll[r] # Absent
    /\ file.spec # None /\ ~PartlyTracked => file.roles = Roles
    \* A run that saved this document left its collections current with it.
    /\ file.spec # None /\ specs[file.spec] = "New"
          => file.roles = Roles /\ \A r \in Roles : coll[r] = "New"
    /\ link = [r \in Roles |-> None]
    /\ run = FreshRun
    /\ start = [specs |-> specs, coll |-> coll, file |-> file]
    /\ faults = 0 /\ crashes = 0

-----------------------------------------------------------------------------
At(stage) == run.pc = stage
Goto(stage) == run' = [run EXCEPT !.pc = stage]
Fails == faults < MaxFaults /\ faults' = faults + 1
Works == faults' = faults

\* failOwned begins by restoring every attempted deep update; the catch block
\* does so after its (here empty) compensation of journaled imports.
FailOwned == run' = [run EXCEPT !.pc = "ownedRestore", !.todo = run.attempted,
                                !.restoreFailed = FALSE]
\* Mutant: the catch block forgets the attempted deep updates.
ThrowPastRestore == Goto("restoreSpec")
Throw == Goto("catch")

-----------------------------------------------------------------------------
(* The stages *)

\* Everything before the first mutation of an asset: the tracked ids are
\* resolved and the previous content is captured; an error here just ends the run.
Preflight ==
    /\ At("preflight")
    /\ start' = [specs |-> specs, coll |-> coll, file |-> file]
    /\ \/ /\ Works
          /\ file.spec # None => specs[file.spec] # Absent
          /\ \E scope \in Scopes :
               run' = [run EXCEPT !.pc = "spec", !.scope = scope, !.spec = file.spec,
                         !.update = file.spec # None, !.reuse = file.roles,
                         !.prev = IF file.spec = None THEN None ELSE specs[file.spec]]
       \/ Fails /\ Goto("failed")
    /\ UNCHANGED <<cloud, file, crashes>>

Full == run.scope = "full"
AfterSpec == IF Full THEN "convert" ELSE "save"

\* A tracked specification whose content already matches is not written, and
\* then no collection is regenerated either: no root content is configured here
\* (in refresh mode it regenerates them, AssetIdentity!KeepsCollections).
KeepSpec ==
    /\ At("spec") /\ run.update /\ run.prev = "New"
    /\ run' = [run EXCEPT !.unchanged = TRUE, !.pc = IF Full THEN "link" ELSE "save"]
    /\ Works /\ UNCHANGED <<cloud, file, start, crashes>>

UpdateSpec ==
    /\ At("spec") /\ run.update /\ run.prev # "New"
    /\ \/ /\ Works /\ specs' = [specs EXCEPT ![run.spec] = "New"]
          /\ Goto(AfterSpec)
       \/ /\ Fails /\ specs' \in {specs, [specs EXCEPT ![run.spec] = "New"]}
          /\ Throw
    /\ UNCHANGED <<coll, link, file, start, crashes>>

\* Mutant: the create is not preceded by a lookup.
BlindUpload ==
    /\ At("spec") /\ ~run.update
    /\ \E i \in SpecIds \ Existing :
         /\ Works /\ specs' = [specs EXCEPT ![i] = "New"]
         /\ run' = [run EXCEPT !.pc = AfterSpec, !.spec = i, !.created = TRUE]
    /\ UNCHANGED <<coll, link, file, start, crashes>>

\* Mutant: the id of an uploaded specification is saved at once.
UploadAndSave ==
    /\ At("spec") /\ ~run.update
    /\ \E i \in SpecIds :
         /\ Existing \subseteq {i}
         /\ Works /\ specs' = [specs EXCEPT ![i] = "New"]
         /\ file' = [file EXCEPT !.spec = i]
         /\ run' = [run EXCEPT !.pc = AfterSpec, !.spec = i, !.created = (Existing = {})]
    /\ UNCHANGED <<coll, link, start, crashes>>

\* uploadSpecWithOutcome without peers: adopt the one exact match or create.
\* A call that throws has set neither specId nor createdNewSpec.
UploadSpec ==
    /\ At("spec") /\ ~run.update
    /\ \E i \in SpecIds :
         /\ Existing \subseteq {i}
         /\ \/ /\ Works /\ specs' = [specs EXCEPT ![i] = "New"]
               /\ run' = [run EXCEPT !.pc = AfterSpec, !.spec = i,
                                     !.created = (Existing = {})]
            \/ Fails /\ specs' \in {specs, [specs EXCEPT ![i] = "New"]} /\ Throw
    /\ UNCHANGED <<coll, link, file, start, crashes>>

\* Local conversion and materialization of the three payloads.
Convert ==
    /\ At("convert")
    /\ \/ Works /\ Goto("snapshot")
       \/ Fails /\ FailOwned
    /\ UNCHANGED <<cloud, file, start, crashes>>

\* Every reused collection is exported before the first role is written.
Unread == {r \in run.reuse : run.snaps[r] = None}
\* Mutant: a role's export is not awaited before the writes begin.
SnapshotUnawaited ==
    /\ At("snapshot") /\ Works /\ Goto("write")
    /\ UNCHANGED <<cloud, file, start, crashes>>

Snapshot ==
    /\ At("snapshot")
    /\ \/ Unread = {} /\ Works /\ Goto("write")
       \/ \E r \in Unread :
            \/ Works /\ coll[r] # Absent /\ run' = [run EXCEPT !.snaps[r] = coll[r]]
            \/ Fails /\ FailOwned
    /\ UNCHANGED <<cloud, file, start, crashes>>

-----------------------------------------------------------------------------
(* The role writes.  Three fresh imports are issued together; otherwise    *)
(* Lanes workers take roles in order and stop taking them after a failure. *)

Role == RoleOrder[run.next]
Left == run.next <= Len(RoleOrder)
LaneFree == run.reuse = {} \/ (~run.lost /\ Cardinality(run.writing) < Lanes)

\* An update is registered for rollback before its first remote call.
StartWrite ==
    /\ At("write") /\ Left /\ LaneFree
    /\ run' = [run EXCEPT
         !.next = @ + 1,
         !.writing = @ \cup {Role},
         !.attempted = IF Role \in run.reuse /\ run.snaps[Role] # "New"
                       THEN @ \cup {Role} ELSE @]
    /\ Works /\ UNCHANGED <<cloud, file, start, crashes>>

Finished(r, res) == [run EXCEPT !.writing = @ \ {r}, !.result[r] = res,
                                !.lost = @ \/ res = "rejected",
                                !.proved = IF res = "unchanged" THEN @ \cup {r} ELSE @]

Written(r) == IF r \in run.reuse THEN "update" ELSE "import"

SkipRole(r) ==
    /\ At("write") /\ r \in run.writing /\ r \in run.reuse \ run.attempted
    /\ run' = Finished(r, "unchanged")
    /\ Works /\ UNCHANGED <<cloud, file, start, crashes>>

\* deepUpdateV2Collection, applyCollectionDelta or importV2Collection.  A
\* rejected call may have been executed, and what an accepted call stored may
\* differ from the payload.
WriteRole(r) ==
    /\ At("write") /\ r \in run.writing /\ r \in run.attempted \cup (Roles \ run.reuse)
    /\ \/ /\ Works /\ coll' = [coll EXCEPT ![r] = "New"]
          /\ run' = Finished(r, Written(r))
       \/ /\ Fails /\ coll' = [coll EXCEPT ![r] = "Mixed"]
          /\ run' = Finished(r, Written(r))
       \/ /\ Fails
          /\ \E c \in {coll[r], "New", "Mixed"} :
               /\ c \notin {coll[r], "New"} => Granular /\ r \in run.reuse
               /\ coll' = [coll EXCEPT ![r] = c]
          /\ run' = Finished(r, "rejected")
    /\ UNCHANGED <<specs, link, file, start, crashes>>

\* Mutant: the first rejection fails the stage (Promise.all of the writes).
CollectEarly ==
    /\ At("write")
    /\ \/ run.writing = {} /\ ~Left /\ ~run.lost /\ Goto("verify")
       \/ run.lost /\ FailOwned
    /\ Works /\ UNCHANGED <<cloud, file, start, crashes>>

\* Mutant: accepted writes count as verified.
CollectUnverified ==
    /\ At("write") /\ run.writing = {}
    /\ \/ ~Left /\ ~run.lost /\ Goto("link")
       \/ run.lost /\ (run.reuse = {} => ~Left) /\ FailOwned
    /\ Works /\ UNCHANGED <<cloud, file, start, crashes>>

\* Mutant: a worker that sees the other one's failure never returns.
CollectAllOrHang ==
    /\ At("write") /\ run.writing = {} /\ ~Left
    /\ IF run.lost THEN FailOwned ELSE Goto("verify")
    /\ Works /\ UNCHANGED <<cloud, file, start, crashes>>

\* Both workers have returned: a rejection anywhere fails the stage.
CollectWrites ==
    /\ At("write") /\ run.writing = {}
    /\ \/ ~Left /\ ~run.lost /\ Goto("verify")
       \/ run.lost /\ (run.reuse = {} => ~Left) /\ FailOwned
    /\ Works /\ UNCHANGED <<cloud, file, start, crashes>>

\* Each written role is read back; its identity, name, marker and embedded
\* digest are compared with the payload's, of which the content here is the digest.
Verify ==
    /\ At("verify")
    /\ \/ run.proved = Roles /\ Works /\ Goto("link")
       \/ \E r \in Roles \ run.proved :
            \/ Works /\ coll[r] = "New" /\ run' = [run EXCEPT !.proved = @ \cup {r}]
            \/ Works /\ coll[r] # "New" /\ FailOwned
            \/ Fails /\ FailOwned
    /\ UNCHANGED <<cloud, file, start, crashes>>

-----------------------------------------------------------------------------
(* Publication *)

\* The roles that have an id in the outputs: those written, or on an unchanged
\* specification those that were tracked.
Linked == IF run.unchanged THEN run.reuse ELSE Roles
LinkedNow == [r \in Roles |-> IF r \in Linked THEN run.spec ELSE link[r]]

\* linkCollectionsToSpecification and its relation read-back, which wants three.
Link ==
    /\ At("link")
    /\ \/ Linked = {} /\ Works /\ Goto("tag") /\ UNCHANGED link
       \/ Linked = Roles /\ Works /\ Goto("tag") /\ link' = LinkedNow
       \/ Linked \notin {{}, Roles} /\ Works /\ Throw /\ link' = LinkedNow
       \/ Linked # {} /\ Fails /\ Throw /\ link' \in {link, LinkedNow}
    /\ UNCHANGED <<specs, coll, file, start, crashes>>

\* tagCollection on the three outputs, the manifest, and the receipt files.  A
\* missing output makes the tag request address no collection.
Tag ==
    /\ At("tag")
    /\ \/ Linked = Roles /\ Works /\ Goto("save")
       \/ Linked # Roles /\ Works /\ Throw
       \/ Fails /\ Throw
    /\ UNCHANGED <<cloud, file, start, crashes>>

\* recordCurrentBootstrapResources and the one write of the asset ids.
Save ==
    /\ At("save")
    /\ \/ /\ Works
          /\ file' = [spec |-> run.spec,
                      roles |-> IF Full THEN file.roles \cup Linked ELSE file.roles]
          /\ run' = [run EXCEPT !.pc = "published", !.created = FALSE]
       \/ Fails /\ Throw /\ UNCHANGED file
    /\ UNCHANGED <<cloud, start, crashes>>

-----------------------------------------------------------------------------
(* Rollback *)

\* restoreAttemptedDeepUpdates goes on after a failure and clears the set only
\* when nothing failed.  What it sends is a document that Postman exported, so
\* an accepted call stores it as it is.
RestoreOne(r) ==
    /\ run.pc \in {"ownedRestore", "catchRestore"} /\ r \in run.todo
    /\ \/ /\ Works /\ coll' = [coll EXCEPT ![r] = run.snaps[r]]
          /\ run' = [run EXCEPT !.todo = @ \ {r}]
       \/ /\ Fails /\ coll' \in {coll, [coll EXCEPT ![r] = run.snaps[r]]}
          /\ run' = [run EXCEPT !.todo = @ \ {r}, !.restoreFailed = TRUE]
    /\ UNCHANGED <<specs, link, file, start, crashes>>

\* failOwned rethrows into the outer catch, as a rollback failure if one failed.
OwnedDone ==
    /\ At("ownedRestore") /\ run.todo = {}
    /\ run' = [run EXCEPT !.pc = "catch", !.ownedFailed = run.restoreFailed,
                          !.attempted = IF run.restoreFailed THEN @ ELSE {}]
    /\ Works /\ UNCHANGED <<cloud, file, start, crashes>>

Catch ==
    /\ At("catch")
    /\ run' = [run EXCEPT !.pc = "catchRestore", !.todo = run.attempted,
                          !.restoreFailed = FALSE]
    /\ Works /\ UNCHANGED <<cloud, file, start, crashes>>

\* When the collections cannot be restored the specification is left as it is.
CatchDone ==
    /\ At("catchRestore") /\ run.todo = {}
    /\ run' = IF run.restoreFailed THEN [run EXCEPT !.pc = "rollbackFailed"]
              ELSE [run EXCEPT !.pc = "restoreSpec", !.attempted = {}]
    /\ Works /\ UNCHANGED <<cloud, file, start, crashes>>

\* Mutant: only a created specification is cleaned up.
OnlyCreatedRemoved ==
    IF run.created THEN [specs EXCEPT ![run.spec] = Absent] ELSE specs

\* restorePreviousSpecContent: delete a specification this run created, put the
\* previous content of a tracked one back, leave an adopted one alone.
SpecRestored ==
    IF run.created THEN [specs EXCEPT ![run.spec] = Absent]
    ELSE IF run.update THEN [specs EXCEPT ![run.spec] = run.prev]
    ELSE specs
RestoreSpec ==
    /\ At("restoreSpec")
    /\ \/ /\ Works /\ specs' = SpecRestored
          /\ Goto(IF run.ownedFailed THEN "rollbackFailed" ELSE "failed")
       \/ /\ run.created \/ run.update
          /\ Fails /\ specs' \in {specs, SpecRestored}
          /\ Goto("rollbackFailed")
    /\ UNCHANGED <<coll, link, file, start, crashes>>

-----------------------------------------------------------------------------
(* The runner *)

\* The process dies; a write it had issued is executed or not.  A granular update
\* is one write here: that a kill leaves it half done, a mixed collection, is not
\* modelled (CollectionDelta has the states between its calls).
Crash ==
    /\ run.pc \notin Ended /\ crashes < MaxCrashes
    /\ \E done \in SUBSET run.writing :
         coll' = [r \in Roles |-> IF r \in done \ (run.reuse \ run.attempted)
                                  THEN "New" ELSE coll[r]]
    /\ Goto("crashed") /\ crashes' = crashes + 1
    /\ UNCHANGED <<specs, link, file, start, faults>>

\* The workflow is run again on the same document.
Rerun ==
    /\ run.pc \in Ended
    /\ run' = FreshRun
    /\ UNCHANGED <<cloud, file, start, faults, crashes>>

Step == \/ Preflight \/ KeepSpec \/ UpdateSpec \/ UploadSpec \/ Convert \/ Snapshot
        \/ StartWrite \/ CollectWrites \/ Verify \/ Link \/ Tag \/ Save
        \/ OwnedDone \/ Catch \/ CatchDone \/ RestoreSpec
        \/ \E r \in Roles : SkipRole(r) \/ WriteRole(r) \/ RestoreOne(r)

Next == Step \/ Crash \/ Rerun

Spec == Init /\ [][Next]_vars

\* The event loop keeps executing the run, and a run that did not publish is
\* started again.
FairSpec == Spec /\ WF_vars(Step) /\ WF_vars(~At("published") /\ Rerun)

-----------------------------------------------------------------------------
(* Properties *)

\* Every variable stays in its set; in particular what rollback puts back is the
\* content of some collection that existed.
TypeOK ==
    /\ specs \in [SpecIds -> Contents \cup {Absent}]
    /\ coll \in [Roles -> Contents \cup {Absent}]
    /\ link \in [Roles -> SpecIds \cup {None}]
    /\ file \in [spec : SpecIds \cup {None}, roles : SUBSET Roles]
    /\ run \in RunState
    /\ start \in [specs : [SpecIds -> Contents \cup {Absent}],
                  coll : [Roles -> Contents \cup {Absent}],
                  file : [spec : SpecIds \cup {None}, roles : SUBSET Roles]]
    /\ faults \in 0..MaxFaults /\ crashes \in 0..MaxCrashes

\* A run that ends with an ordinary error has put back every tracked collection
\* and the tracked specification: what is not restored is reported as
\* LOCAL_OPENAPI_ORCHESTRATION_ROLLBACK_FAILED or CONTRACT_SPEC_ROLLBACK_FAILED.
FailedRunRestores ==
    At("failed") =>
        /\ \A r \in start.file.roles : coll[r] = start.coll[r]
        /\ start.file.spec # None => specs[start.file.spec] = start.specs[start.file.spec]

\* The tracked state never names an asset that does not exist, although a
\* rollback deletes the specification its run created.
StateNeverDangles ==
    /\ file.spec # None => specs[file.spec] # Absent
    /\ \A r \in file.roles : coll[r] # Absent

\* Rollback never runs while a write of the other lane is still in flight, so
\* no late write lands on a restored collection.
RollbackAfterLanes ==
    run.pc \in {"ownedRestore", "catch", "catchRestore", "restoreSpec"} => run.writing = {}

\* A reused collection differs from what the run found only if the snapshot
\* that rollback would use holds what the run found.
SnapshotBeforeWrite ==
    run.pc \notin Ended \cup {"preflight"} =>
        \A r \in run.reuse : coll[r] # start.coll[r]
            => r \in run.attempted /\ run.snaps[r] = start.coll[r]

\* The asset ids are saved only after the regenerated collections have been
\* verified and linked ("Persist spec-id + collection resources only after
\* verified linking").
SavedOnlyVerified ==
    [][file' # file /\ Full =>
        /\ \A r \in file'.roles : coll[r] = "New" /\ link[r] = file'.spec
        /\ specs[file'.spec] = "New"]_vars

\* However often the workflow is killed and run again there is one
\* specification with the name.
RerunsNeverDuplicate == \A i, j \in Existing : i = j

\* A run that succeeded left every collection generated from the current
\* document ("refresh regenerates baseline, smoke, and contract collections
\* from the resolved spec").
PublishedIsCurrent ==
    At("published") /\ Full => \A r \in Roles : coll[r] = "New"

\* No run gives up on its rollback before it has tried to put the previous
\* content of an updated specification back ("If a later required step fails
\* after the update, the action attempts to restore the previous Spec Hub
\* content").
SpecRestoreAttempted ==
    [][run'.pc = "rollbackFailed" /\ run.update /\ ~run.unchanged
         => At("restoreSpec")]_vars

\* With enough reruns one of them publishes.
RerunsConverge == <>At("published")
=============================================================================
