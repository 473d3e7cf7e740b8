-------------------------- MODULE CollectionImport --------------------------
(***************************************************************************)
(* importV2Collection and deepUpdateV2Collection                           *)
(* (postman-gateway-assets-client.ts): several processes import one final  *)
(* name into one workspace.  A convergent runner addresses the root that   *)
(* the workspace, name and branch marker determine; any other runner       *)
(* preallocates a root of its own and elects among the copies it sees.     *)
(*                                                                         *)
(* A root holds the revision of its last whole-tree write, which carries   *)
(* its receipt; "Legacy" is an owned tree without a receipt and "Foreign"  *)
(* a root renamed or marked by somebody else.  Calls may fail definitely,  *)
(* or ambiguously: executed, never executed, or executed later.  A polling *)
(* loop is one action that either sees what it polls for or gives up,      *)
(* which it does when its last read does not show it.                      *)
(***************************************************************************)
EXTENDS Integers, FiniteSets

CONSTANTS
    Importers,      \* processes in importV2Collection for the same final name
    Convergent,     \* those that pass convergentLogicalRoot
    RootIds,        \* collection roots of the workspace, ordered as numbers
    RootOf,         \* [Importers -> RootIds]: the preallocated root of each
    Revision,       \* [Importers -> Revisions]: the payload each imports
    Deferred,       \* deferNominalSemanticVerification
    Absent,         \* no such root
    MaxImportFaults \* bound on failing calls

ASSUME ImportAssumption ==
    /\ Convergent \subseteq Importers
    /\ RootIds \subseteq Nat
    /\ RootOf \in [Importers -> RootIds]
    /\ \A a, b \in Importers : RootOf[a] = RootOf[b] => a = b \/ {a, b} \subseteq Convergent
    /\ \A r \in Importers : Revision[r] \notin {"Legacy", "Foreign", Absent}
    /\ Absent \notin {"Legacy", "Foreign"}
    /\ Deferred \in BOOLEAN /\ MaxImportFaults \in Nat

Revisions == {Revision[r] : r \in Importers}
Trees == Revisions \cup {"Legacy", "Foreign"}

VARIABLES
    root,           \* [RootIds -> Trees \cup {Absent}]
    listed,         \* roots the workspace inventory shows; it lags behind root
    late,           \* unanswered writes that the service may still execute
    imp,            \* [Importers -> ImportState]
    importFaults

importVars == <<root, listed, late, imp, importFaults>>

ImportStages == {"snapshot", "import", "recover", "evidence", "update", "await", "resend",
                 "await2", "recheck", "resolve", "elect", "decide", "drop", "dropped",
                 "cleanup", "verify", "published", "failed", "conflict"}
ImportEnded == {"published", "failed", "conflict"}

ImportState ==
    [pc : ImportStages,
     stale : SUBSET RootIds,    \* staleFinalIdentities
     refused : BOOLEAN,         \* convergentConflict
     proven : BOOLEAN,          \* preferredIdentityEligibleForElection
     seen : SUBSET RootIds,     \* the last inventory observation
     target : RootIds]          \* the root this run will return

ImportTypeOK ==
    /\ root \in [RootIds -> Trees \cup {Absent}]
    /\ listed \subseteq RootIds
    /\ late \subseteq [by : Importers, id : RootIds, create : BOOLEAN]
    /\ imp \in [Importers -> ImportState]
    /\ importFaults \in 0..MaxImportFaults

Present == {i \in RootIds : root[i] # Absent}
Preallocated == {RootOf[r] : r \in Importers}

\* Roots of live random runs are fresh UUIDs; any other root may exist already.
ImportInit ==
    /\ root \in [RootIds -> {"Legacy", "Foreign", Absent} \cup Revisions]
    /\ \A r \in Importers \ Convergent : root[RootOf[r]] = Absent
    /\ listed = Present
    /\ late = {}
    /\ imp = [r \in Importers |->
                [pc |-> IF r \in Convergent THEN "import" ELSE "snapshot",
                 stale |-> {}, refused |-> FALSE, proven |-> FALSE, seen |-> {},
                 target |-> RootOf[r]]]
    /\ importFaults = 0

-----------------------------------------------------------------------------
ImportAt(r, pc) == imp[r].pc = pc
ImportGoto(r, pc) == imp' = [imp EXCEPT ![r].pc = pc]
ImportFault == importFaults < MaxImportFaults /\ importFaults' = importFaults + 1
ImportWorks == UNCHANGED importFaults
ServiceIdle == UNCHANGED <<root, listed, late>>

\* POST /collection/import refuses a root that exists; a deep update or a
\* delete of a root that does not exist changes nothing.
AfterCreate(r) == IF root[RootOf[r]] = Absent
                  THEN [root EXCEPT ![RootOf[r]] = Revision[r]] ELSE root
AfterPut(r, i) == IF root[i] = Absent THEN root ELSE [root EXCEPT ![i] = Revision[r]]
AfterDelete(i) == [root EXCEPT ![i] = Absent]

\* The answer is lost: the write was executed, never will be, or is still to be.
Unanswered(executed, write) ==
    /\ UNCHANGED listed
    /\ \/ root' = executed /\ UNCHANGED late
       \/ UNCHANGED <<root, late>>
       \/ UNCHANGED root /\ late' = late \cup {write}

\* The root has this logical asset's name and branch marker.
Owned(i) == root[i] \in Revisions \cup {"Legacy"}

-----------------------------------------------------------------------------
(* The service *)

\* The inventory catches up with one root.
Relist(i) ==
    /\ listed' = IF i \in Present THEN listed \cup {i} ELSE listed \ {i}
    /\ listed' # listed
    /\ UNCHANGED <<root, late, imp, importFaults>>

\* A write whose answer was lost is executed after all.
LateWrite(w) ==
    /\ w \in late
    /\ late' = late \ {w}
    /\ root' = IF w.create THEN AfterCreate(w.by) ELSE AfterPut(w.by, w.id)
    /\ UNCHANGED <<listed, imp, importFaults>>

-----------------------------------------------------------------------------
(* The import *)

\* Random roots record the same-name collections without this branch's marker.
\* The organisation inventory omits descriptions, so that may be all of them.
NameSnapshot(r) ==
    /\ ImportAt(r, "snapshot")
    /\ \/ /\ \E omitted \in BOOLEAN :
               imp' = [imp EXCEPT ![r].pc = "import",
                         ![r].stale = {i \in listed : omitted \/ ~Owned(i)}]
          /\ ImportWorks
       \/ ImportGoto(r, "failed") /\ ImportFault
    /\ ServiceIdle

SubmitImport(r) ==
    /\ ImportAt(r, "import")
    /\ \/ /\ root[RootOf[r]] = Absent
          /\ root' = AfterCreate(r)
          /\ imp' = [imp EXCEPT ![r].pc = "resolve", ![r].proven = Deferred]
          /\ UNCHANGED <<listed, late>> /\ ImportWorks
       \/ /\ root[RootOf[r]] # Absent       \* 409 or the WLError 400
          /\ imp' = [imp EXCEPT ![r].pc = IF r \in Convergent THEN "recover" ELSE "failed",
                                ![r].refused = r \in Convergent]
          /\ ServiceIdle /\ ImportWorks
       \/ /\ Unanswered(AfterCreate(r), [by |-> r, id |-> RootOf[r], create |-> TRUE])
          /\ ImportGoto(r, "recover") /\ ImportFault
       \/ /\ ImportGoto(r, "failed")
          /\ ServiceIdle /\ ImportFault

\* Mutant: the finally-clean-up forgets that convergent roots are shared.
RecoverAndClean(r) ==
    /\ ImportAt(r, "recover")
    /\ \/ RootOf[r] \in listed /\ ImportGoto(r, "evidence") /\ ImportWorks
       \/ RootOf[r] \notin listed /\ ImportGoto(r, "cleanup") /\ ImportWorks
    /\ ServiceIdle
\* resolveCollectionRootUid after a lost or refused create: only the
\* preallocated identity is looked for, never another collection of that name.
RecoverRoot(r) ==
    /\ ImportAt(r, "recover")
    /\ \/ RootOf[r] \in listed /\ ImportGoto(r, "evidence") /\ ImportWorks
       \/ /\ \/ RootOf[r] \notin listed /\ ImportWorks
             \/ ImportFault
          /\ ImportGoto(r, IF r \in Convergent THEN "failed" ELSE "cleanup")
    /\ ServiceIdle

\* assertConvergentRootReceiptEvidence, and for a tree without a receipt, after
\* an explicit refusal only, assertExportedRootOwnershipEvidence.
ConvergentEvidence(r) ==
    LET tree == root[RootOf[r]] IN
    /\ r \in Convergent
    /\ \/ tree = Revision[r] /\ ImportGoto(r, "verify")
       \/ tree \in Revisions \ {Revision[r]} /\ ImportGoto(r, "update")
       \/ tree = "Legacy" /\ imp[r].refused /\ ImportGoto(r, "update")
       \/ tree = "Legacy" /\ ~imp[r].refused /\ ImportGoto(r, "conflict")
       \/ ~Owned(RootOf[r]) /\ ImportGoto(r, "conflict")

\* assertRecoveredImportEvidence: the exported tree must be this payload.
RandomEvidence(r) ==
    /\ r \notin Convergent
    /\ IF root[RootOf[r]] = Revision[r]
       THEN imp' = [imp EXCEPT ![r].pc = "elect", ![r].proven = TRUE]
       ELSE ImportGoto(r, "conflict")

ReadEvidence(r) ==
    /\ ImportAt(r, "evidence")
    /\ \/ (ConvergentEvidence(r) \/ RandomEvidence(r)) /\ ImportWorks
       \/ ImportGoto(r, "conflict") /\ ImportFault
    /\ ServiceIdle

\* The read-back that a convergent run makes itself unless the caller defers it.
AfterUpdate(r) == IF r \in Convergent /\ ~Deferred THEN "recheck" ELSE "verify"

\* deepUpdateV2Collection: one PUT, at most five receipt reads, one resend.
DeepUpdate(r, stage, unknown) ==
    LET i == imp[r].target IN
    /\ ImportAt(r, stage)
    /\ \/ /\ root[i] # Absent
          /\ root' = AfterPut(r, i) /\ UNCHANGED <<listed, late>>
          /\ ImportGoto(r, IF stage = "update" THEN AfterUpdate(r) ELSE unknown)
          /\ ImportWorks
       \/ /\ root[i] = Absent
          /\ ImportGoto(r, "failed") /\ ServiceIdle /\ ImportWorks
       \/ /\ Unanswered(AfterPut(r, i), [by |-> r, id |-> i, create |-> FALSE])
          /\ ImportGoto(r, unknown) /\ ImportFault
       \/ ImportGoto(r, "failed") /\ ServiceIdle /\ ImportFault

\* Mutant: the receipt is awaited without a budget.
AwaitForever(r, stage, unseen) ==
    /\ ImportAt(r, stage)
    /\ root[imp[r].target] = Revision[r] /\ ImportGoto(r, AfterUpdate(r))
    /\ ServiceIdle /\ ImportWorks
AwaitReceipt(r, stage, unseen) ==
    /\ ImportAt(r, stage)
    /\ \/ root[imp[r].target] = Revision[r] /\ ImportGoto(r, AfterUpdate(r)) /\ ImportWorks
       \/ /\ \/ root[imp[r].target] # Revision[r] /\ ImportWorks
             \/ ImportFault
          /\ ImportGoto(r, unseen)
    /\ ServiceIdle

\* assertRecoveredConvergentImportReceipt
Recheck(r) ==
    /\ ImportAt(r, "recheck")
    /\ \/ root[imp[r].target] = Revision[r] /\ ImportGoto(r, "verify") /\ ImportWorks
       \/ root[imp[r].target] # Revision[r] /\ ImportGoto(r, "conflict") /\ ImportWorks
       \/ ImportGoto(r, "conflict") /\ ImportFault
    /\ ServiceIdle

\* The visibility wait of an acknowledged create.  A random run goes on to the
\* election without its own root, a convergent run fails.
ResolveRoot(r) ==
    /\ ImportAt(r, "resolve")
    /\ \/ /\ RootOf[r] \in listed /\ ImportWorks
          /\ ImportGoto(r, IF r \in Convergent THEN AfterUpdate(r) ELSE "elect")
       \/ /\ \/ RootOf[r] \notin listed /\ ImportWorks
             \/ ImportFault
          /\ ImportGoto(r, IF r \in Convergent THEN "failed" ELSE "elect")
    /\ ServiceIdle

-----------------------------------------------------------------------------
(* electImportedCollectionIdentity, for random roots *)

Lowest(S) == CHOOSE i \in S : \A j \in S : i <= j

ObserveCopies(r) ==
    /\ ImportAt(r, "elect")
    /\ imp' = [imp EXCEPT ![r].pc = "decide", ![r].seen = listed]
    /\ ServiceIdle /\ ImportWorks

\* Copies that the export proves to be this payload.
Verified(r) == {i \in imp[r].seen : root[i] = Revision[r]}
Eligible(r) ==
    {i \in imp[r].seen \ imp[r].stale :
        i \in Verified(r) \/ (i = RootOf[r] /\ imp[r].proven)}

\* Mutant: an import whose root never became visible just fails.
DecideNoCleanup(r) ==
    /\ ImportAt(r, "decide")
    /\ ImportGoto(r, IF RootOf[r] \in Eligible(r) THEN "verify" ELSE "failed")
    /\ ServiceIdle /\ ImportWorks
Decide(r) ==
    LET own == RootOf[r] IN
    /\ ImportAt(r, "decide")
    /\ \/ /\ own \in imp[r].seen /\ ~imp[r].proven /\ own \notin Verified(r)
          /\ ImportGoto(r, "conflict")
       \/ /\ own \in Eligible(r)
          /\ imp' = [imp EXCEPT ![r].target = Lowest(Eligible(r)),
                       ![r].pc = IF Lowest(Eligible(r)) = own THEN "verify" ELSE "drop"]
       \/ /\ own \notin imp[r].seen /\ Verified(r) # {}
          /\ imp' = [imp EXCEPT ![r].target = Lowest(Verified(r)), ![r].pc = "drop"]
       \/ /\ own \notin imp[r].seen /\ Verified(r) = {}
          /\ ImportGoto(r, "cleanup")
    /\ ServiceIdle /\ ImportWorks

\* deleteVerifiedRunOwnedCollections of the run's own losing root: the delete,
\* then the absence reads, and a new delete until the inventory omits the root.
DropOwn(r) ==
    /\ ImportAt(r, "drop")
    /\ \/ root' = AfterDelete(RootOf[r]) /\ ImportGoto(r, "dropped") /\ ImportWorks
       \/ UNCHANGED root /\ ImportGoto(r, "dropped") /\ ImportFault  \* a 500 passes for done
       \/ UNCHANGED root /\ ImportGoto(r, "cleanup") /\ ImportFault
    /\ UNCHANGED <<listed, late>>

\* A full uid is read at its root, a bare id only in the inventory.
AbsenceShown(r) ==
    \/ RootOf[r] \notin listed
    \/ RootOf[r] \in imp[r].seen /\ root[RootOf[r]] = Absent

DropChecked(r) ==
    /\ ImportAt(r, "dropped")
    /\ \/ AbsenceShown(r) /\ ImportGoto(r, "update")
       \/ ~AbsenceShown(r) /\ RootOf[r] \in Present /\ ImportGoto(r, "drop")
       \/ ~AbsenceShown(r) /\ ImportGoto(r, "cleanup")      \* unverifiable
    /\ ServiceIdle /\ ImportWorks

\* The best-effort deletion of the journaled root when the import fails.
\* Convergent runs have journaled nothing.
Cleanup(r) ==
    /\ ImportAt(r, "cleanup")
    /\ \/ root' = AfterDelete(RootOf[r]) /\ ImportWorks
       \/ UNCHANGED root /\ ImportFault
    /\ ImportGoto(r, "failed")
    /\ UNCHANGED <<listed, late>>

\* verifyCollectionSemanticReceipt, which the caller makes of every root it was
\* given before it publishes the id.
FinalProof(r) ==
    /\ ImportAt(r, "verify")
    /\ \/ root[imp[r].target] = Revision[r] /\ ImportGoto(r, "published") /\ ImportWorks
       \/ root[imp[r].target] # Revision[r] /\ ImportGoto(r, "failed") /\ ImportWorks
       \/ ImportGoto(r, "failed") /\ ImportFault
    /\ ServiceIdle

ImportStep(r) ==
    \/ NameSnapshot(r) \/ SubmitImport(r) \/ RecoverRoot(r) \/ ReadEvidence(r)
    \/ DeepUpdate(r, "update", "await") \/ AwaitReceipt(r, "await", "resend")
    \/ DeepUpdate(r, "resend", "await2") \/ AwaitReceipt(r, "await2", "failed")
    \/ Recheck(r) \/ ResolveRoot(r) \/ ObserveCopies(r) \/ Decide(r)
    \/ DropOwn(r) \/ DropChecked(r) \/ Cleanup(r) \/ FinalProof(r)

ImportNext ==
    \/ \E r \in Importers : ImportStep(r)
    \/ \E i \in RootIds : Relist(i)
    \/ \E w \in late : LateWrite(w)

ImportSpec == ImportInit /\ [][ImportNext]_importVars
\* Each process runs on; nothing is assumed of the inventory.
FairImportSpec ==
    /\ ImportSpec
    /\ \A r \in Importers : WF_importVars(ImportStep(r))

-----------------------------------------------------------------------------
(* Properties *)

\* "this process must never claim or delete it": a root disappears only because
\* a run deletes the random root it preallocated itself; the deterministic root
\* that other processes may hold, a peer's copy and a stranger's never do.
OnlyOwnRootDeleted ==
    \A i \in RootIds : i \in Present /\ root'[i] = Absent
        => \E r \in Importers \ Convergent : RootOf[r] = i

\* A collection that was renamed or carries a foreign marker is never written,
\* whichever refusal, recovery or late write leads to it.
ForeignUntouched ==
    \A i \in RootIds : root[i] = "Foreign" => root'[i] = "Foreign"

\* A root without a receipt is rewritten only for a run whose create the service
\* refused as a duplicate: after a lost answer it may be a tree that is still
\* being imported.
LegacyOnlyOnRefusal ==
    \A i \in RootIds : root[i] = "Legacy" /\ root'[i] # "Legacy"
        => \E r \in Convergent : RootOf[r] = i /\ imp[r].refused

\* As long as no call failed, a failed random import leaves no collection behind,
\* however late the inventory shows its root.
FailureLeavesNothing ==
    \A r \in Importers \ Convergent :
        imp[r].pc = "failed" /\ importFaults = 0 => root[RootOf[r]] = Absent

\* Every import ends, whatever its peers and the inventory do.
EveryImportEnds == \A r \in Importers : <>(imp[r].pc \in ImportEnded)

\* No step of the imports, nor a late write of the service, breaks any of it.
ImportsAreSafe ==
    [][ImportTypeOK' /\ OnlyOwnRootDeleted /\ ForeignUntouched /\ LegacyOnlyOnRefusal]_importVars
=============================================================================
