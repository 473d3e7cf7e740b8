---------------------------- MODULE LocalArtifacts ----------------------------
(***************************************************************************)
(* Writing a run's generated collections into the checkout: every role's   *)
(* tree and then the workflows file is staged in the run's temporary        *)
(* directory, moved to a sibling of its destination, and swapped with it    *)
(* through a backup.  A failure restores every destination from a snapshot, *)
(* and so does the caller when a later stage of the run fails.  A killed    *)
(* run leaves what it had renamed; the next run starts from that.           *)
(***************************************************************************)
EXTENDS Integers, Sequences, FiniteSets
CONSTANTS
    Trees,          \* 1..n: the destinations, in the order they are written
    MaxDiskFaults,  \* bound: failing file operations
    MaxDiskRuns     \* bound: runs, each after a killed or an ended one
ASSUME ArtifactAssumption == /\ Cardinality(Trees) \in Nat \ {0} /\ Trees = 1..Cardinality(Trees)
                             /\ MaxDiskFaults \in Nat /\ MaxDiskRuns \in Nat

\* What a path holds: a complete tree of run k (0: before the first run), the
\* torn rest of a copy, or nothing.
Missing == [run |-> -1, whole |-> TRUE]
TreeOf(k) == [run |-> k, whole |-> TRUE]
Torn(t) == [t EXCEPT !.whole = FALSE]
DiskContents == [run : -1..MaxDiskRuns, whole : BOOLEAN]

VARIABLES
    dest, sibling, backup,  \* the paths in the checkout
    snapshot,               \* the run's copies of the destinations
    disk                    \* the run: pc, tree under way, whether it moved the old one
artifactVars == <<dest, sibling, backup, snapshot, disk>>

DiskAt(pc) == disk.pc = pc
DiskGoes(pc) == disk' = [disk EXCEPT !.pc = pc]
DiskFault == disk.faults < MaxDiskFaults
FailsTo(pc) == DiskFault /\ disk' = [disk EXCEPT !.pc = pc, !.faults = @ + 1]
SetAt(f, v) == [f EXCEPT ![disk.at] = v]

ArtifactInit ==
    /\ dest \in [Trees -> {Missing, TreeOf(0)}]
    /\ sibling = [t \in Trees |-> Missing] /\ backup = [t \in Trees |-> Missing]
    /\ snapshot = [t \in Trees |-> Missing]
    /\ disk = [pc |-> "idle", at |-> 1, moved |-> FALSE, run |-> 0, faults |-> 0, first |-> dest]

\* Names, roles, confinement and links are checked and every destination is
\* copied aside before the first write; a failure here changes nothing.
Materialize ==
    /\ DiskAt("idle") \/ DiskAt("torn")
    /\ disk.run < MaxDiskRuns
    /\ snapshot' = dest
    /\ \/ disk' = [disk EXCEPT !.pc = "clear", !.at = 1, !.run = @ + 1, !.moved = FALSE, !.first = dest]
       \/ DiskFault /\ disk' = [disk EXCEPT !.pc = "idle", !.run = @ + 1, !.faults = @ + 1, !.first = dest]
    /\ UNCHANGED <<dest, sibling, backup>>

\* Staged; what an earlier run left beside the destination is removed.
RemoveLeftovers ==
    /\ DiskAt("clear") /\ UNCHANGED <<dest, snapshot>>
    /\ \/ sibling' = SetAt(sibling, Missing) /\ backup' = SetAt(backup, Missing) /\ DiskGoes("sibling")
       \/ /\ \/ UNCHANGED <<sibling, backup>>
             \/ sibling' = SetAt(sibling, Missing) /\ UNCHANGED backup
          /\ FailsTo("restore")

\* A rename, or the copy that replaces it across devices, which may tear.
MoveToSibling ==
    /\ DiskAt("sibling") /\ UNCHANGED <<dest, backup, snapshot>>
    /\ \/ sibling' = SetAt(sibling, TreeOf(disk.run)) /\ DiskGoes("displace")
       \/ sibling' \in {sibling, SetAt(sibling, Torn(TreeOf(disk.run)))} /\ FailsTo("restore")

\* Mutant: what is in the way is removed instead of displaced.
RemoveOld ==
    /\ DiskAt("displace") /\ UNCHANGED <<sibling, backup, snapshot>>
    /\ dest' = SetAt(dest, Missing)
    /\ disk' = [disk EXCEPT !.pc = "install", !.moved = dest[disk.at] # Missing]
DisplaceOld ==
    /\ DiskAt("displace") /\ UNCHANGED <<sibling, snapshot>>
    /\ \/ /\ dest[disk.at] = Missing /\ UNCHANGED <<dest, backup>>
          /\ disk' = [disk EXCEPT !.pc = "install", !.moved = FALSE]
       \/ /\ dest[disk.at] # Missing
          /\ backup' = SetAt(backup, dest[disk.at]) /\ dest' = SetAt(dest, Missing)
          /\ disk' = [disk EXCEPT !.pc = "install", !.moved = TRUE]
       \/ UNCHANGED <<dest, backup>> /\ FailsTo("restore")

InstallNew ==
    /\ DiskAt("install") /\ UNCHANGED snapshot
    /\ \/ /\ dest' = SetAt(dest, sibling[disk.at]) /\ sibling' = SetAt(sibling, Missing)
          /\ UNCHANGED backup /\ DiskGoes("drop")
       \* The old tree moves back before the snapshots are used; what fails of this
       \* clean-up is swallowed.
       \/ /\ \/ disk.moved /\ dest' = SetAt(dest, backup[disk.at]) /\ backup' = SetAt(backup, Missing)
             \/ UNCHANGED <<dest, backup>>
          /\ sibling' \in {sibling, SetAt(sibling, Missing)} /\ FailsTo("restore")

NextTree == IF disk.at + 1 \in Trees THEN [disk EXCEPT !.pc = "clear", !.at = @ + 1, !.moved = FALSE]
            ELSE [disk EXCEPT !.pc = "committed"]
DropBackup ==
    /\ DiskAt("drop") /\ UNCHANGED <<dest, sibling, snapshot>>
    /\ \/ backup' = SetAt(backup, Missing) /\ disk' = NextTree
       \/ UNCHANGED backup /\ disk.moved /\ FailsTo("restore")

\* The rest of the run: it succeeds, or a later stage fails and the caller
\* restores the artifacts.
RunEnds == DiskAt("committed") /\ DiskGoes("idle") /\ UNCHANGED <<dest, sibling, backup, snapshot>>
LaterStageFails == DiskAt("committed") /\ FailsTo("restore") /\ UNCHANGED <<dest, sibling, backup, snapshot>>

\* Every destination in turn is removed and copied back; a failure is swallowed
\* and ends the restore, and the run.
Restore ==
    /\ DiskAt("restore") /\ UNCHANGED <<sibling, backup, snapshot>>
    /\ \/ dest' = snapshot /\ DiskGoes("restored")
       \/ /\ \E t \in Trees : \E torn \in {dest[t], Missing, Torn(snapshot[t])} :
               dest' = [u \in Trees |-> IF u < t THEN snapshot[u]
                                        ELSE IF u = t /\ snapshot[t] # Missing THEN torn ELSE dest[u]]
          /\ FailsTo("torn")
FailedEnds == DiskAt("restored") /\ DiskGoes("idle") /\ UNCHANGED <<dest, sibling, backup, snapshot>>

\* The process is killed: its temporary directory is not looked at again.
KillWriter ==
    /\ disk.pc \notin {"idle", "restored", "torn"} /\ DiskFault
    /\ disk' = [disk EXCEPT !.pc = "idle", !.faults = @ + 1]
    /\ snapshot' = [t \in Trees |-> Missing] /\ UNCHANGED <<dest, sibling, backup>>

ArtifactNext ==
    \/ Materialize \/ RemoveLeftovers \/ MoveToSibling \/ DisplaceOld \/ InstallNew
    \/ DropBackup \/ RunEnds \/ LaterStageFails \/ Restore \/ FailedEnds \/ KillWriter
ArtifactSpec == ArtifactInit /\ [][ArtifactNext]_artifactVars

-----------------------------------------------------------------------------
ArtifactTypeOK ==
    /\ {dest, sibling, backup, snapshot} \subseteq [Trees -> DiskContents]
    /\ disk.at \in Trees /\ disk.run \in 0..MaxDiskRuns /\ disk.faults \in 0..MaxDiskFaults

\* A run that fails, in whatever file operation, gives every destination back
\* what it held before the run, unless the restore itself was interrupted
\* (materializeLocalCollectionArtifacts, its catch block and restore handle).
FailureRestores == DiskAt("restored") => dest = disk.first

\* A run that succeeds has replaced every destination, and left nothing beside it.
CommitIsWhole ==
    DiskAt("committed") =>
        \A t \in Trees : dest[t] = TreeOf(disk.run) /\ backup[t] = Missing /\ sibling[t] = Missing

\* No reader of the checkout finds a half written tree where there was none when
\* the run began: only an interrupted restore leaves one (writeTreeAtomic).
NeverTorn ==
    \A t \in Trees : disk.first[t].whole /\ dest[t].whole /\ ~dest'[t].whole => DiskAt("restore")

\* Wherever the first run fails or is killed, the checkout keeps a complete
\* tree of every destination that had one, in place, displaced or arriving,
\* unless the restore itself was interrupted.
ATreeSurvives ==
    disk.run = 1 /\ disk.pc # "torn" =>
        \A t \in Trees : disk.first[t] # Missing =>
            \E x \in {dest[t], backup[t], sibling[t]} : x # Missing /\ x.whole

\* No file operation, and no crash between two of them, breaks any of it.
InstallIsSafe ==
    [][ArtifactTypeOK' /\ FailureRestores' /\ CommitIsWhole' /\ ATreeSurvives' /\ NeverTorn]_artifactVars
=============================================================================
