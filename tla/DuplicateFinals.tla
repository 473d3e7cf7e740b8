---------------------------- MODULE DuplicateFinals ----------------------------
(***************************************************************************)
(* Collections of one final name (reconcileDuplicateFinalCollections and   *)
(* findAdoptableSameMarkerCollection of postman-gateway-assets-client.ts):  *)
(* a run either collapses those that carry its branch's marker to the       *)
(* lowest one, or adopts the only one.  The inventory lags behind, it may   *)
(* not carry the descriptions the markers are in, and the reads and deletes *)
(* of two runs interleave.                                                 *)
(***************************************************************************)
EXTENDS Integers, FiniteSets
CONSTANTS Finals,         \* ids of collections with the final's name, in their order
          Reconcilers,    \* runs
          DeleteAttempts, \* DELETE_ABSENCE_SETTLE_DELAYS_MS: deletes after the first
          MaxDupFaults    \* bound: failing calls, collections someone else deletes
ASSUME DuplicateAssumption ==
    IsFiniteSet(Finals) /\ Finals \subseteq Nat /\ DeleteAttempts \in Nat /\ MaxDupFaults \in Nat

VARIABLES
    mark,      \* does the description carry this branch's marker, or another or none
    described, \* does the inventory carry descriptions (an organisation's does not)
    alive,     \* the collections that exist
    shown,     \* those the inventory lists
    others,    \* those someone else deleted
    dup,       \* the runs
    dupFaults
dupVars == <<mark, described, alive, shown, others, dup, dupFaults>>

FreshReconciler(adopts) == [pc |-> "list", adopts |-> adopts, rows |-> {}, matches |-> {}, winner |-> 0,
                            losers |-> {}, tries |-> 0, blind |-> FALSE]
LowestOf(S) == CHOOSE i \in S : \A j \in S : i <= j
DuplicateInit ==
    /\ mark \in [Finals -> {"ours", "other"}] /\ described \in BOOLEAN
    /\ alive = Finals /\ shown \in {Finals, Finals \ {LowestOf(Finals)}}
    /\ others = {} /\ dupFaults = 0
    /\ dup \in [Reconcilers -> {FreshReconciler(adopts) : adopts \in BOOLEAN}]

DupFault == dupFaults < MaxDupFaults /\ dupFaults' = dupFaults + 1
DupAt(r, pc) == dup[r].pc = pc
DupTo(r, pc) == dup' = [dup EXCEPT ![r].pc = pc]
SameFinals == UNCHANGED <<mark, described, alive, shown, others>>
Ours == {i \in Finals : mark[i] = "ours"}

\* Mutant: the exact name is taken for ownership.
SameName(i) == i \in Finals
HasSameBranchAssetMarker(i) == mark[i] = "ours"

\* A run that does not see one of its collections is blind to it.
ListFinals(r) ==
    /\ DupAt(r, "list") /\ SameFinals
    /\ \/ /\ dup' = [dup EXCEPT ![r].pc = "read", ![r].rows = shown, ![r].blind = ~(alive \cap Ours \subseteq shown)]
          /\ UNCHANGED dupFaults
       \/ DupTo(r, "failed") /\ DupFault

\* One description after the other: of the inventory, or of the collection's
\* snapshot; one that cannot be read proves nothing.
ReadMarker(r) ==
    /\ DupAt(r, "read") /\ dup[r].rows # {} /\ SameFinals
    /\ LET i == LowestOf(dup[r].rows) IN
       \E read \in BOOLEAN :
          /\ IF described \/ i \notin alive THEN read = described /\ UNCHANGED dupFaults
             ELSE IF read THEN UNCHANGED dupFaults ELSE DupFault
          /\ dup' = [dup EXCEPT ![r].rows = @ \ {i},
                       ![r].matches = IF read /\ HasSameBranchAssetMarker(i) THEN @ \cup {i} ELSE @,
                       ![r].blind = @ \/ (~read /\ i \in alive)]
\* The lowest wins; to adopt, several are ambiguous.
Elect(r) ==
    /\ DupAt(r, "read") /\ dup[r].rows = {} /\ SameFinals /\ UNCHANGED dupFaults
    /\ LET found == dup[r].matches
           lowest == IF found = {} THEN 0 ELSE LowestOf(found) IN
       dup' = [dup EXCEPT ![r].pc = IF Cardinality(found) <= 1 THEN "done"
                                    ELSE IF dup[r].adopts THEN "failed" ELSE "delete",
                          ![r].winner = lowest, ![r].losers = found \ {lowest}]

\* deleteVerifiedRunOwnedCollections: a 404 or 500 passes for deleted, what else
\* fails ends the run.
DeleteLoser(r) ==
    /\ DupAt(r, "delete") /\ UNCHANGED <<mark, described, shown, others>>
    /\ LET i == LowestOf(dup[r].losers) IN
       \/ alive' = alive \ {i} /\ DupTo(r, "check") /\ UNCHANGED dupFaults
       \/ UNCHANGED alive /\ DupTo(r, "check") /\ DupFault
       \/ alive' \in {alive, alive \ {i}} /\ DupTo(r, "failed") /\ DupFault
\* verifyCollectionAbsentOnce: a 404 of the root, or the inventory without it.
CheckAbsent(r) ==
    /\ DupAt(r, "check") /\ SameFinals
    /\ LET i == LowestOf(dup[r].losers)
           rest == dup[r].losers \ {i} IN
       \E read \in BOOLEAN :
          /\ IF read THEN UNCHANGED dupFaults ELSE DupFault
          /\ dup' = IF read /\ (i \notin alive \/ i \notin shown)
                    THEN [dup EXCEPT ![r].losers = rest, ![r].tries = 0,
                                     ![r].pc = IF rest = {} THEN "done" ELSE "delete"]
                    ELSE IF dup[r].tries < DeleteAttempts
                    THEN [dup EXCEPT ![r].tries = @ + 1, ![r].pc = "delete"]
                    ELSE [dup EXCEPT ![r].pc = "failed"]

\* The inventory catches up with one collection; someone else deletes one.
Catchup(i) ==
    /\ (i \in alive) # (i \in shown)
    /\ shown' = IF i \in alive THEN shown \cup {i} ELSE shown \ {i}
    /\ UNCHANGED <<mark, described, alive, others, dup, dupFaults>>
SomeoneDeletes(i) ==
    /\ i \in alive /\ alive' = alive \ {i} /\ others' = others \cup {i} /\ DupFault
    /\ UNCHANGED <<mark, described, shown, dup>>

DuplicateNext ==
    \/ \E r \in Reconcilers : ListFinals(r) \/ ReadMarker(r) \/ Elect(r) \/ DeleteLoser(r) \/ CheckAbsent(r)
    \/ \E i \in Finals : Catchup(i) \/ SomeoneDeletes(i)
DuplicateSpec == DuplicateInit /\ [][DuplicateNext]_dupVars
--------------------------------------------------------------------------------
\* "Canonical and stranger collections are never touched": what is gone had this
\* branch's marker, or someone else deleted it.
StrangersUntouched == Finals \ alive \subseteq Ours \cup others
\* However the reads and deletes of the runs interleave, whatever each one cannot
\* see, together they leave the lowest of the marked collections.
OneRemains == Ours # {} => LowestOf(Ours) \in alive \cup others
\* A run that saw all of its collections names that one, and leaves no duplicate.
CollapsedToOne ==
    \A r \in Reconcilers : DupAt(r, "done") /\ ~dup[r].blind /\ others = {} =>
        /\ Ours # {} => dup[r].winner = LowestOf(Ours)
        /\ alive \cap Ours \subseteq {dup[r].winner}
DuplicatesAreSafe == StrangersUntouched /\ OneRemains /\ CollapsedToOne
================================================================================
