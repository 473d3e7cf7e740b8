--------------------------- MODULE RepositoryProofs ---------------------------
(***************************************************************************)
(* Theorems about components that MCRepository sets side by side, each for *)
(* every value of its constants.                                           *)
(***************************************************************************)
EXTENDS DuplicateFinals, SpecRelations, BreakingChanges, LocalArtifacts, DefinitionClosure,
        FiniteSetTheorems, WellFoundedInduction, TLAPS

\* A set of naturals that is not empty has a least element.
LEMMA LeastNat ==
    ASSUME NEW S \in SUBSET Nat, S # {}
    PROVE  \E x \in S : \A y \in S : x <= y
<1> DEFINE R == OpToRel(<, Nat)
<1>1. IsWellFoundedOn(R, Nat)
  BY NatLessThanWellFounded
<1>2. \A x, y \in Nat : <<y, x>> \in R <=> y < x
  BY DEF OpToRel
<1> HIDE DEF R
<1>3. PICK x \in S : \A y \in S : ~ (<<y, x>> \in R)
  BY <1>1, WFMin
<1>4. \A y \in S : ~ (y < x)
  BY <1>2, <1>3
<1>5. \A y \in S : x <= y
  BY <1>3, <1>4, SMT
<1> QED
  BY <1>5

-----------------------------------------------------------------------------
(* Collections of one final name                                           *)

ReconcilerState ==
    [pc : {"list", "read", "delete", "check", "done", "failed"}, adopts : BOOLEAN,
     rows : SUBSET Finals, matches : SUBSET Finals, winner : Nat, losers : SUBSET Finals,
     tries : Nat, blind : BOOLEAN]

\* The types, and what someone must have deleted.
DuplicateTypes ==
    /\ mark \in [Finals -> {"ours", "other"}]
    /\ alive \subseteq Finals /\ shown \subseteq Finals /\ others \subseteq Finals
    /\ dup \in [Reconcilers -> ReconcilerState]
    /\ Finals \ alive \subseteq Ours \cup others

\* The winner of a run that sees all of its collections is the lowest of all; what
\* else is alive is still to be deleted, and the inventory keeps showing it.
Sound(q, existing, listed, taken) ==
    /\ q.matches \subseteq Ours /\ q.losers \subseteq Ours
    /\ Ours # {} => LowestOf(Ours) \notin q.losers
    /\ \A i \in q.rows \cup q.matches \cup q.losers : i \in existing => i \in listed
    /\ q.blind = FALSE /\ taken = {} /\ q.pc = "read" => existing \cap Ours \subseteq q.rows \cup q.matches
    /\ q.blind = FALSE /\ taken = {} /\ q.pc \in {"delete", "check", "done"} =>
          /\ Ours # {} => q.winner = LowestOf(Ours)
          /\ existing \cap Ours \subseteq {q.winner} \cup q.losers
    /\ q.pc = "done" => q.losers = {}
    /\ q.pc \in {"delete", "check"} => q.losers # {}
ReconcilerOK(q) == Sound(q, alive, shown, others)

DuplicateInv == DuplicateTypes /\ OneRemains /\ \A r \in Reconcilers : ReconcilerOK(dup[r])

LEMMA LowestFinal ==
    ASSUME NEW S \in SUBSET Finals, S # {}
    PROVE  LowestOf(S) \in S /\ \A i \in S : LowestOf(S) <= i
BY DuplicateAssumption, LeastNat DEF LowestOf

\* The lowest of the marked collections is not above the lowest of some of them.
LEMMA LowestOurs ==
    ASSUME NEW S \in SUBSET Ours, S # {}
    PROVE  /\ Ours # {} /\ LowestOf(S) \in S
           /\ LowestOf(Ours) \notin S \ {LowestOf(S)}
           /\ LowestOf(Ours) \in S => LowestOf(S) = LowestOf(Ours)
<1>1. Ours \in SUBSET Finals /\ Ours # {}
  BY DEF Ours
<1>2. LowestOf(S) \in S /\ \A i \in S : LowestOf(S) <= i
  BY <1>1, LowestFinal
<1>3. LowestOf(Ours) \in Ours /\ \A i \in Ours : LowestOf(Ours) <= i
  BY <1>1, LowestFinal
<1>4. LowestOf(S) \in Nat /\ LowestOf(Ours) \in Nat
  BY <1>1, <1>2, <1>3, DuplicateAssumption
<1>5. LowestOf(Ours) \in S => LowestOf(S) = LowestOf(Ours)
  <2> SUFFICES ASSUME LowestOf(Ours) \in S PROVE LowestOf(S) = LowestOf(Ours)
    OBVIOUS
  <2>1. LowestOf(S) <= LowestOf(Ours) /\ LowestOf(Ours) <= LowestOf(S)
    BY <1>2, <1>3
  <2> QED
    BY <1>4, <2>1, SMT
<1> QED
  BY <1>1, <1>2, <1>5

LEMMA ReconcilerFields ==
    ASSUME NEW q \in ReconcilerState
    PROVE  /\ \A v \in {"list", "read", "delete", "check", "done", "failed"} :
                 [q EXCEPT !.pc = v] \in ReconcilerState
           /\ \A v \in SUBSET Finals : [q EXCEPT !.rows = v] \in ReconcilerState
           /\ \A v \in SUBSET Finals : [q EXCEPT !.matches = v] \in ReconcilerState
           /\ \A v \in SUBSET Finals : [q EXCEPT !.losers = v] \in ReconcilerState
           /\ \A v \in Nat : [q EXCEPT !.winner = v] \in ReconcilerState
           /\ \A v \in Nat : [q EXCEPT !.tries = v] \in ReconcilerState
           /\ \A v \in BOOLEAN : [q EXCEPT !.blind = v] \in ReconcilerState
BY SMT DEF ReconcilerState

\* The account changes under the runs: what is gone stays gone, and what is
\* alive stays listed.
AccountMoves ==
    /\ UNCHANGED mark
    /\ alive' \subseteq alive /\ others \subseteq others' /\ others' \subseteq Finals
    /\ shown' \subseteq Finals /\ alive' \cap shown \subseteq shown'
    /\ alive \ alive' \subseteq (Ours \ {LowestOf(Ours)}) \cup others'

LEMMA AccountKeeps ==
    ASSUME DuplicateInv, AccountMoves
    PROVE  /\ mark' \in [Finals -> {"ours", "other"}] /\ Ours' = Ours
           /\ alive' \subseteq Finals /\ shown' \subseteq Finals /\ others' \subseteq Finals
           /\ Finals \ alive' \subseteq Ours \cup others'
           /\ OneRemains'
           /\ \A q : ReconcilerOK(q) => Sound(q, alive', shown', others')
<1>1. Ours' = Ours
  BY DEF AccountMoves, Ours
<1>2. /\ mark' \in [Finals -> {"ours", "other"}]
      /\ alive' \subseteq Finals /\ shown' \subseteq Finals /\ others' \subseteq Finals
      /\ Finals \ alive' \subseteq Ours \cup others'
  BY DEF AccountMoves, DuplicateInv, DuplicateTypes
<1>3. OneRemains'
  BY <1>1 DEF AccountMoves, DuplicateInv, OneRemains
<1>4. ASSUME NEW q, ReconcilerOK(q) PROVE Sound(q, alive', shown', others')
  BY <1>4 DEF AccountMoves, ReconcilerOK, Sound
<1> QED
  BY <1>1, <1>2, <1>3, <1>4

\* A step of run r to the state s.
LEMMA ReconcilerKeeps ==
    ASSUME DuplicateInv, AccountMoves, NEW r \in Reconcilers, NEW s \in ReconcilerState,
           dup' = [dup EXCEPT ![r] = s], Sound(s, alive', shown', others')
    PROVE  DuplicateInv'
<1>1. /\ dup \in [Reconcilers -> ReconcilerState] /\ dup'[r] = s
      /\ \A p \in Reconcilers \ {r} : dup'[p] = dup[p]
  BY DEF DuplicateInv, DuplicateTypes
<1>2. DuplicateTypes'
  BY <1>1, AccountKeeps DEF DuplicateTypes
<1>3. ASSUME NEW p \in Reconcilers PROVE ReconcilerOK(dup[p])'
  <2>1. CASE p = r
    BY <1>1, <2>1, AccountKeeps DEF ReconcilerOK, Sound
  <2>2. CASE p # r
    <3>1. ReconcilerOK(dup[p])
      BY DEF DuplicateInv
    <3>2. Sound(dup[p], alive', shown', others')
      BY <3>1, AccountKeeps
    <3>3. dup'[p] = dup[p]
      BY <1>1, <2>2
    <3> QED
      BY <3>2, <3>3, AccountKeeps DEF ReconcilerOK, Sound
  <2> QED
    BY <2>1, <2>2
<1> QED
  BY <1>2, <1>3, AccountKeeps DEF DuplicateInv

\* Nothing but the account changes.
LEMMA AccountOnlyKeeps == ASSUME DuplicateInv, AccountMoves, UNCHANGED dup PROVE DuplicateInv'
<1>1. DuplicateTypes'
  BY AccountKeeps DEF DuplicateInv, DuplicateTypes
<1>2. ASSUME NEW p \in Reconcilers PROVE ReconcilerOK(dup[p])'
  <2>1. ReconcilerOK(dup[p])
    BY DEF DuplicateInv
  <2>2. Sound(dup[p], alive', shown', others')
    BY <2>1, AccountKeeps
  <2> QED
    BY <2>2, AccountKeeps DEF ReconcilerOK, Sound
<1> QED
  BY <1>1, <1>2, AccountKeeps DEF DuplicateInv

LEMMA SameFinalsMoves == ASSUME DuplicateInv, SameFinals PROVE AccountMoves
BY DEF SameFinals, AccountMoves, DuplicateInv, DuplicateTypes

\* A run goes to a stage that claims nothing new.
LEMMA DupToKeeps ==
    ASSUME DuplicateInv, AccountMoves, NEW r \in Reconcilers, NEW pc \in {"failed", "check"},
           DupTo(r, pc), pc = "check" => DupAt(r, "delete")
    PROVE  DuplicateInv'
<1> DEFINE s == [dup[r] EXCEPT !.pc = pc]
<1>1. dup[r] \in ReconcilerState /\ ReconcilerOK(dup[r])
  BY DEF DuplicateInv, DuplicateTypes
<1>2. s \in ReconcilerState
  BY <1>1, ReconcilerFields
<1>3. /\ s.pc = pc /\ s.rows = dup[r].rows /\ s.matches = dup[r].matches /\ s.losers = dup[r].losers
      /\ s.winner = dup[r].winner /\ s.blind = dup[r].blind
  BY <1>1, SMT DEF ReconcilerState
<1>4. dup' = [dup EXCEPT ![r] = s]
  BY DEF DupTo
<1> HIDE DEF s
<1>5. Sound(dup[r], alive', shown', others')
  BY <1>1, AccountKeeps
<1>7. Sound(s, alive', shown', others')
  BY <1>1, <1>3, <1>5 DEF ReconcilerOK, Sound, DupAt
<1> QED
  BY <1>2, <1>4, <1>7, ReconcilerKeeps

LEMMA ListFinalsKeeps ==
    ASSUME DuplicateInv, NEW r \in Reconcilers, ListFinals(r) PROVE DuplicateInv'
<1>1. /\ dup[r] \in ReconcilerState /\ ReconcilerOK(dup[r]) /\ AccountMoves /\ SameFinals
      /\ shown \in SUBSET Finals /\ dup[r].pc = "list"
  BY SameFinalsMoves DEF DuplicateInv, DuplicateTypes, ListFinals, DupAt
<1>2. CASE dup' = [dup EXCEPT ![r].pc = "read", ![r].rows = shown,
                              ![r].blind = ~(alive \cap Ours \subseteq shown)]
  <2> DEFINE b == ~(alive \cap Ours \subseteq shown)
             s1 == [dup[r] EXCEPT !.pc = "read"]
             s2 == [s1 EXCEPT !.rows = shown]
             s == [s2 EXCEPT !.blind = b]
  <2>1. s1 \in ReconcilerState /\ s2 \in ReconcilerState /\ s \in ReconcilerState
    BY <1>1, ReconcilerFields
  <2>2. dup' = [dup EXCEPT ![r] = s]
    BY <1>2
  <2> HIDE DEF b
  <2>3. /\ s.pc = "read" /\ s.rows = shown /\ s.matches = dup[r].matches
        /\ s.losers = dup[r].losers /\ s.blind = b
    BY <1>1, SMT DEF ReconcilerState
  <2> HIDE DEF s, s1, s2
  <2>4. s.blind = FALSE => alive \cap Ours \subseteq shown
    BY <2>3 DEF b
  <2>5. Sound(s, alive', shown', others')
    BY <1>1, <2>3, <2>4, AccountKeeps DEF ReconcilerOK, Sound, SameFinals
  <2> QED
    BY <1>1, <2>1, <2>2, <2>5, ReconcilerKeeps
<1>3. CASE DupTo(r, "failed")
  BY <1>1, <1>3, DupToKeeps
<1> QED
  BY <1>2, <1>3 DEF ListFinals

LEMMA ReadMarkerKeeps ==
    ASSUME DuplicateInv, NEW r \in Reconcilers, ReadMarker(r) PROVE DuplicateInv'
<1> DEFINE i == LowestOf(dup[r].rows)
<1>1. /\ dup[r] \in ReconcilerState /\ ReconcilerOK(dup[r]) /\ AccountMoves /\ SameFinals
      /\ dup[r].pc = "read" /\ dup[r].rows # {}
  BY SameFinalsMoves DEF DuplicateInv, DuplicateTypes, ReadMarker, DupAt
<1>2. dup[r].rows \in SUBSET Finals /\ dup[r].matches \in SUBSET Finals
  BY <1>1, SMT DEF ReconcilerState
<1>3. i \in dup[r].rows /\ i \in Finals
  BY <1>1, <1>2, LowestFinal
<1> HIDE DEF i
<1>4. PICK read \in BOOLEAN :
          dup' = [dup EXCEPT ![r].rows = @ \ {i},
                       ![r].matches = IF read /\ HasSameBranchAssetMarker(i) THEN @ \cup {i} ELSE @,
                       ![r].blind = @ \/ (~read /\ i \in alive)]
  BY DEF ReadMarker, i
<1> DEFINE m == IF read /\ HasSameBranchAssetMarker(i) THEN dup[r].matches \cup {i} ELSE dup[r].matches
           b == dup[r].blind \/ (~read /\ i \in alive)
           s1 == [dup[r] EXCEPT !.rows = dup[r].rows \ {i}]
           s2 == [s1 EXCEPT !.matches = m]
           s == [s2 EXCEPT !.blind = b]
<1>5. m \in SUBSET Finals /\ b \in BOOLEAN
  BY <1>1, <1>2, <1>3 DEF ReconcilerState
<1>6. s1.matches = dup[r].matches /\ s2.blind = dup[r].blind
  <2> HIDE DEF m
  <2> QED
    BY <1>1, SMT DEF ReconcilerState
<1>7. dup' = [dup EXCEPT ![r] = s]
  BY <1>4, <1>6
<1> HIDE DEF b, m
<1>8. s1 \in ReconcilerState /\ s2 \in ReconcilerState /\ s \in ReconcilerState
  BY <1>1, <1>2, <1>5, ReconcilerFields
<1>9. /\ s.pc = "read" /\ s.rows = dup[r].rows \ {i} /\ s.matches = m
      /\ s.losers = dup[r].losers /\ s.blind = b
  BY <1>1, SMT DEF ReconcilerState
<1> HIDE DEF s, s1, s2
<1>10. m \subseteq Ours /\ m \subseteq dup[r].matches \cup {i} /\ dup[r].matches \subseteq m
  BY <1>1, <1>3 DEF m, ReconcilerOK, Sound, HasSameBranchAssetMarker, Ours
<1>11. b = FALSE => /\ dup[r].blind = FALSE
                    /\ i \in alive /\ i \in Ours => i \in m
  BY <1>1 DEF b, m, HasSameBranchAssetMarker, Ours, ReconcilerState
<1>12. Sound(s, alive', shown', others')
  BY <1>1, <1>3, <1>9, <1>10, <1>11, AccountKeeps DEF ReconcilerOK, Sound, SameFinals
<1> QED
  BY <1>1, <1>7, <1>8, <1>12, ReconcilerKeeps

LEMMA ElectKeeps ==
    ASSUME DuplicateInv, NEW r \in Reconcilers, Elect(r) PROVE DuplicateInv'
<1> DEFINE found == dup[r].matches
           lowest == IF found = {} THEN 0 ELSE LowestOf(found)
           pc == IF Cardinality(found) <= 1 THEN "done" ELSE IF dup[r].adopts THEN "failed" ELSE "delete"
<1>1. /\ dup[r] \in ReconcilerState /\ ReconcilerOK(dup[r]) /\ AccountMoves /\ SameFinals
      /\ dup[r].pc = "read" /\ dup[r].rows = {}
      /\ dup' = [dup EXCEPT ![r].pc = pc, ![r].winner = lowest, ![r].losers = found \ {lowest}]
  BY SameFinalsMoves DEF DuplicateInv, DuplicateTypes, Elect, DupAt
<1>2. found \in SUBSET Finals /\ found \subseteq Ours /\ IsFiniteSet(found) /\ Cardinality(found) \in Nat
  <2>1. found \in SUBSET Finals
    <3>1. dup[r] \in ReconcilerState
      BY <1>1
    <3> QED
      BY <3>1, SMT DEF ReconcilerState
  <2> QED
    BY <1>1, <2>1, DuplicateAssumption, FS_Subset, FS_CardinalityType DEF ReconcilerOK, Sound
<1>3. /\ found # {} => lowest \in found /\ Ours # {}
      /\ Ours # {} => LowestOf(Ours) \notin found \ {lowest}
      /\ Ours # {} /\ LowestOf(Ours) \in found => lowest = LowestOf(Ours)
  <2>1. CASE found = {}
    BY <2>1
  <2>2. CASE found # {}
    BY <1>2, <2>2, LowestOurs
  <2> QED
    BY <2>1, <2>2
<1>4. lowest \in Nat
  BY <1>2, <1>3, DuplicateAssumption
<1>5. (found \ {lowest} = {}) <=> Cardinality(found) <= 1
  <2>1. CASE found = {}
    BY <2>1, FS_EmptySet, SMT
  <2>2. CASE found # {}
    <3>1. lowest \in found
      BY <1>3, <2>2
    <3>2. Cardinality(found \ {lowest}) = Cardinality(found) - 1 /\ IsFiniteSet(found \ {lowest})
      <4> HIDE DEF lowest
      <4>1. \A S, x : IsFiniteSet(S) /\ x \in S =>
                Cardinality(S \ {x}) = Cardinality(S) - 1 /\ IsFiniteSet(S \ {x})
        BY FS_RemoveElement
      <4> QED
        BY <1>2, <3>1, <4>1
    <3>3. (found \ {lowest} = {}) <=> Cardinality(found \ {lowest}) = 0
      BY <3>2, FS_EmptySet
    <3>4. Cardinality(found \ {lowest}) \in Nat
      BY <3>2, FS_CardinalityType
    <3> QED
      BY <1>2, <3>2, <3>3, <3>4, SMT
  <2> QED
    BY <2>1, <2>2
<1> DEFINE s1 == [dup[r] EXCEPT !.pc = pc]
           s2 == [s1 EXCEPT !.winner = lowest]
           s == [s2 EXCEPT !.losers = found \ {lowest}]
<1>6. dup' = [dup EXCEPT ![r] = s]
  BY <1>1
<1>7. pc \in {"done", "failed", "delete"} /\ found \ {lowest} \in SUBSET Finals
  BY <1>2
<1>8. /\ pc = "done" => found \ {lowest} = {}
      /\ pc = "delete" => found \ {lowest} # {}
  BY <1>5
<1> HIDE DEF pc, lowest
<1>9. s1 \in ReconcilerState /\ s2 \in ReconcilerState /\ s \in ReconcilerState
  BY <1>1, <1>4, <1>7, ReconcilerFields
<1>10. /\ s.pc = pc /\ s.rows = dup[r].rows /\ s.matches = found /\ s.losers = found \ {lowest}
       /\ s.winner = lowest /\ s.blind = dup[r].blind
  BY <1>1, SMT DEF ReconcilerState
<1> HIDE DEF s, s1, s2
<1>11. ASSUME s.blind = FALSE, others = {}
       PROVE  /\ Ours # {} => lowest = LowestOf(Ours)
              /\ alive \cap Ours \subseteq {lowest} \cup (found \ {lowest})
  <2>1. alive \cap Ours \subseteq found
    BY <1>1, <1>10, <1>11 DEF ReconcilerOK, Sound
  <2>2. Ours # {} => LowestOf(Ours) \in alive \cap Ours
    <3>1. Ours \in SUBSET Finals
      BY DEF Ours
    <3> QED
      BY <1>11, <3>1, LowestFinal DEF DuplicateInv, OneRemains
  <2> QED
    BY <1>3, <2>1, <2>2
<1>12. Sound(s, alive', shown', others')
  BY <1>1, <1>2, <1>3, <1>7, <1>8, <1>10, <1>11, AccountKeeps DEF ReconcilerOK, Sound, SameFinals
<1> QED
  BY <1>1, <1>6, <1>9, <1>12, ReconcilerKeeps

LEMMA DeleteLoserKeeps ==
    ASSUME DuplicateInv, NEW r \in Reconcilers, DeleteLoser(r) PROVE DuplicateInv'
<1> DEFINE i == LowestOf(dup[r].losers)
<1>1. /\ dup[r] \in ReconcilerState /\ ReconcilerOK(dup[r]) /\ DupAt(r, "delete")
      /\ UNCHANGED <<mark, described, shown, others>>
      /\ dup[r].losers \in SUBSET Finals /\ dup[r].losers # {}
  <2>1. dup[r] \in ReconcilerState /\ ReconcilerOK(dup[r]) /\ dup[r].pc = "delete"
    BY DEF DuplicateInv, DuplicateTypes, DeleteLoser, DupAt
  <2>2. dup[r].losers \in SUBSET Finals
    BY <2>1, SMT DEF ReconcilerState
  <2> QED
    BY <2>1, <2>2 DEF DeleteLoser, ReconcilerOK, Sound
<1>2. i \in dup[r].losers
  BY <1>1, LowestFinal
<1>3. i \in Ours \ {LowestOf(Ours)}
  BY <1>1, <1>2 DEF ReconcilerOK, Sound
<1>4. alive' \in {alive, alive \ {i}} /\ (DupTo(r, "check") \/ DupTo(r, "failed"))
  BY DEF DeleteLoser
<1>5. AccountMoves
  BY <1>1, <1>3, <1>4 DEF AccountMoves, DuplicateInv, DuplicateTypes
<1> QED
  BY <1>1, <1>4, <1>5, DupToKeeps

LEMMA CheckAbsentKeeps ==
    ASSUME DuplicateInv, NEW r \in Reconcilers, CheckAbsent(r) PROVE DuplicateInv'
<1> DEFINE i == LowestOf(dup[r].losers)
           rest == dup[r].losers \ {i}
<1>1. /\ dup[r] \in ReconcilerState /\ ReconcilerOK(dup[r]) /\ SameFinals /\ AccountMoves
      /\ dup[r].pc = "check"
  BY SameFinalsMoves DEF DuplicateInv, DuplicateTypes, CheckAbsent, DupAt
<1>2. dup[r].losers \in SUBSET Finals /\ dup[r].tries \in Nat
  BY <1>1, SMT DEF ReconcilerState
<1>3. i \in dup[r].losers
  BY <1>1, <1>2, LowestFinal DEF ReconcilerOK, Sound
<1>4. CASE /\ i \notin alive \/ i \notin shown
           /\ dup' = [dup EXCEPT ![r].losers = rest, ![r].tries = 0,
                                 ![r].pc = IF rest = {} THEN "done" ELSE "delete"]
  <2> DEFINE pc == IF rest = {} THEN "done" ELSE "delete"
             s1 == [dup[r] EXCEPT !.losers = rest]
             s2 == [s1 EXCEPT !.tries = 0]
             s == [s2 EXCEPT !.pc = pc]
  <2>1. i \notin alive
    BY <1>1, <1>3, <1>4 DEF ReconcilerOK, Sound
  <2>2. rest \in SUBSET Finals /\ rest \subseteq dup[r].losers /\ dup[r].losers \subseteq rest \cup {i}
    BY <1>2
  <2>3. dup' = [dup EXCEPT ![r] = s]
    BY <1>4
  <2>4. pc \in {"done", "delete"} /\ (pc = "done" <=> rest = {})
    OBVIOUS
  <2> HIDE DEF rest, pc
  <2>5. s1 \in ReconcilerState /\ s2 \in ReconcilerState /\ s \in ReconcilerState
    BY <1>1, <2>2, <2>4, ReconcilerFields
  <2>6. /\ s.pc = pc /\ s.rows = dup[r].rows /\ s.matches = dup[r].matches /\ s.losers = rest
        /\ s.winner = dup[r].winner /\ s.blind = dup[r].blind
    BY <1>1, SMT DEF ReconcilerState
  <2> HIDE DEF s, s1, s2
  <2>7. Sound(s, alive', shown', others')
    BY <1>1, <2>1, <2>2, <2>4, <2>6, AccountKeeps DEF ReconcilerOK, Sound, SameFinals
  <2> QED
    BY <1>1, <2>3, <2>5, <2>7, ReconcilerKeeps
<1>5. CASE dup' = [dup EXCEPT ![r].tries = @ + 1, ![r].pc = "delete"]
  <2> DEFINE s1 == [dup[r] EXCEPT !.tries = dup[r].tries + 1]
             s == [s1 EXCEPT !.pc = "delete"]
  <2>1. s1 \in ReconcilerState /\ s \in ReconcilerState
    <3>1. dup[r].tries + 1 \in Nat
      BY <1>2, SMT
    <3> QED
      BY <1>1, <3>1, ReconcilerFields
  <2>2. dup' = [dup EXCEPT ![r] = s]
    BY <1>5
  <2>3. /\ s.pc = "delete" /\ s.rows = dup[r].rows /\ s.matches = dup[r].matches
        /\ s.losers = dup[r].losers /\ s.winner = dup[r].winner /\ s.blind = dup[r].blind
    BY <1>1, SMT DEF ReconcilerState
  <2> HIDE DEF s, s1
  <2>4. Sound(s, alive', shown', others')
    BY <1>1, <2>3, AccountKeeps DEF ReconcilerOK, Sound, SameFinals
  <2> QED
    BY <1>1, <2>1, <2>2, <2>4, ReconcilerKeeps
<1>6. CASE dup' = [dup EXCEPT ![r].pc = "failed"]
  BY <1>1, <1>6, DupToKeeps DEF DupTo
<1> QED
  BY <1>4, <1>5, <1>6 DEF CheckAbsent

LEMMA AccountStepKeeps ==
    ASSUME DuplicateInv, NEW i \in Finals, Catchup(i) \/ SomeoneDeletes(i) PROVE DuplicateInv'
<1>1. AccountMoves /\ UNCHANGED dup
  BY DEF Catchup, SomeoneDeletes, AccountMoves, DuplicateInv, DuplicateTypes
<1> QED
  BY <1>1, AccountOnlyKeeps

LEMMA DuplicateInitOK == DuplicateInit => DuplicateInv
<1> SUFFICES ASSUME DuplicateInit PROVE DuplicateInv
  OBVIOUS
<1>1. \A adopts \in BOOLEAN : FreshReconciler(adopts) \in ReconcilerState
  BY SMT DEF FreshReconciler, ReconcilerState
<1>2. DuplicateTypes
  BY <1>1 DEF DuplicateInit, DuplicateTypes
<1>3. OneRemains
  <2>1. Ours \in SUBSET Finals
    BY DEF Ours
  <2> QED
    BY <2>1, LowestFinal DEF DuplicateInit, OneRemains
<1>4. ASSUME NEW r \in Reconcilers PROVE ReconcilerOK(dup[r])
  <2>1. PICK adopts \in BOOLEAN : dup[r] = FreshReconciler(adopts)
    BY DEF DuplicateInit
  <2>2. /\ dup[r].pc = "list" /\ dup[r].rows = {} /\ dup[r].matches = {} /\ dup[r].losers = {}
    BY <2>1 DEF FreshReconciler
  <2> QED
    BY <2>2 DEF ReconcilerOK, Sound
<1> QED
  BY <1>2, <1>3, <1>4 DEF DuplicateInv

\* reconcileDuplicateFinalCollections and findAdoptableSameMarkerCollection:
\* whatever the inventory hides from the runs and however their reads and deletes
\* interleave, no stranger's collection goes, the lowest of this branch's stays,
\* and a run that saw them all names that one and leaves no other.
THEOREM DuplicatesSafe == DuplicateSpec => []DuplicatesAreSafe
<1>1. DuplicateInv /\ [DuplicateNext]_dupVars => DuplicateInv'
  <2>1. ASSUME DuplicateInv, UNCHANGED dupVars PROVE DuplicateInv'
    <3>1. SameFinals /\ UNCHANGED dup
      BY <2>1 DEF dupVars, SameFinals
    <3> QED
      BY <2>1, <3>1, SameFinalsMoves, AccountOnlyKeeps
  <2> QED
    BY <2>1, ListFinalsKeeps, ReadMarkerKeeps, ElectKeeps, DeleteLoserKeeps, CheckAbsentKeeps,
       AccountStepKeeps DEF DuplicateNext
<1>2. DuplicateInv => DuplicatesAreSafe
  <2> SUFFICES ASSUME DuplicateInv PROVE DuplicatesAreSafe
    OBVIOUS
  <2>1. StrangersUntouched /\ OneRemains
    BY DEF DuplicateInv, DuplicateTypes, StrangersUntouched
  <2>2. CollapsedToOne
    <3> SUFFICES ASSUME NEW r \in Reconcilers, dup[r].pc = "done", ~dup[r].blind, others = {}
                 PROVE  /\ Ours # {} => dup[r].winner = LowestOf(Ours)
                        /\ alive \cap Ours \subseteq {dup[r].winner}
      BY DEF CollapsedToOne, DupAt
    <3>1. dup[r].blind = FALSE
      BY SMT DEF DuplicateInv, DuplicateTypes, ReconcilerState
    <3>2. ReconcilerOK(dup[r])
      BY DEF DuplicateInv
    <3> QED
      BY <3>1, <3>2 DEF ReconcilerOK, Sound
  <2> QED
    BY <2>1, <2>2 DEF DuplicatesAreSafe
<1> QED
  BY <1>1, <1>2, DuplicateInitOK, PTL DEF DuplicateSpec

-----------------------------------------------------------------------------
(* Linking the collections to the specification                            *)

LinkerState ==
    [pc : {"put", "list", "judge", "tag", "saved", "failed"}, attempt : Nat, page : Linked,
     found : SUBSET Findings, raced : BOOLEAN]

\* What a run of state l has read and the list shows still has been noted: the pages
\* before the one it reads next, or all of them when it judges and after.
Noted(r, l, listed) ==
    l.raced = FALSE =>
        /\ l.pc = "list" => \A c \in Linked : c < l.page => Finding(r, listed[c]) \subseteq l.found
        /\ l.pc \in {"judge", "tag"} => \A c \in Linked : Finding(r, listed[c]) \subseteq l.found
FoundNothing(l) == (l.pc = "tag" => l.found = {}) /\ (l.pc \notin {"list"} => l.page = 1)
LinkerOK(r) ==
    linker[r] \in LinkerState /\ Noted(r, linker[r], relation) /\ FoundNothing(linker[r])

RelationInv ==
    /\ relation \in [Linked -> Rows] /\ queued \subseteq Linked \X Linkers
    /\ broken \in 0..MaxLinkFaults
    /\ linker = [r \in Linkers |-> linker[r]] /\ \A r \in Linkers : LinkerOK(r)

\* Only a step of r itself, or a link that appears, changes what holds of r.
LEMMA OthersLink ==
    ASSUME RelationInv, NEW r \in Linkers, NEW l, Go(r, l), UNCHANGED relation,
           queued' \subseteq Linked \X Linkers, broken' \in 0..MaxLinkFaults,
           l \in LinkerState, Noted(r, l, relation), FoundNothing(l)
    PROVE  RelationInv'
<1> DEFINE ended == [l EXCEPT !.attempt = 0, !.page = 1, !.found = {}, !.raced = FALSE]
           next == IF l.pc \in {"saved", "failed"} THEN ended ELSE l
<1>1. linker' = [linker EXCEPT ![r] = next]
  BY DEF Go
<1>2. ended \in LinkerState /\ (l.pc \in {"saved", "failed"} => ended.pc = l.pc /\ ended.page = 1)
  BY LinkedAssumption DEF LinkerState
<1>3. next \in LinkerState /\ Noted(r, next, relation) /\ FoundNothing(next)
  <2> HIDE DEF ended
  <2> QED
    BY <1>2 DEF Noted, FoundNothing
<1> HIDE DEF next
<1>4. linker'[r] = next /\ \A q \in Linkers \ {r} : linker'[q] = linker[q]
  BY <1>1 DEF RelationInv
<1>5. linker' = [q \in Linkers |-> linker'[q]]
  BY <1>1 DEF RelationInv
<1>6. \A q \in Linkers : LinkerOK(q)'
  BY <1>3, <1>4 DEF RelationInv, LinkerOK
<1> QED
  BY <1>5, <1>6 DEF RelationInv

LEMMA PutKeeps == ASSUME RelationInv, NEW r \in Linkers, PutLinks(r) PROVE RelationInv'
<1> DEFINE l == linker[r]
<1>1. l \in LinkerState /\ FoundNothing(l) /\ l.pc = "put"
  BY DEF RelationInv, LinkerOK, PutLinks
<1>2. UNCHANGED relation /\ queued' \subseteq Linked \X Linkers /\ broken' \in 0..MaxLinkFaults
  BY LinkedAssumption DEF PutLinks, Break, RelationInv
<1>3. ASSUME NEW s \in LinkerState, s.pc \in {"put", "list", "failed"}, s.page = 1, Go(r, s)
      PROVE  RelationInv'
  <2>1. Noted(r, s, relation) /\ FoundNothing(s)
    BY <1>3, LinkedAssumption, SMT DEF Noted, FoundNothing
  <2> QED
    BY <1>2, <1>3, <2>1, OthersLink
<1> DEFINE a == [l EXCEPT !.pc = "list", !.attempt = 1]
           b == [l EXCEPT !.attempt = @ + 1]
           c == [l EXCEPT !.pc = "failed"]
<1>4. Go(r, a) \/ Go(r, b) \/ Go(r, c)
  BY DEF PutLinks
<1>5. a \in LinkerState /\ a.pc = "list" /\ a.page = 1
  BY <1>1 DEF LinkerState, FoundNothing
<1>6. b \in LinkerState /\ b.pc = "put" /\ b.page = 1
  BY <1>1 DEF LinkerState, FoundNothing
<1>7. c \in LinkerState /\ c.pc = "failed" /\ c.page = 1
  BY <1>1 DEF LinkerState, FoundNothing
<1> HIDE DEF a, b, c
<1> QED
  BY <1>3, <1>4, <1>5, <1>6, <1>7

LEMMA FailingLink ==
    ASSUME RelationInv, NEW r \in Linkers, Go(r, [linker[r] EXCEPT !.pc = "failed"]),
           UNCHANGED <<relation, queued>>, UNCHANGED broken \/ Break,
           linker[r].pc = "list" => linker[r].page \in Linked
    PROVE  RelationInv'
<1> DEFINE l == [linker[r] EXCEPT !.pc = "failed"]
           e == [l EXCEPT !.attempt = 0, !.page = 1, !.found = {}, !.raced = FALSE]
<1>1. linker[r] \in LinkerState
  BY DEF RelationInv, LinkerOK
<1>2. e \in LinkerState /\ e.pc = "failed" /\ e.page = 1
  BY <1>1, LinkedAssumption DEF LinkerState
<1>3. Go(r, e)
  <2>1. l.pc = "failed"
    BY <1>1 DEF LinkerState
  <2>2. linker' = [linker EXCEPT ![r] = e]
    BY <2>1 DEF Go
  <2>3. [e EXCEPT !.attempt = 0, !.page = 1, !.found = {}, !.raced = FALSE] = e
    BY <1>1 DEF LinkerState
  <2> HIDE DEF e
  <2> QED
    BY <1>2, <2>2, <2>3 DEF Go
<1>4. broken' \in 0..MaxLinkFaults
  BY LinkedAssumption DEF Break, RelationInv
<1>5. Noted(r, e, relation) /\ FoundNothing(e)
  <2> HIDE DEF e
  <2> QED
    BY <1>2 DEF Noted, FoundNothing
<1> HIDE DEF e
<1> QED
  BY <1>2, <1>3, <1>4, <1>5, OthersLink DEF RelationInv

LEMMA ReadKeeps == ASSUME RelationInv, NEW r \in Linkers, ReadPage(r) PROVE RelationInv'
<1> DEFINE l == linker[r]
           found == l.found \cup Finding(r, relation[l.page])
<1>1. l \in LinkerState /\ FoundNothing(l) /\ Noted(r, l, relation) /\ l.pc = "list"
  BY DEF RelationInv, LinkerOK, ReadPage
<1>2. found \in SUBSET Findings
  BY <1>1 DEF LinkerState, Finding, Findings
<1>3. UNCHANGED <<relation, queued>>
  BY DEF ReadPage
<1>4. l.page \in Nat /\ Linked \subseteq Nat /\ \A c \in Linked : c < l.page + 1 <=> (c < l.page \/ c = l.page)
  <2>1. l.page \in Nat /\ Linked \subseteq Nat
    BY <1>1, LinkedAssumption DEF LinkerState
  <2>2. \A c, p \in Nat : c < p + 1 <=> (c < p \/ c = p)
    OBVIOUS
  <2> HIDE DEF l
  <2>3. \A c \in Linked : c \in Nat
    BY <2>1
  <2> QED
    BY <2>1, <2>2, <2>3, Zenon
<1>5. l.raced = FALSE => \A c \in Linked : c < l.page + 1 => Finding(r, relation[c]) \subseteq found
  BY <1>1, <1>4 DEF Noted
<1>6. CASE l.page + 1 \in Linked /\ UNCHANGED broken /\ Go(r, [l EXCEPT !.page = @ + 1, !.found = found])
  <2> DEFINE s == [l EXCEPT !.page = @ + 1, !.found = found]
  <2> HIDE DEF found
  <2>1. s \in LinkerState /\ s.pc = "list" /\ s.page = l.page + 1 /\ s.found = found /\ s.raced = l.raced
    BY <1>1, <1>2, <1>6 DEF LinkerState
  <2>2. Noted(r, s, relation) /\ FoundNothing(s)
    <3> HIDE DEF s
    <3> QED
      BY <1>5, <2>1 DEF Noted, FoundNothing
  <2> HIDE DEF s
  <2> QED
    BY <1>3, <1>6, <2>1, <2>2, OthersLink DEF RelationInv, s
<1>7. CASE /\ l.page + 1 \notin Linked /\ UNCHANGED broken
           /\ Go(r, [l EXCEPT !.page = 1, !.found = found, !.pc = "judge"])
  <2> DEFINE s == [l EXCEPT !.page = 1, !.found = found, !.pc = "judge"]
  <2>0. \A c \in Linked : c < l.page + 1
    <3>1. ASSUME NEW c \in Linked, ~ (c < l.page + 1) PROVE FALSE
      <4>1. c \in Nat /\ l.page + 1 \in 1..c
        BY <1>4, <3>1, SMT
      <4> QED
        BY <1>7, <4>1, <3>1, LinkedAssumption
    <3> QED
      BY <3>1
  <2> HIDE DEF found
  <2>1. s \in LinkerState /\ s.pc = "judge" /\ s.page = 1 /\ s.found = found /\ s.raced = l.raced
    BY <1>1, <1>2, LinkedAssumption DEF LinkerState
  <2>2. Noted(r, s, relation) /\ FoundNothing(s)
    <3> HIDE DEF s
    <3> QED
      BY <1>5, <2>0, <2>1 DEF Noted, FoundNothing
  <2> HIDE DEF s
  <2> QED
    BY <1>3, <1>7, <2>1, <2>2, OthersLink DEF RelationInv, s
<1>8. CASE Break /\ Go(r, [l EXCEPT !.pc = "failed"])
  BY <1>1, <1>3, <1>8, FailingLink DEF LinkerState
<1> QED
  BY <1>6, <1>7, <1>8 DEF ReadPage

LEMMA JudgeKeeps == ASSUME RelationInv, NEW r \in Linkers, Judge(r) PROVE RelationInv'
<1> DEFINE l == linker[r]
           tag == [l EXCEPT !.pc = "tag", !.found = {}]
           again == [l EXCEPT !.pc = "list", !.attempt = @ + 1, !.found = {}, !.raced = FALSE]
<1>1. l \in LinkerState /\ FoundNothing(l) /\ Noted(r, l, relation) /\ l.pc = "judge"
  BY DEF RelationInv, LinkerOK, Judge
<1>2. UNCHANGED <<relation, queued, broken>>
  BY DEF Judge
<1>3. l.page = 1 /\ \A c \in Linked : ~ (c < 1)
  <2>1. \A c \in Linked : c \in Nat /\ c # 0
    BY LinkedAssumption
  <2> QED
    BY <1>1, <2>1, SMT DEF FoundNothing
<1>4. CASE l.found = {} /\ Go(r, tag)
  <2>1. tag \in LinkerState /\ tag.pc = "tag" /\ tag.page = 1 /\ tag.found = {} /\ tag.raced = l.raced
    BY <1>1, <1>3 DEF LinkerState
  <2>2. Noted(r, tag, relation) /\ FoundNothing(tag)
    <3> HIDE DEF tag
    <3> QED
      BY <1>1, <1>4, <2>1 DEF Noted, FoundNothing
  <2> HIDE DEF tag
  <2> QED
    BY <1>2, <1>4, <2>1, <2>2, OthersLink DEF RelationInv
<1>5. CASE Go(r, again)
  <2>0. l.attempt + 1 \in Nat /\ {} \in SUBSET Findings /\ l.page = 1
    BY <1>1, <1>3 DEF LinkerState
  <2>1. again \in LinkerState /\ again.pc = "list" /\ again.page = 1
    BY <1>1, <2>0 DEF LinkerState
  <2>2. Noted(r, again, relation) /\ FoundNothing(again)
    <3> HIDE DEF again
    <3> QED
      BY <1>3, <2>1 DEF Noted, FoundNothing
  <2> HIDE DEF again
  <2> QED
    BY <1>2, <1>5, <2>1, <2>2, OthersLink DEF RelationInv
<1>6. CASE Go(r, [l EXCEPT !.pc = "failed"])
  BY <1>1, <1>2, <1>6, FailingLink
<1>7. CASE l.found # {} /\ Go(r, [l EXCEPT !.pc = "failed", !.found = {}])
  <2> DEFINE s == [l EXCEPT !.pc = "failed", !.found = {}]
  <2>1. s \in LinkerState /\ s.pc = "failed" /\ s.page = 1
    BY <1>1, <1>3 DEF LinkerState
  <2>2. Noted(r, s, relation) /\ FoundNothing(s)
    <3> HIDE DEF s
    <3> QED
      BY <2>1 DEF Noted, FoundNothing
  <2> HIDE DEF s
  <2> QED
    BY <1>2, <1>7, <2>1, <2>2, OthersLink DEF RelationInv, s
<1> QED
  BY <1>4, <1>5, <1>6, <1>7 DEF Judge

LEMMA SaveKeeps == ASSUME RelationInv, NEW r \in Linkers, TagAndSave(r) PROVE RelationInv'
<1> DEFINE l == linker[r]
           s == [l EXCEPT !.pc = "saved"]
<1>1. l \in LinkerState /\ FoundNothing(l) /\ l.pc = "tag" /\ UNCHANGED <<relation, queued>>
  BY DEF RelationInv, LinkerOK, TagAndSave
<1>2. CASE UNCHANGED broken /\ Go(r, s)
  <2>1. s \in LinkerState /\ s.pc = "saved" /\ s.page = 1
    BY <1>1 DEF LinkerState, FoundNothing
  <2>2. Noted(r, s, relation) /\ FoundNothing(s)
    <3> HIDE DEF s
    <3> QED
      BY <2>1 DEF Noted, FoundNothing
  <2> HIDE DEF s
  <2> QED
    BY <1>1, <1>2, <2>1, <2>2, OthersLink DEF RelationInv
<1> QED
  BY <1>1, <1>2, FailingLink DEF TagAndSave

\* A link that appears while a run is reading is noted as such, and a run that has
\* not begun to read has noted nothing that could have changed.
LEMMA AppearsKeeps == ASSUME RelationInv, LinkAppears PROVE RelationInv'
<1>1. PICK q \in queued :
        /\ queued' = queued \ {q}
        /\ \/ /\ \E s \in Recognized :
                    relation' = [relation EXCEPT ![q[1]] = [options |-> Asked[q[2]], state |-> s]]
              /\ UNCHANGED broken
           \/ /\ Break
              /\ \E row \in {[options |-> Asked[q[2]], state |-> "error"],
                             [options |-> "incomplete", state |-> "synced"]} :
                    relation' = [relation EXCEPT ![q[1]] = row]
  BY DEF LinkAppears
<1>2. q[2] \in Linkers /\ Asked[q[2]] \in Options
  BY DEF RelationInv, Options
<1>3. relation' \in [Linked -> Rows]
  <2>1. \A s \in Recognized : [options |-> Asked[q[2]], state |-> s] \in Rows
    BY <1>2 DEF Rows
  <2>2. \A row \in {[options |-> Asked[q[2]], state |-> "error"],
                    [options |-> "incomplete", state |-> "synced"]} : row \in Rows
    BY <1>2 DEF Rows, Recognized
  <2>3. \E row \in Rows : relation' = [relation EXCEPT ![q[1]] = row]
    BY <1>1, <2>1, <2>2
  <2> QED
    BY <2>3 DEF RelationInv
<1>4. broken' \in 0..MaxLinkFaults
  BY <1>1, LinkedAssumption DEF Break, RelationInv
<1>5. linker' = [r \in Linkers |->
             IF linker[r].pc \in {"judge", "tag"} \/ linker[r].page > 1
             THEN [linker[r] EXCEPT !.raced = TRUE] ELSE linker[r]]
  BY DEF LinkAppears
<1>6. ASSUME NEW r \in Linkers PROVE LinkerOK(r)'
  <2>1. linker[r] \in LinkerState /\ FoundNothing(linker[r])
    BY DEF RelationInv, LinkerOK
  <2>2. CASE linker[r].pc \in {"judge", "tag"} \/ linker[r].page > 1
    <3> DEFINE s == [linker[r] EXCEPT !.raced = TRUE]
    <3>1. s \in LinkerState /\ s.pc = linker[r].pc /\ s.page = linker[r].page
          /\ s.found = linker[r].found /\ s.raced = TRUE
      BY <2>1 DEF LinkerState
    <3>2. linker'[r] = s
      BY <1>5, <2>2
    <3> HIDE DEF s
    <3> QED
      BY <2>1, <3>1, <3>2 DEF LinkerOK, Noted, FoundNothing
  <2>3. CASE ~ (linker[r].pc \in {"judge", "tag"} \/ linker[r].page > 1)
    <3>1. linker'[r] = linker[r] /\ linker[r].pc \notin {"judge", "tag"}
      BY <1>5, <2>3
    <3>2. linker[r].page \in Linked
      BY <2>1 DEF LinkerState
    <3>3. \A c \in Linked : ~ (c < linker[r].page)
      <4>1. \A c \in Linked : c \in Nat /\ c # 0
        BY LinkedAssumption
      <4>2. ~ (linker[r].page > 1) /\ linker[r].page \in Nat
        BY <2>3, <3>2, <4>1
      <4> QED
        BY <4>1, <4>2, SMT
    <3> QED
      BY <2>1, <3>1, <3>3 DEF LinkerOK, Noted
  <2> QED
    BY <2>2, <2>3
<1>7. linker' = [r \in Linkers |-> linker'[r]]
  BY <1>5
<1> QED
  BY <1>1, <1>3, <1>4, <1>6, <1>7 DEF RelationInv

\* No run's links and no peer's make a run tag and save what is not linked with the
\* options it asked for (the relation wait of index.ts:4285-4400), for any number of
\* runs and collections and whatever the service does with an accepted link.
THEOREM LinksSafe == RelationSpec => []LinkingIsSafe
<1>1. RelationInit => RelationInv
  <2> SUFFICES ASSUME RelationInit PROVE RelationInv
    OBVIOUS
  <2>1. relation \in [Linked -> Rows]
    BY DEF RelationInit, Rows
  <2>2. ASSUME NEW r \in Linkers PROVE LinkerOK(r)
    <3>1. linker[r] = [pc |-> "put", attempt |-> 0, page |-> 1, found |-> {}, raced |-> FALSE]
      BY DEF RelationInit
    <3> QED
      BY <3>1, LinkedAssumption DEF LinkerOK, LinkerState, Noted, FoundNothing
  <2> QED
    BY <2>1, <2>2, LinkedAssumption DEF RelationInit, RelationInv
<1>2. RelationInv /\ [RelationNext]_relationVars => RelationInv'
  <2>1. CASE UNCHANGED relationVars
    BY <2>1 DEF relationVars, RelationInv, LinkerOK
  <2>2. CASE RelationNext
    BY <2>2, PutKeeps, ReadKeeps, JudgeKeeps, SaveKeeps, AppearsKeeps DEF RelationNext, LinkStep
  <2> QED
    BY <2>1, <2>2
<1>3. RelationInv => LinkingIsSafe
  <2> SUFFICES ASSUME RelationInv PROVE LinkingIsSafe
    OBVIOUS
  <2>1. RelationTypeOK
    BY DEF RelationInv, LinkerOK, LinkerState, RelationTypeOK
  <2>2. ASSUME NEW r \in Linkers, linker[r].pc = "tag", ~linker[r].raced, NEW c \in Linked
        PROVE  relation[c].options = Asked[r] /\ relation[c].state \in Recognized
    <3>1. linker[r].raced = FALSE /\ linker[r].found = {}
      BY <2>2 DEF RelationInv, LinkerOK, LinkerState, FoundNothing
    <3>2. Finding(r, relation[c]) = {}
      BY <2>2, <3>1 DEF RelationInv, LinkerOK, Noted
    <3> QED
      BY <3>2 DEF Finding
  <2> QED
    BY <2>1, <2>2 DEF LinkingIsSafe, SavedMeansLinked
<1> QED
  BY <1>1, <1>2, <1>3, PTL DEF RelationSpec

-----------------------------------------------------------------------------
(* The breaking-change check                                               *)

CheckStages == {"source", "installed", "download", "digest", "extract", "copy", "report",
                "summary", "gate", "publish"} \cup CheckEnded
Reports == {"none", "breaking", "clean", "unread", "crashed"}
Verdicts == {"none", "skipped", "passed", "failed"}
CheckState ==
    [pc : CheckStages, mode : Modes, new : Specs, previous : Specs \cup {NoSpec},
     target : Specs \cup {NoSpec}, baseline : Specs \cup {NoSpec}, base : Specs \cup {NoSpec},
     hops : 0..Redirects, report : Reports, status : Verdicts, hit : BOOLEAN, raced : BOOLEAN]

Breaking(c) == <<c.base, c.new>> \in Breaks
\* What run c has compared so far, with the tools t, while Spec Hub holds h: the
\* specification its mode names, with the pinned tool; a break it does not refuse
\* is one of a report it could not read, and a refusal has its reason.
Compared(c, t, h) ==
    /\ c.pc = "report" => t.binary = "pinned"
    /\ c.pc = "digest" => c.hit = TRUE \/ t.archive = "pinned"
    /\ c.pc \notin {"source"} \cup CheckEnded => c.base = Base(c)
    /\ c.pc = "summary" => /\ c.report = "breaking" => Breaking(c)
                           /\ c.report = "clean" => ~ Breaking(c)
                           /\ c.report # "none"
                           /\ c.report \in {"unread", "crashed"} => c.hit = TRUE
    /\ c.pc = "gate" => /\ c.status \in {"passed", "failed"}
                        /\ c.status = "failed" => c.hit = TRUE \/ Breaking(c)
                        /\ c.status = "passed" => c.report = "unread" \/ ~ Breaking(c)
    /\ c.pc = "publish" => c.report = "unread" \/ ~ Breaking(c)
    /\ c.pc = "refused" => c.hit = TRUE \/ Breaking(c)
    /\ c.pc \notin CheckEnded /\ c.raced = FALSE /\ c.previous # NoSpec => h = c.previous

ChangeInv ==
    /\ hub \in Specs \cup {NoSpec} /\ tool \in [binary : Files, archive : Files]
    /\ checks \in [runs : 1..MaxChecks, faults : 0..MaxCheckFaults]
    /\ check \in CheckState /\ Compared(check, tool, hub)

\* The inputs of a run, which no step of it changes, and so what it compares with.
SameInputs(c, d) ==
    /\ d.mode = c.mode /\ d.new = c.new /\ d.previous = c.previous
    /\ d.target = c.target /\ d.baseline = c.baseline

LEMMA SameBase == ASSUME NEW c, NEW d, SameInputs(c, d) PROVE Base(d) = Base(c)
BY DEF SameInputs, Base

\* A step to another stage keeps all that the run has found.
LEMMA CheckToFields ==
    ASSUME check \in CheckState, NEW pc \in CheckStages, CheckTo(pc)
    PROVE  /\ check' \in CheckState /\ check'.pc = pc /\ SameInputs(check, check')
           /\ check'.base = check.base /\ check'.report = check.report /\ check'.status = check.status
           /\ check'.hit = check.hit /\ check'.raced = check.raced
BY DEF CheckTo, CheckState, SameInputs

\* A failing step is a reason to refuse.
LEMMA CheckFailsOK ==
    ASSUME ChangeInv, CheckFails
    PROVE  /\ check' \in CheckState /\ check'.pc = "refused" /\ check'.hit = TRUE
           /\ checks' \in [runs : 1..MaxChecks, faults : 0..MaxCheckFaults]
<1>1. check \in CheckState
  BY DEF ChangeInv
<1>2. check' \in CheckState /\ check'.pc = "refused" /\ check'.hit = TRUE
  BY <1>1 DEF CheckFails, CheckState, CheckStages, CheckEnded
<1>3. checks' \in [runs : 1..MaxChecks, faults : 0..MaxCheckFaults]
  BY CheckBoundsAssumption DEF CheckFails, CheckFault, ChangeInv
<1> QED
  BY <1>2, <1>3

LEMMA CheckFaultOK ==
    ASSUME ChangeInv, CheckFault \/ CheckWorks
    PROVE  checks' \in [runs : 1..MaxChecks, faults : 0..MaxCheckFaults]
BY CheckBoundsAssumption DEF CheckFault, CheckWorks, ChangeInv

LEMMA RefusedKeeps ==
    ASSUME ChangeInv, CheckFails, hub' \in Specs \cup {NoSpec}, tool' \in [binary : Files, archive : Files]
    PROVE  ChangeInv'
BY CheckFailsOK DEF ChangeInv, Compared, CheckEnded

LEMMA GoesOn ==
    ASSUME ChangeInv, UNCHANGED hub, tool' \in [binary : Files, archive : Files],
           CheckFault \/ CheckWorks, check.pc \notin {"source"} \cup CheckEnded,
           NEW pc \in CheckStages \ {"source", "summary", "gate"}, CheckTo(pc),
           pc = "report" => tool'.binary = "pinned",
           pc = "digest" => tool'.archive = "pinned",
           pc = "publish" => check.report = "unread" \/ ~ Breaking(check),
           pc = "refused" => check.hit = TRUE \/ Breaking(check)
    PROVE  ChangeInv'
<1>1. /\ check' \in CheckState /\ check'.pc = pc /\ SameInputs(check, check')
      /\ check'.base = check.base /\ check'.report = check.report /\ check'.status = check.status
      /\ check'.hit = check.hit /\ check'.raced = check.raced
  BY CheckToFields DEF ChangeInv
<1>2. Base(check') = Base(check) /\ (Breaking(check') <=> Breaking(check))
  BY <1>1, SameBase DEF SameInputs, Breaking
<1>3. Compared(check', tool', hub')
  BY <1>1, <1>2 DEF Compared, ChangeInv, SameInputs
<1> QED
  BY <1>1, <1>3, CheckFaultOK DEF ChangeInv

LEMMA ResolveKeeps == ASSUME ChangeInv, ResolveSource PROVE ChangeInv'
<1> DEFINE b == Base(check)
           s == [check EXCEPT !.base = b, !.status = IF b = NoSpec THEN "skipped" ELSE @,
                              !.pc = IF b = NoSpec THEN "publish" ELSE "installed"]
<1>1. check \in CheckState /\ check.pc = "source" /\ UNCHANGED <<hub, tool>>
  BY DEF ChangeInv, ResolveSource, CheckAt
<1>2. CASE check' = s /\ CheckWorks
  <2>1. b \in Specs \cup {NoSpec}
    BY <1>1 DEF Base, CheckState, Modes
  <2>2. /\ s \in CheckState /\ s.base = b /\ SameInputs(check, s) /\ s.raced = check.raced
        /\ s.pc = IF b = NoSpec THEN "publish" ELSE "installed"
    <3> HIDE DEF b
    <3> QED
      BY <1>1, <2>1 DEF CheckState, CheckStages, Verdicts, SameInputs
  <2>3. Base(s) = b
    BY <2>2, SameBase
  <2>4. b = NoSpec => ~ Breaking(s)
    BY <2>2, BreaksAssumption DEF Breaking
  <2> HIDE DEF s
  <2>5. Compared(s, tool, hub)
    BY <1>1, <2>2, <2>3, <2>4 DEF Compared, ChangeInv, SameInputs, CheckEnded
  <2> QED
    BY <1>1, <1>2, <2>2, <2>5, CheckFaultOK DEF ChangeInv
<1> QED
  BY <1>1, <1>2, RefusedKeeps DEF ResolveSource, ChangeInv

\* Only a binary that answers with the pinned version is not removed.
LEMMA InstalledKeeps == ASSUME ChangeInv, UseInstalled PROVE ChangeInv'
<1>1. /\ check.pc = "installed" /\ UNCHANGED hub /\ CheckWorks
      /\ tool \in [binary : Files, archive : Files]
  BY DEF UseInstalled, CheckAt, ChangeInv
<1>2. CASE tool.binary = "pinned"
  BY <1>1, <1>2, GoesOn DEF UseInstalled, CheckStages, CheckEnded
<1>3. CASE tool.binary # "pinned"
  <2>1. tool' \in [binary : Files, archive : Files] /\ CheckTo("download")
    BY <1>1, <1>3 DEF UseInstalled, Files
  <2> QED
    BY <1>1, <2>1, GoesOn DEF CheckStages, CheckEnded
<1> QED
  BY <1>2, <1>3

LEMMA DownloadKeeps == ASSUME ChangeInv, Download PROVE ChangeInv'
<1>1. /\ check.pc = "download" /\ UNCHANGED hub /\ check \in CheckState
      /\ tool \in [binary : Files, archive : Files] /\ check.base = Base(check)
  BY DEF Download, CheckAt, ChangeInv, Compared, CheckEnded
<1>2. \A f \in Files : /\ [tool EXCEPT !.archive = f] \in [binary : Files, archive : Files]
                       /\ [tool EXCEPT !.archive = f].archive = f
  BY <1>1
<1>3. CASE tool' = [tool EXCEPT !.archive = "pinned"] /\ CheckTo("digest") /\ CheckWorks
  BY <1>1, <1>2, <1>3, GoesOn DEF CheckStages, CheckEnded, Files
<1>4. CASE /\ tool' = [tool EXCEPT !.archive = "broken"]
           /\ check' = [check EXCEPT !.pc = "digest", !.hit = TRUE] /\ CheckFault
  <2>1. /\ check' \in CheckState /\ check'.pc = "digest" /\ check'.hit = TRUE
        /\ SameInputs(check, check') /\ check'.base = check.base /\ check'.raced = check.raced
    BY <1>1, <1>4 DEF CheckState, CheckStages, SameInputs
  <2>2. Compared(check', tool', hub')
    BY <1>1, <2>1, SameBase DEF Compared, ChangeInv, SameInputs, CheckEnded
  <2> QED
    BY <1>1, <1>2, <1>4, <2>1, <2>2, CheckFaultOK DEF ChangeInv, Files
<1>5. CASE /\ check.hops < Redirects /\ check' = [check EXCEPT !.hops = @ + 1]
           /\ UNCHANGED tool /\ CheckWorks
  <2>0. check.hops + 1 \in 0..Redirects
    BY <1>1, <1>5, CheckBoundsAssumption DEF CheckState
  <2>1. /\ check' \in CheckState /\ check'.pc = "download"
        /\ SameInputs(check, check') /\ check'.base = check.base /\ check'.raced = check.raced
    BY <1>1, <1>5, <2>0 DEF CheckState, SameInputs
  <2>2. UNCHANGED tool /\ Base(check') = Base(check)
    BY <1>5, <2>1, SameBase
  <2>3. Compared(check', tool', hub')
    BY <1>1, <2>1, <2>2 DEF Compared, ChangeInv, SameInputs, CheckEnded
  <2> QED
    BY <1>1, <1>5, <2>1, <2>3, CheckFaultOK DEF ChangeInv
<1>6. CASE tool' \in {tool, [tool EXCEPT !.archive = "broken"]} /\ CheckFails
  BY <1>1, <1>2, <1>6, RefusedKeeps DEF ChangeInv, Files
<1> QED
  BY <1>3, <1>4, <1>5, <1>6 DEF Download

LEMMA UnpackKeeps ==
    ASSUME ChangeInv, CheckDigest \/ Extract \/ CopyBinary PROVE ChangeInv'
<1>1. /\ UNCHANGED hub /\ tool \in [binary : Files, archive : Files]
      /\ check.pc \in {"digest", "extract", "copy"} /\ hub \in Specs \cup {NoSpec}
  BY DEF CheckDigest, Extract, CopyBinary, CheckAt, ChangeInv
<1>2. CASE CheckDigest
  <2>1. UNCHANGED tool /\ CheckWorks /\ CheckTo(IF tool.archive = "pinned" THEN "extract" ELSE "refused")
    BY <1>2 DEF CheckDigest
  <2>2. tool.archive # "pinned" => check.hit = TRUE
    BY <1>2 DEF CheckDigest, CheckAt, ChangeInv, Compared
  <2>3. CASE tool.archive = "pinned"
    BY <1>1, <2>1, <2>3, GoesOn DEF CheckStages, CheckEnded
  <2>4. CASE tool.archive # "pinned"
    BY <1>1, <2>1, <2>2, <2>4, GoesOn DEF CheckStages, CheckEnded
  <2> QED
    BY <2>3, <2>4
<1>3. CASE Extract
  <2>1. UNCHANGED tool
    BY <1>3 DEF Extract
  <2>2. CASE CheckTo("copy") /\ CheckWorks
    BY <1>1, <2>1, <2>2, GoesOn DEF CheckStages, CheckEnded
  <2> QED
    BY <1>1, <1>3, <2>1, <2>2, RefusedKeeps DEF Extract
<1>4. CASE CopyBinary
  <2>1. \A f \in Files : /\ [tool EXCEPT !.binary = f] \in [binary : Files, archive : Files]
                         /\ [tool EXCEPT !.binary = f].binary = f
    BY <1>1
  <2>2. CASE tool' = [tool EXCEPT !.binary = "pinned"] /\ CheckTo("report") /\ CheckWorks
    BY <1>1, <2>1, <2>2, GoesOn DEF CheckStages, CheckEnded, Files
  <2>3. CASE tool' \in {[tool EXCEPT !.binary = f] : f \in {"none", "broken"}} /\ CheckFails
    <3>1. tool' \in [binary : Files, archive : Files]
      BY <2>1, <2>3 DEF Files
    <3> QED
      BY <1>1, <2>3, <3>1, RefusedKeeps
  <2> QED
    BY <1>4, <2>2, <2>3 DEF CopyBinary
<1> QED
  BY <1>2, <1>3, <1>4

LEMMA ReportKeeps == ASSUME ChangeInv, Report PROVE ChangeInv'
<1>1. /\ check.pc = "report" /\ UNCHANGED <<hub, tool>> /\ check \in CheckState
      /\ check.base = Base(check)
  BY DEF Report, CheckAt, ChangeInv, Compared, CheckEnded
<1>2. ASSUME NEW r \in Reports, NEW h \in BOOLEAN, CheckFault \/ CheckWorks,
             check' = [check EXCEPT !.pc = "summary", !.report = r, !.hit = h],
             r = "breaking" => Breaking(check), r = "clean" => ~ Breaking(check), r # "none",
             r \in {"unread", "crashed"} => h = TRUE
      PROVE  ChangeInv'
  <2>1. /\ check' \in CheckState /\ check'.pc = "summary" /\ check'.report = r /\ check'.hit = h
        /\ SameInputs(check, check') /\ check'.base = check.base /\ check'.raced = check.raced
    BY <1>1, <1>2 DEF CheckState, CheckStages, SameInputs
  <2>2. Base(check') = Base(check) /\ (Breaking(check') <=> Breaking(check))
    BY <2>1, SameBase DEF SameInputs, Breaking
  <2>3. Compared(check', tool', hub')
    BY <1>1, <1>2, <2>1, <2>2 DEF Compared, ChangeInv, SameInputs, CheckEnded
  <2> QED
    BY <1>1, <1>2, <2>1, <2>3, CheckFaultOK DEF ChangeInv
<1> DEFINE found == IF <<check.base, check.new>> \in Breaks THEN "breaking" ELSE "clean"
<1>3. CASE check' = [check EXCEPT !.pc = "summary", !.report = found] /\ CheckWorks
  <2>1. /\ found \in Reports /\ found # "none" /\ found \notin {"unread", "crashed"}
        /\ found = "breaking" => Breaking(check)
        /\ found = "clean" => ~ Breaking(check)
    BY DEF Reports, Breaking
  <2>2. check.hit \in BOOLEAN
    BY <1>1 DEF CheckState
  <2>3. [check EXCEPT !.pc = "summary", !.report = found]
          = [check EXCEPT !.pc = "summary", !.report = found, !.hit = check.hit]
    <3> HIDE DEF found
    <3> QED
      BY <1>1 DEF CheckState
  <2> HIDE DEF found
  <2> QED
    BY <1>2, <1>3, <2>1, <2>2, <2>3
<1>4. CASE \E r \in {"unread", "crashed"} :
             check' = [check EXCEPT !.pc = "summary", !.report = r, !.hit = TRUE] /\ CheckFault
  BY <1>2, <1>4 DEF Reports
<1> QED
  BY <1>1, <1>3, <1>4, RefusedKeeps DEF Report, ChangeInv

LEMMA SummarizeKeeps == ASSUME ChangeInv, Summarize PROVE ChangeInv'
<1>1. /\ check.pc = "summary" /\ UNCHANGED <<hub, tool>> /\ check \in CheckState
      /\ check.base = Base(check)
  BY DEF Summarize, CheckAt, ChangeInv, Compared, CheckEnded
<1>2. PICK summarised \in BOOLEAN :
        /\ IF summarised THEN CheckWorks ELSE CheckFault
        /\ check' = [check EXCEPT !.status = IF FailsOn(check.report, summarised) THEN "failed" ELSE "passed",
                                  !.hit = @ \/ ~summarised, !.pc = "gate"]
  BY DEF Summarize
<1> DEFINE v == IF FailsOn(check.report, summarised) THEN "failed" ELSE "passed"
           h == check.hit \/ ~summarised
<1>3. v \in {"passed", "failed"} /\ h \in BOOLEAN
  OBVIOUS
<1>4. v = "failed" => h = TRUE \/ Breaking(check)
  <2>1. CASE summarised = FALSE
    BY <2>1
  <2>2. CASE summarised = TRUE /\ check.report = "crashed"
    <3>1. check.hit = TRUE
      BY <1>1, <2>2 DEF ChangeInv, Compared
    <3> QED
      BY <3>1
  <2>3. CASE summarised = TRUE /\ check.report = "breaking"
    BY <1>1, <2>3 DEF ChangeInv, Compared
  <2>4. CASE summarised = TRUE /\ check.report \notin {"crashed", "breaking"}
    BY <2>4 DEF FailsOn
  <2> QED
    BY <2>1, <2>2, <2>3, <2>4
<1>5. v = "passed" => check.report = "unread" \/ ~ Breaking(check)
  <2>1. v = "passed" => check.report \notin {"crashed", "breaking"}
    BY DEF FailsOn
  <2>2. check.report \in {"breaking", "clean", "unread", "crashed"}
    BY <1>1 DEF ChangeInv, Compared, CheckState, Reports
  <2>3. check.report = "clean" => ~ Breaking(check)
    BY <1>1 DEF ChangeInv, Compared
  <2> QED
    BY <2>1, <2>2, <2>3
<1>6. check' = [check EXCEPT !.status = v, !.hit = h, !.pc = "gate"]
  BY <1>2
<1> HIDE DEF v, h
<1>7. /\ check' \in CheckState /\ check'.pc = "gate" /\ check'.status = v /\ check'.hit = h
      /\ SameInputs(check, check') /\ check'.base = check.base /\ check'.report = check.report
      /\ check'.raced = check.raced
  BY <1>1, <1>3, <1>6 DEF CheckState, CheckStages, Verdicts, SameInputs
<1>8. Base(check') = Base(check) /\ (Breaking(check') <=> Breaking(check))
  BY <1>7, SameBase DEF SameInputs, Breaking
<1>9. Compared(check', tool', hub')
  BY <1>1, <1>3, <1>4, <1>5, <1>7, <1>8 DEF Compared, ChangeInv, SameInputs, CheckEnded
<1> QED
  BY <1>1, <1>2, <1>7, <1>9, CheckFaultOK DEF ChangeInv

LEMMA GateKeeps == ASSUME ChangeInv, Gate PROVE ChangeInv'
<1>1. /\ check.pc = "gate" /\ UNCHANGED <<hub, tool>> /\ CheckWorks /\ tool \in [binary : Files, archive : Files]
      /\ CheckTo(IF check.status = "failed" THEN "refused" ELSE "publish")
  BY DEF Gate, CheckAt, ChangeInv
<1>2. /\ check.status \in {"passed", "failed"}
      /\ check.status = "failed" => check.hit = TRUE \/ Breaking(check)
      /\ check.status = "passed" => check.report = "unread" \/ ~ Breaking(check)
  BY <1>1 DEF ChangeInv, Compared
<1>3. CASE check.status = "failed"
  BY <1>1, <1>2, <1>3, GoesOn DEF CheckStages, CheckEnded
<1>4. CASE check.status # "failed"
  BY <1>1, <1>2, <1>4, GoesOn DEF CheckStages, CheckEnded
<1> QED
  BY <1>3, <1>4

LEMMA PublishKeeps == ASSUME ChangeInv, PublishSpec PROVE ChangeInv'
<1>1. check.pc = "publish" /\ UNCHANGED tool /\ check \in CheckState
  BY DEF PublishSpec, CheckAt, ChangeInv
<1>2. CASE hub' = check.new /\ CheckTo("published") /\ CheckWorks
  <2>1. check' \in CheckState /\ check'.pc = "published" /\ hub' \in Specs
    BY <1>1, <1>2, CheckToFields DEF CheckStages, CheckEnded, CheckState
  <2> QED
    BY <1>1, <1>2, <2>1, CheckFaultOK DEF ChangeInv, Compared, CheckEnded
<1> QED
  BY <1>1, <1>2, RefusedKeeps DEF PublishSpec, ChangeInv

LEMMA PeerKeeps == ASSUME ChangeInv, PeerPublishes PROVE ChangeInv'
<1>1. /\ check \in CheckState /\ check.pc \notin CheckEnded /\ CheckFault /\ UNCHANGED tool
      /\ hub' \in Specs /\ check' = [check EXCEPT !.raced = TRUE]
  BY DEF PeerPublishes, ChangeInv
<1>2. /\ check' \in CheckState /\ check'.pc = check.pc /\ SameInputs(check, check') /\ check'.raced = TRUE
      /\ check'.base = check.base /\ check'.report = check.report /\ check'.status = check.status
      /\ check'.hit = check.hit
  BY <1>1 DEF CheckState, SameInputs
<1>3. Base(check') = Base(check) /\ (Breaking(check') <=> Breaking(check))
  BY <1>2, SameBase DEF SameInputs, Breaking
<1>4. UNCHANGED tool
  BY <1>1
<1>5. Compared(check', tool', hub')
  BY <1>2, <1>3, <1>4 DEF Compared, ChangeInv, SameInputs
<1> QED
  BY <1>1, <1>2, <1>5, CheckFaultOK DEF ChangeInv

LEMMA KillKeeps == ASSUME ChangeInv, KillCheck PROVE ChangeInv'
<1>1. check' \in CheckState /\ check'.pc = "killed" /\ UNCHANGED hub
  BY CheckToFields DEF KillCheck, ChangeInv, CheckStages, CheckEnded
<1>2. tool' \in [binary : Files, archive : Files]
  <2>1. tool \in [binary : Files, archive : Files]
    BY DEF ChangeInv
  <2>2. \A f \in Files : /\ [tool EXCEPT !.archive = f] \in [binary : Files, archive : Files]
                         /\ [tool EXCEPT !.binary = f] \in [binary : Files, archive : Files]
    BY <2>1
  <2>3. \/ tool' = tool \/ tool' = [tool EXCEPT !.archive = "broken"]
        \/ \E f \in {"none", "broken"} : tool' = [tool EXCEPT !.binary = f]
    BY DEF KillCheck, CheckAt
  <2> QED
    BY <2>1, <2>2, <2>3 DEF Files
<1>3. Compared(check', tool', hub')
  BY <1>1 DEF Compared, CheckEnded
<1> QED
  BY <1>1, <1>2, <1>3, CheckFaultOK DEF ChangeInv, KillCheck

LEMMA NextRunKeeps == ASSUME ChangeInv, NextCheck PROVE ChangeInv'
<1>1. PICK s \in Specs : check' = FreshCheck(check.mode, s, hub, check.target, check.baseline)
  BY DEF NextCheck
<1>2. UNCHANGED <<hub, tool>> /\ hub \in Specs \cup {NoSpec} /\ check \in CheckState
  BY DEF NextCheck, ChangeInv
<1>3. check' \in CheckState /\ check'.pc = "source" /\ check'.previous = hub
  BY <1>1, <1>2, CheckBoundsAssumption DEF FreshCheck, CheckState, CheckStages, Reports, Verdicts
<1>4. checks' \in [runs : 1..MaxChecks, faults : 0..MaxCheckFaults]
  BY CheckBoundsAssumption DEF NextCheck, ChangeInv
<1>5. Compared(check', tool', hub')
  BY <1>2, <1>3 DEF Compared, CheckEnded
<1> QED
  BY <1>2, <1>3, <1>4, <1>5 DEF ChangeInv

LEMMA ChangeKeeps == ASSUME ChangeInv, [ChangeNext]_changeVars PROVE ChangeInv'
<1>1. CASE UNCHANGED changeVars
  BY <1>1 DEF changeVars, ChangeInv
<1>2. CASE ChangeNext
  BY <1>2, ResolveKeeps, InstalledKeeps, DownloadKeeps, UnpackKeeps, ReportKeeps, SummarizeKeeps,
     GateKeeps, PublishKeeps, PeerKeeps, KillKeeps, NextRunKeeps DEF ChangeNext
<1> QED
  BY <1>1, <1>2

\* What a run publishes was compared with what its mode names, and in previous-spec
\* mode with what it replaces.
LEMMA PublishesCompared == ASSUME ChangeInv, [ChangeNext]_changeVars PROVE BreakingRefused
<1> DEFINE named == IF check.mode = "previous-spec" THEN check.previous
                    ELSE IF check.mode = "pr-native" /\ check.target # NoSpec THEN check.target
                    ELSE check.baseline
<1> SUFFICES ASSUME check.pc = "publish", check.mode # "off",
                    NEW old, \/ old = named
                             \/ /\ check.mode = "previous-spec" /\ check.previous # NoSpec
                                /\ check.raced = FALSE /\ old = hub,
                    <<old, check.new>> \in Breaks
             PROVE  check.report = "unread"
  BY DEF BreakingRefused, CheckAt, ChangeInv, CheckState
<1>1. /\ check.base = Base(check) /\ check.mode \in Modes
      /\ check.report = "unread" \/ ~ Breaking(check)
      /\ check.raced = FALSE /\ check.previous # NoSpec => hub = check.previous
  BY DEF ChangeInv, Compared, CheckState, CheckEnded
<1>2. old = named
  BY <1>1
<1>3. Base(check) = named
  BY <1>1 DEF Base, Modes
<1> QED
  BY <1>1, <1>2, <1>3 DEF Breaking

\* No version that breaks what it is compared with is published, the tool that
\* compares is the pinned one whatever killed runs left in the temporary directory,
\* and no run is refused for their leftovers (openapi-changes.ts): for any
\* definitions, breaks, number of runs, redirects and failing steps.
THEOREM ChangeChecksSafe == ChangeSpec => ChangeCheckIsSafe
<1>1. ChangeInit => ChangeInv
  <2> SUFFICES ASSUME ChangeInit PROVE ChangeInv
    OBVIOUS
  <2>1. PICK m \in Modes, s \in Specs, t \in Specs \cup {NoSpec}, b \in Specs \cup {NoSpec} :
          \E read \in {hub, NoSpec} : check = FreshCheck(m, s, read, t, b)
    BY DEF ChangeInit
  <2>2. PICK read \in {hub, NoSpec} : check = FreshCheck(m, s, read, t, b)
    BY <2>1
  <2>3. hub \in Specs \cup {NoSpec}
    BY DEF ChangeInit
  <2>4. check \in CheckState /\ check.pc = "source" /\ check.previous = read
    BY <2>2, <2>3, CheckBoundsAssumption DEF FreshCheck, CheckState, CheckStages, Reports, Verdicts
  <2>5. Compared(check, tool, hub)
    BY <2>4 DEF Compared
  <2> QED
    BY <2>3, <2>4, <2>5, CheckBoundsAssumption DEF ChangeInit, ChangeInv, Files
<1>2. ChangeInv => ChangeTypeOK /\ PinnedToolReports /\ LeftoversHarmless
  <2> SUFFICES ASSUME ChangeInv PROVE ChangeTypeOK /\ PinnedToolReports /\ LeftoversHarmless
    OBVIOUS
  <2>1. ChangeTypeOK
    BY DEF ChangeInv, ChangeTypeOK, CheckState, Verdicts
  <2>2. PinnedToolReports
    BY DEF ChangeInv, Compared, PinnedToolReports, CheckAt
  <2>3. LeftoversHarmless
    <3>1. check.pc = "refused" => check.hit = TRUE \/ Breaking(check)
      BY DEF ChangeInv, Compared
    <3> QED
      BY <3>1 DEF LeftoversHarmless, CheckAt, Breaking
  <2> QED
    BY <2>1, <2>2, <2>3
<1> QED
  BY <1>1, <1>2, ChangeKeeps, PublishesCompared, PTL DEF ChangeSpec, ChangeCheckIsSafe

-----------------------------------------------------------------------------
(* The generated collections in the checkout                               *)

Filling == {"clear", "sibling", "displace", "install", "drop"}
DiskState ==
    [pc : Filling \cup {"idle", "committed", "restore", "restored", "torn"}, at : Trees, moved : BOOLEAN,
     run : 0..MaxDiskRuns, faults : 0..MaxDiskFaults, first : [Trees -> DiskContents]]
DiskTypes ==
    /\ dest \in [Trees -> DiskContents] /\ sibling \in [Trees -> DiskContents]
    /\ backup \in [Trees -> DiskContents] /\ snapshot \in [Trees -> DiskContents]
    /\ disk \in DiskState

\* Where the tree under way is, and that those before it are done and those after
\* it untouched.
InTurn ==
    /\ disk.pc \in Filling =>
         \A t \in Trees : /\ t < disk.at => dest[t] = TreeOf(disk.run) /\ backup[t] = Missing /\ sibling[t] = Missing
                          /\ t > disk.at => dest[t] = disk.first[t]
    /\ disk.pc \in {"clear", "sibling", "displace"} => dest[disk.at] = disk.first[disk.at]
    /\ disk.pc \in {"sibling", "displace"} => backup[disk.at] = Missing
    /\ disk.pc \in {"displace", "install"} => sibling[disk.at] = TreeOf(disk.run)
    /\ disk.pc = "install" => /\ dest[disk.at] = Missing
                              /\ disk.moved = TRUE => backup[disk.at] = disk.first[disk.at]
                              /\ disk.moved = FALSE => disk.first[disk.at] = Missing
    /\ disk.pc = "drop" => dest[disk.at] = TreeOf(disk.run) /\ sibling[disk.at] = Missing

\* What the restore works from, and what it gives.
Restorable ==
    /\ disk.pc \in Filling \cup {"committed", "restore"} => snapshot = disk.first
    /\ disk.pc = "restored" => dest = disk.first

\* The first run finds complete trees.
FirstTrees ==
    /\ disk.run = 0 => disk.pc = "idle" /\ dest = disk.first
    /\ disk.run \in {0, 1} => disk.first \in [Trees -> {Missing, TreeOf(0)}]

DiskInv == DiskTypes /\ InTurn /\ CommitIsWhole /\ Restorable /\ FirstTrees /\ ATreeSurvives

LEMMA TreesAreCounted == Trees \subseteq Nat \ {0} /\ 1 \in Trees
<1>1. PICK n \in Nat \ {0} : Trees = 1..n
  BY ArtifactAssumption
<1> QED
  BY <1>1, SMT

LEMMA TreeFacts ==
    /\ \A k \in 0..MaxDiskRuns : TreeOf(k) \in DiskContents /\ TreeOf(k) # Missing /\ TreeOf(k).whole = TRUE
    /\ Missing \in DiskContents /\ Missing.whole = TRUE
    /\ \A k \in 0..MaxDiskRuns : Torn(TreeOf(k)) \in DiskContents
<1>1. MaxDiskRuns \in Nat
  BY ArtifactAssumption
<1>2. ASSUME NEW k \in 0..MaxDiskRuns
      PROVE  /\ TreeOf(k) \in DiskContents /\ TreeOf(k) # Missing /\ TreeOf(k).whole = TRUE
             /\ Torn(TreeOf(k)) \in DiskContents
  <2>1. k \in -1..MaxDiskRuns /\ k # -1
    BY <1>1, <1>2, SMT
  <2>2. TreeOf(k) \in DiskContents
    BY <2>1 DEF TreeOf, DiskContents
  <2>3. TreeOf(k).run = k /\ TreeOf(k).whole = TRUE /\ Missing.run = -1
    BY DEF TreeOf, Missing
  <2>4. Torn(TreeOf(k)) \in DiskContents
    BY <2>2 DEF Torn, DiskContents
  <2> QED
    BY <2>1, <2>2, <2>3, <2>4
<1>3. Missing \in DiskContents
  <2>1. -1 \in -1..MaxDiskRuns
    BY <1>1, SMT
  <2> QED
    BY <2>1 DEF Missing, DiskContents
<1>4. Missing.whole = TRUE
  BY DEF Missing
<1> QED
  BY <1>2, <1>3, <1>4

\* The destination that holds what the run found is one of the complete trees.
LEMMA FirstSurvives ==
    ASSUME DiskInv, disk.run \in {0, 1}, NEW t \in Trees, disk.first[t] # Missing
    PROVE  disk.first[t] = TreeOf(0) /\ disk.first[t].whole = TRUE
BY TreeFacts, ArtifactAssumption DEF DiskInv, FirstTrees

LEMMA DiskMoves ==
    ASSUME disk \in DiskState
    PROVE  /\ \A pc \in Filling \cup {"idle", "committed", "restore", "restored", "torn"} :
                /\ DiskGoes(pc) => /\ disk' \in DiskState /\ disk'.pc = pc /\ disk'.at = disk.at
                                   /\ disk'.run = disk.run /\ disk'.first = disk.first
                                   /\ disk'.moved = disk.moved
                /\ FailsTo(pc) => /\ disk' \in DiskState /\ disk'.pc = pc /\ disk'.at = disk.at
                                  /\ disk'.run = disk.run /\ disk'.first = disk.first
                                  /\ disk'.moved = disk.moved
<1>1. disk.faults \in 0..MaxDiskFaults /\ MaxDiskFaults \in Nat
  BY ArtifactAssumption DEF DiskState
<1>2. DiskFault => disk.faults + 1 \in 0..MaxDiskFaults
  BY <1>1, SMT DEF DiskFault
<1> QED
  BY <1>2 DEF DiskState, DiskGoes, FailsTo

\* A step that fails leaves the restore its snapshots and the checkout its trees.
LEMMA FailureKeeps ==
    ASSUME DiskInv, DiskTypes', UNCHANGED snapshot, disk'.pc = "restore",
           disk'.run = disk.run, disk'.first = disk.first, disk.run # 0,
           disk.pc \in Filling \cup {"committed"},
           disk.run = 1 => \A t \in Trees : disk.first[t] # Missing =>
               \E x \in {dest'[t], backup'[t], sibling'[t]} : x # Missing /\ x.whole
    PROVE  DiskInv'
<1>1. InTurn' /\ CommitIsWhole'
  BY DEF InTurn, CommitIsWhole, DiskAt, Filling
<1>2. Restorable' /\ FirstTrees'
  BY DEF DiskInv, Restorable, FirstTrees
<1>3. ATreeSurvives'
  BY DEF ATreeSurvives
<1> QED
  BY <1>1, <1>2, <1>3 DEF DiskInv

LEMMA MaterializeKeeps == ASSUME DiskInv, Materialize PROVE DiskInv'
<1>1. /\ disk \in DiskState /\ dest \in [Trees -> DiskContents] /\ UNCHANGED <<dest, sibling, backup>>
      /\ snapshot' = dest /\ disk.run \in Nat /\ disk.run < MaxDiskRuns /\ MaxDiskRuns \in Nat
      /\ disk.faults \in 0..MaxDiskFaults /\ MaxDiskFaults \in Nat
  BY ArtifactAssumption DEF Materialize, DiskInv, DiskTypes, DiskState
<1>2. disk.run + 1 \in 0..MaxDiskRuns /\ disk.run + 1 # 0 /\ (disk.run + 1 = 1 <=> disk.run = 0)
  BY <1>1, SMT
<1>3. /\ disk' \in DiskState /\ disk'.run = disk.run + 1 /\ disk'.first = dest
      /\ disk'.pc \in {"clear", "idle"} /\ (disk'.pc = "clear" => disk'.at = 1)
  <2>1. CASE disk' = [disk EXCEPT !.pc = "clear", !.at = 1, !.run = @ + 1, !.moved = FALSE, !.first = dest]
    BY <1>1, <1>2, <2>1, TreesAreCounted DEF DiskState, Filling
  <2>2. CASE DiskFault /\ disk' = [disk EXCEPT !.pc = "idle", !.run = @ + 1, !.faults = @ + 1, !.first = dest]
    <3>1. disk.faults + 1 \in 0..MaxDiskFaults
      BY <1>1, <2>2, SMT DEF DiskFault
    <3> QED
      BY <1>1, <1>2, <2>2, <3>1 DEF DiskState
  <2> QED
    BY <2>1, <2>2 DEF Materialize
<1>4. DiskTypes'
  BY <1>1, <1>3 DEF DiskInv, DiskTypes
<1>5. InTurn' /\ CommitIsWhole'
  <2>1. \A t \in Trees : ~ (t < 1)
    BY TreesAreCounted, SMT
  <2> QED
    BY <1>1, <1>3, <2>1 DEF InTurn, CommitIsWhole, DiskAt, Filling
<1>6. Restorable'
  BY <1>1, <1>3 DEF Restorable
<1>7. disk'.run \in {0, 1} => disk.run = 0 /\ disk'.run = 1 /\ disk'.first = disk.first
  BY <1>2, <1>3 DEF DiskInv, FirstTrees
<1>8. FirstTrees'
  BY <1>2, <1>3, <1>7 DEF DiskInv, FirstTrees
<1>9. ATreeSurvives'
  <2> SUFFICES ASSUME disk'.run = 1, NEW t \in Trees, disk'.first[t] # Missing
               PROVE  \E x \in {dest'[t], backup'[t], sibling'[t]} : x # Missing /\ x.whole
    BY DEF ATreeSurvives
  <2>1. disk.run = 0 /\ disk.first[t] # Missing /\ dest'[t] = disk.first[t]
    BY <1>1, <1>3, <1>7
  <2> QED
    BY <2>1, FirstSurvives
<1> QED
  BY <1>4, <1>5, <1>6, <1>8, <1>9 DEF DiskInv

LEMMA SetAtFacts ==
    ASSUME disk \in DiskState, NEW f \in [Trees -> DiskContents], NEW v \in DiskContents
    PROVE  /\ SetAt(f, v) \in [Trees -> DiskContents] /\ SetAt(f, v)[disk.at] = v
           /\ \A t \in Trees : t # disk.at => SetAt(f, v)[t] = f[t]
BY DEF SetAt, DiskState

LEMMA TreesAreOrdered ==
    ASSUME disk \in DiskState, NEW t \in Trees, t # disk.at
    PROVE  t < disk.at \/ t > disk.at
<1>1. t \in Nat /\ disk.at \in Nat
  BY TreesAreCounted DEF DiskState
<1> QED
  BY <1>1, SMT

\* What an undisturbed destination, or a finished one, is to the survival of trees.
LEMMA StandsForFirst ==
    ASSUME DiskInv, disk.run = 1, NEW t \in Trees, disk.first[t] # Missing,
           NEW x, x = disk.first[t] \/ x = TreeOf(disk.run)
    PROVE  x # Missing /\ x.whole
<1>1. disk.run \in 0..MaxDiskRuns
  BY DEF DiskInv, DiskTypes, DiskState
<1> QED
  BY <1>1, FirstSurvives, TreeFacts

LEMMA RemoveLeftoversKeeps == ASSUME DiskInv, RemoveLeftovers PROVE DiskInv'
<1>1. /\ disk.pc = "clear" /\ UNCHANGED <<dest, snapshot>> /\ disk \in DiskState /\ disk.at \in Trees
      /\ dest[disk.at] = disk.first[disk.at] /\ DiskTypes /\ disk.run # 0
  BY DEF RemoveLeftovers, DiskAt, DiskInv, DiskTypes, DiskState, InTurn, FirstTrees
<1>2. /\ SetAt(sibling, Missing) \in [Trees -> DiskContents] /\ SetAt(backup, Missing) \in [Trees -> DiskContents]
      /\ SetAt(backup, Missing)[disk.at] = Missing
      /\ \A t \in Trees : t # disk.at => /\ SetAt(sibling, Missing)[t] = sibling[t]
                                         /\ SetAt(backup, Missing)[t] = backup[t]
  BY <1>1, SetAtFacts, TreeFacts DEF DiskTypes
<1>3. /\ sibling' \in {sibling, SetAt(sibling, Missing)} /\ backup' \in {backup, SetAt(backup, Missing)}
      /\ (backup' = SetAt(backup, Missing) /\ DiskGoes("sibling")) \/ FailsTo("restore")
  BY DEF RemoveLeftovers
<1>4. \A t \in Trees : t # disk.at => sibling'[t] = sibling[t] /\ backup'[t] = backup[t]
  BY <1>2, <1>3
<1>5. disk.run = 1 => \A t \in Trees : disk.first[t] # Missing =>
        \E x \in {dest'[t], backup'[t], sibling'[t]} : x # Missing /\ x.whole
  <2> SUFFICES ASSUME disk.run = 1, NEW t \in Trees, disk.first[t] # Missing
               PROVE  \E x \in {dest'[t], backup'[t], sibling'[t]} : x # Missing /\ x.whole
    OBVIOUS
  <2>1. CASE t = disk.at
    BY <1>1, <2>1, StandsForFirst
  <2>2. CASE t # disk.at
    BY <1>1, <1>4, <2>2 DEF DiskInv, ATreeSurvives
  <2> QED
    BY <2>1, <2>2
<1>6. CASE FailsTo("restore")
  <2>1. disk' \in DiskState /\ disk'.pc = "restore" /\ disk'.run = disk.run /\ disk'.first = disk.first
    BY <1>1, <1>6, DiskMoves
  <2>2. DiskTypes'
    BY <1>1, <1>2, <1>3, <2>1 DEF DiskTypes
  <2> QED
    BY <1>1, <1>5, <2>1, <2>2, FailureKeeps DEF Filling
<1>7. CASE backup' = SetAt(backup, Missing) /\ DiskGoes("sibling")
  <2>1. /\ disk' \in DiskState /\ disk'.pc = "sibling" /\ disk'.run = disk.run /\ disk'.first = disk.first
        /\ disk'.at = disk.at
    BY <1>1, <1>7, DiskMoves DEF Filling
  <2>2. DiskTypes'
    BY <1>1, <1>2, <1>3, <2>1 DEF DiskTypes
  <2>3. \A t \in Trees : t < disk.at \/ t > disk.at => t # disk.at
    <3>1. disk.at \in Nat
      BY <1>1, TreesAreCounted
    <3> QED
      BY <3>1, TreesAreCounted, SMT
  <2>4. InTurn'
    BY <1>1, <1>2, <1>4, <1>7, <2>1, <2>3 DEF DiskInv, InTurn, Filling
  <2>5. CommitIsWhole' /\ Restorable' /\ FirstTrees'
    BY <1>1, <2>1 DEF DiskInv, CommitIsWhole, DiskAt, Restorable, FirstTrees, Filling
  <2>6. ATreeSurvives'
    BY <1>5, <2>1 DEF ATreeSurvives
  <2> QED
    BY <2>2, <2>4, <2>5, <2>6 DEF DiskInv
<1> QED
  BY <1>3, <1>6, <1>7

LEMMA BesideIsAnother ==
    ASSUME disk \in DiskState, NEW t \in Trees, t < disk.at \/ t > disk.at
    PROVE  t # disk.at
<1>1. disk.at \in Nat
  BY TreesAreCounted DEF DiskState
<1> QED
  BY <1>1, TreesAreCounted, SMT

\* A step forward with the tree under way keeps the other trees as they are.
LEMMA ForwardKeeps ==
    ASSUME DiskInv, DiskTypes', UNCHANGED snapshot, disk.pc \in Filling, disk'.pc \in Filling,
           disk'.run = disk.run, disk'.first = disk.first, disk'.at = disk.at,
           \A t \in Trees : t # disk.at => /\ dest'[t] = dest[t] /\ sibling'[t] = sibling[t]
                                           /\ backup'[t] = backup[t],
           disk'.pc \in {"clear", "sibling", "displace"} => dest'[disk.at] = disk.first[disk.at],
           disk'.pc \in {"sibling", "displace"} => backup'[disk.at] = Missing,
           disk'.pc \in {"displace", "install"} => sibling'[disk.at] = TreeOf(disk.run),
           disk'.pc = "install" => /\ dest'[disk.at] = Missing
                                   /\ disk'.moved = TRUE => backup'[disk.at] = disk.first[disk.at]
                                   /\ disk'.moved = FALSE => disk.first[disk.at] = Missing,
           disk'.pc = "drop" => dest'[disk.at] = TreeOf(disk.run) /\ sibling'[disk.at] = Missing,
           disk.run = 1 /\ disk.first[disk.at] # Missing =>
               \E x \in {dest'[disk.at], backup'[disk.at], sibling'[disk.at]} : x # Missing /\ x.whole
    PROVE  DiskInv'
<1>1. disk \in DiskState
  BY DEF DiskInv, DiskTypes
<1>2. \A t \in Trees : /\ t < disk.at => dest'[t] = TreeOf(disk.run) /\ backup'[t] = Missing /\ sibling'[t] = Missing
                       /\ t > disk.at => dest'[t] = disk.first[t]
  BY <1>1, BesideIsAnother DEF DiskInv, InTurn
<1>3. InTurn'
  BY <1>2 DEF InTurn
<1>4. CommitIsWhole' /\ Restorable' /\ FirstTrees'
  BY DEF DiskInv, CommitIsWhole, DiskAt, Restorable, FirstTrees, Filling
<1>5. ATreeSurvives'
  <2> SUFFICES ASSUME disk.run = 1, NEW t \in Trees, disk.first[t] # Missing
               PROVE  \E x \in {dest'[t], backup'[t], sibling'[t]} : x # Missing /\ x.whole
    BY DEF ATreeSurvives
  <2>1. CASE t = disk.at
    BY <2>1
  <2>2. CASE t # disk.at
    BY <2>2 DEF DiskInv, ATreeSurvives, Filling
  <2> QED
    BY <2>1, <2>2
<1> QED
  BY <1>3, <1>4, <1>5 DEF DiskInv

\* So does a step that fails.
LEMMA StumbleKeeps ==
    ASSUME DiskInv, DiskTypes', UNCHANGED snapshot, disk.pc \in Filling \cup {"committed"}, disk'.pc = "restore",
           disk'.run = disk.run, disk'.first = disk.first, disk.run # 0,
           \A t \in Trees : t # disk.at => /\ dest'[t] = dest[t] /\ sibling'[t] = sibling[t]
                                           /\ backup'[t] = backup[t],
           disk.run = 1 /\ disk.first[disk.at] # Missing =>
               \E x \in {dest'[disk.at], backup'[disk.at], sibling'[disk.at]} : x # Missing /\ x.whole
    PROVE  DiskInv'
<1>1. ASSUME disk.run = 1, NEW t \in Trees, disk.first[t] # Missing
      PROVE  \E x \in {dest'[t], backup'[t], sibling'[t]} : x # Missing /\ x.whole
  <2>1. CASE t = disk.at
    BY <1>1, <2>1
  <2>2. CASE t # disk.at
    BY <1>1, <2>2 DEF DiskInv, ATreeSurvives, Filling
  <2> QED
    BY <2>1, <2>2
<1> QED
  BY <1>1, FailureKeeps

LEMMA MoveToSiblingKeeps == ASSUME DiskInv, MoveToSibling PROVE DiskInv'
<1>1. /\ disk.pc = "sibling" /\ UNCHANGED <<dest, backup, snapshot>> /\ disk \in DiskState /\ disk.at \in Trees
      /\ dest[disk.at] = disk.first[disk.at] /\ backup[disk.at] = Missing /\ DiskTypes /\ disk.run # 0
      /\ disk.run \in 0..MaxDiskRuns
  BY DEF MoveToSibling, DiskAt, DiskInv, DiskTypes, DiskState, InTurn, FirstTrees
<1>2. /\ \A v \in {TreeOf(disk.run), Torn(TreeOf(disk.run))} :
             /\ SetAt(sibling, v) \in [Trees -> DiskContents] /\ SetAt(sibling, v)[disk.at] = v
             /\ \A t \in Trees : t # disk.at => SetAt(sibling, v)[t] = sibling[t]
  <2>1. TreeOf(disk.run) \in DiskContents /\ Torn(TreeOf(disk.run)) \in DiskContents
    BY <1>1, TreeFacts
  <2>2. sibling \in [Trees -> DiskContents]
    BY <1>1 DEF DiskTypes
  <2> QED
    BY <1>1, <2>1, <2>2, SetAtFacts
<1>3. disk.run = 1 /\ disk.first[disk.at] # Missing => dest[disk.at] # Missing /\ dest[disk.at].whole
  BY <1>1, StandsForFirst
<1>4. CASE sibling' = SetAt(sibling, TreeOf(disk.run)) /\ DiskGoes("displace")
  <2>1. /\ disk' \in DiskState /\ disk'.pc = "displace" /\ disk'.run = disk.run /\ disk'.first = disk.first
        /\ disk'.at = disk.at
    BY <1>1, <1>4, DiskMoves DEF Filling
  <2>2. DiskTypes'
    BY <1>1, <1>2, <1>4, <2>1 DEF DiskTypes
  <2> QED
    BY <1>1, <1>2, <1>3, <1>4, <2>1, <2>2, ForwardKeeps DEF Filling
<1>5. CASE sibling' \in {sibling, SetAt(sibling, Torn(TreeOf(disk.run)))} /\ FailsTo("restore")
  <2>1. disk' \in DiskState /\ disk'.pc = "restore" /\ disk'.run = disk.run /\ disk'.first = disk.first
    BY <1>1, <1>5, DiskMoves
  <2>2. DiskTypes'
    BY <1>1, <1>2, <1>5, <2>1 DEF DiskTypes
  <2> QED
    BY <1>1, <1>2, <1>3, <1>5, <2>1, <2>2, StumbleKeeps DEF Filling
<1> QED
  BY <1>4, <1>5 DEF MoveToSibling

LEMMA DisplaceKeeps == ASSUME DiskInv, DisplaceOld PROVE DiskInv'
<1>1. /\ disk.pc = "displace" /\ UNCHANGED <<sibling, snapshot>> /\ disk \in DiskState /\ disk.at \in Trees
      /\ dest[disk.at] = disk.first[disk.at] /\ sibling[disk.at] = TreeOf(disk.run) /\ DiskTypes
      /\ disk.run # 0 /\ backup[disk.at] = Missing /\ dest[disk.at] \in DiskContents
  BY DEF DisplaceOld, DiskAt, DiskInv, DiskTypes, DiskState, InTurn, FirstTrees
<1>2. disk.run = 1 /\ disk.first[disk.at] # Missing => dest[disk.at] # Missing /\ dest[disk.at].whole
  BY <1>1, StandsForFirst
<1>3. ASSUME NEW moved \in BOOLEAN, disk' = [disk EXCEPT !.pc = "install", !.moved = moved]
      PROVE  /\ disk' \in DiskState /\ disk'.pc = "install" /\ disk'.run = disk.run /\ disk'.first = disk.first
             /\ disk'.at = disk.at /\ disk'.moved = moved
  BY <1>1, <1>3 DEF DiskState, Filling
<1>4. CASE /\ dest[disk.at] = Missing /\ UNCHANGED <<dest, backup>>
           /\ disk' = [disk EXCEPT !.pc = "install", !.moved = FALSE]
  <2>1. /\ disk' \in DiskState /\ disk'.pc = "install" /\ disk'.run = disk.run /\ disk'.first = disk.first
        /\ disk'.at = disk.at /\ disk'.moved = FALSE
    BY <1>3, <1>4
  <2>2. DiskTypes'
    BY <1>1, <1>4, <2>1 DEF DiskTypes
  <2> QED
    BY <1>1, <1>4, <2>1, <2>2, ForwardKeeps DEF Filling
<1>5. CASE /\ backup' = SetAt(backup, dest[disk.at]) /\ dest' = SetAt(dest, Missing)
           /\ disk' = [disk EXCEPT !.pc = "install", !.moved = TRUE]
  <2>1. /\ disk' \in DiskState /\ disk'.pc = "install" /\ disk'.run = disk.run /\ disk'.first = disk.first
        /\ disk'.at = disk.at /\ disk'.moved = TRUE
    BY <1>3, <1>5
  <2>2. /\ backup' \in [Trees -> DiskContents] /\ backup'[disk.at] = dest[disk.at]
        /\ dest' \in [Trees -> DiskContents] /\ dest'[disk.at] = Missing
        /\ \A t \in Trees : t # disk.at => dest'[t] = dest[t] /\ backup'[t] = backup[t]
    <3>1. Missing \in DiskContents /\ dest \in [Trees -> DiskContents] /\ backup \in [Trees -> DiskContents]
      BY <1>1, TreeFacts DEF DiskTypes
    <3>2. /\ backup' \in [Trees -> DiskContents] /\ backup'[disk.at] = dest[disk.at]
          /\ \A t \in Trees : t # disk.at => backup'[t] = backup[t]
      BY <1>1, <1>5, <3>1, SetAtFacts
    <3>3. /\ dest' \in [Trees -> DiskContents] /\ dest'[disk.at] = Missing
          /\ \A t \in Trees : t # disk.at => dest'[t] = dest[t]
      BY <1>1, <1>5, <3>1, SetAtFacts
    <3> QED
      BY <3>2, <3>3
  <2>3. DiskTypes'
    BY <1>1, <2>1, <2>2 DEF DiskTypes
  <2> QED
    BY <1>1, <1>2, <2>1, <2>2, <2>3, ForwardKeeps DEF Filling
<1>6. CASE UNCHANGED <<dest, backup>> /\ FailsTo("restore")
  <2>1. disk' \in DiskState /\ disk'.pc = "restore" /\ disk'.run = disk.run /\ disk'.first = disk.first
    BY <1>1, <1>6, DiskMoves
  <2>2. DiskTypes'
    BY <1>1, <1>6, <2>1 DEF DiskTypes
  <2> QED
    BY <1>1, <1>2, <1>6, <2>1, <2>2, StumbleKeeps DEF Filling
<1> QED
  BY <1>4, <1>5, <1>6 DEF DisplaceOld

LEMMA InstallKeeps == ASSUME DiskInv, InstallNew PROVE DiskInv'
<1>1. /\ disk.pc = "install" /\ UNCHANGED snapshot /\ disk \in DiskState /\ disk.at \in Trees
      /\ dest[disk.at] = Missing /\ sibling[disk.at] = TreeOf(disk.run) /\ DiskTypes
      /\ disk.run # 0 /\ backup[disk.at] \in DiskContents /\ TreeOf(disk.run) \in DiskContents
  BY TreeFacts DEF InstallNew, DiskAt, DiskInv, DiskTypes, DiskState, InTurn, FirstTrees
<1>2. /\ disk.moved = TRUE => backup[disk.at] = disk.first[disk.at]
      /\ disk.moved = FALSE => disk.first[disk.at] = Missing
  BY <1>1 DEF DiskInv, InTurn
<1>3. /\ SetAt(sibling, Missing) \in [Trees -> DiskContents] /\ SetAt(sibling, Missing)[disk.at] = Missing
      /\ \A t \in Trees : t # disk.at => SetAt(sibling, Missing)[t] = sibling[t]
  BY <1>1, SetAtFacts, TreeFacts DEF DiskTypes
<1>4. CASE /\ dest' = SetAt(dest, sibling[disk.at]) /\ sibling' = SetAt(sibling, Missing)
           /\ UNCHANGED backup /\ DiskGoes("drop")
  <2>1. /\ disk' \in DiskState /\ disk'.pc = "drop" /\ disk'.run = disk.run /\ disk'.first = disk.first
        /\ disk'.at = disk.at
    BY <1>1, <1>4, DiskMoves DEF Filling
  <2>2. /\ dest' \in [Trees -> DiskContents] /\ dest'[disk.at] = TreeOf(disk.run)
        /\ \A t \in Trees : t # disk.at => dest'[t] = dest[t]
    <3>1. dest \in [Trees -> DiskContents] /\ dest' = SetAt(dest, TreeOf(disk.run))
      BY <1>1, <1>4 DEF DiskTypes
    <3> QED
      BY <1>1, <3>1, SetAtFacts
  <2>3. DiskTypes'
    BY <1>1, <1>3, <1>4, <2>1, <2>2 DEF DiskTypes
  <2>4. disk.run = 1 /\ disk.first[disk.at] # Missing => dest'[disk.at] # Missing /\ dest'[disk.at].whole
    BY <1>1, <2>2, StandsForFirst
  <2> QED
    BY <1>1, <1>3, <1>4, <2>1, <2>2, <2>3, <2>4, ForwardKeeps DEF Filling
<1>5. CASE /\ \/ disk.moved /\ dest' = SetAt(dest, backup[disk.at]) /\ backup' = SetAt(backup, Missing)
              \/ UNCHANGED <<dest, backup>>
           /\ sibling' \in {sibling, SetAt(sibling, Missing)} /\ FailsTo("restore")
  <2>1. disk' \in DiskState /\ disk'.pc = "restore" /\ disk'.run = disk.run /\ disk'.first = disk.first
    BY <1>1, <1>5, DiskMoves
  <2>2. \A t \in Trees : t # disk.at => sibling'[t] = sibling[t]
    BY <1>3, <1>5
  <2>3. sibling' \in [Trees -> DiskContents]
    BY <1>1, <1>3, <1>5 DEF DiskTypes
  <2>4. CASE disk.moved /\ dest' = SetAt(dest, backup[disk.at]) /\ backup' = SetAt(backup, Missing)
    <3>0. /\ dest \in [Trees -> DiskContents] /\ backup \in [Trees -> DiskContents]
          /\ dest' = SetAt(dest, backup[disk.at]) /\ backup' = SetAt(backup, Missing) /\ Missing \in DiskContents
      BY <1>1, <2>4, TreeFacts DEF DiskTypes
    <3>1. /\ dest' \in [Trees -> DiskContents] /\ dest'[disk.at] = backup[disk.at]
          /\ \A t \in Trees : t # disk.at => dest'[t] = dest[t]
      BY <1>1, <3>0, SetAtFacts
    <3>2. /\ backup' \in [Trees -> DiskContents]
          /\ \A t \in Trees : t # disk.at => backup'[t] = backup[t]
      BY <1>1, <3>0, SetAtFacts
    <3>3. DiskTypes'
      BY <1>1, <2>1, <2>3, <3>1, <3>2 DEF DiskTypes
    <3>4. dest'[disk.at] = disk.first[disk.at]
      BY <1>1, <1>2, <2>4, <3>1 DEF DiskState
    <3>5. disk.run = 1 /\ disk.first[disk.at] # Missing => dest'[disk.at] # Missing /\ dest'[disk.at].whole
      BY <1>1, <3>4, StandsForFirst
    <3> QED
      BY <1>1, <2>1, <2>2, <3>1, <3>2, <3>3, <3>5, StumbleKeeps DEF Filling
  <2>5. CASE UNCHANGED <<dest, backup>>
    <3>1. DiskTypes'
      BY <1>1, <2>1, <2>3, <2>5 DEF DiskTypes
    <3>2. disk.first[disk.at] # Missing => backup[disk.at] = disk.first[disk.at]
      BY <1>1, <1>2 DEF DiskState
    <3>3. disk.run = 1 /\ disk.first[disk.at] # Missing => backup'[disk.at] # Missing /\ backup'[disk.at].whole
      BY <1>1, <2>5, <3>2, StandsForFirst
    <3> QED
      BY <1>1, <2>1, <2>2, <2>5, <3>1, <3>3, StumbleKeeps DEF Filling
  <2> QED
    BY <1>5, <2>4, <2>5
<1> QED
  BY <1>4, <1>5 DEF InstallNew

\* The next tree has not been touched, or all are done.
LEMMA DropKeeps == ASSUME DiskInv, DropBackup PROVE DiskInv'
<1>1. /\ disk.pc = "drop" /\ UNCHANGED <<dest, sibling, snapshot>> /\ disk \in DiskState /\ disk.at \in Trees
      /\ dest[disk.at] = TreeOf(disk.run) /\ sibling[disk.at] = Missing /\ DiskTypes
      /\ disk.run # 0
  BY DEF DropBackup, DiskAt, DiskInv, DiskTypes, DiskState, InTurn, FirstTrees
<1>2. disk.run = 1 /\ disk.first[disk.at] # Missing => dest[disk.at] # Missing /\ dest[disk.at].whole
  BY <1>1, StandsForFirst
<1>3. CASE UNCHANGED backup /\ FailsTo("restore")
  <2>1. disk' \in DiskState /\ disk'.pc = "restore" /\ disk'.run = disk.run /\ disk'.first = disk.first
    BY <1>1, <1>3, DiskMoves
  <2>2. DiskTypes'
    BY <1>1, <1>3, <2>1 DEF DiskTypes
  <2> QED
    BY <1>1, <1>2, <1>3, <2>1, <2>2, StumbleKeeps DEF Filling
<1>4. CASE backup' = SetAt(backup, Missing) /\ disk' = NextTree
  <2>1. /\ backup' \in [Trees -> DiskContents] /\ backup'[disk.at] = Missing
        /\ \A t \in Trees : t # disk.at => backup'[t] = backup[t]
    BY <1>1, <1>4, SetAtFacts, TreeFacts DEF DiskTypes
  <2>2. /\ disk' \in DiskState /\ disk'.run = disk.run /\ disk'.first = disk.first
        /\ \/ disk'.pc = "clear" /\ disk'.at = disk.at + 1
           \/ disk'.pc = "committed" /\ disk.at + 1 \notin Trees
    BY <1>1, <1>4 DEF NextTree, DiskState, Filling
  <2>3. DiskTypes'
    BY <1>1, <2>1, <2>2 DEF DiskTypes
  <2>4. \A t \in Trees : t < disk.at => dest[t] = TreeOf(disk.run) /\ backup[t] = Missing /\ sibling[t] = Missing
    BY <1>1 DEF DiskInv, InTurn, Filling
  <2>5. \A t \in Trees : t > disk.at => dest[t] = disk.first[t]
    BY <1>1 DEF DiskInv, InTurn, Filling
  <2>6. \A t \in Trees : t < disk.at + 1 =>
          dest'[t] = TreeOf(disk.run) /\ backup'[t] = Missing /\ sibling'[t] = Missing
    <3>1. \A t \in Trees : t < disk.at + 1 => t = disk.at \/ (t < disk.at /\ t # disk.at)
      <4>1. disk.at \in Nat
        BY <1>1, TreesAreCounted
      <4> QED
        BY <4>1, TreesAreCounted, SMT
    <3> QED
      BY <1>1, <2>1, <2>4, <3>1
  <2>7. disk.at + 1 \notin Trees => \A t \in Trees : t < disk.at + 1
    <3>1. PICK n \in Nat \ {0} : Trees = 1..n
      BY ArtifactAssumption
    <3> QED
      BY <1>1, <3>1, SMT
  <2>8. CommitIsWhole'
    BY <2>2, <2>6, <2>7 DEF CommitIsWhole, DiskAt
  <2>9. \A t \in Trees : t > disk.at + 1 \/ t = disk.at + 1 => t > disk.at
    <3>1. disk.at \in Nat
      BY <1>1, TreesAreCounted
    <3> QED
      BY <3>1, TreesAreCounted, SMT
  <2>10. InTurn'
    BY <1>1, <2>2, <2>5, <2>6, <2>9 DEF InTurn, Filling, DiskState
  <2>11. Restorable' /\ FirstTrees'
    BY <1>1, <2>2 DEF DiskInv, Restorable, FirstTrees, Filling
  <2>12. ATreeSurvives'
    <3> SUFFICES ASSUME disk.run = 1, NEW t \in Trees, disk.first[t] # Missing
                 PROVE  \E x \in {dest'[t], backup'[t], sibling'[t]} : x # Missing /\ x.whole
      BY <2>2 DEF ATreeSurvives
    <3>1. CASE t = disk.at
      BY <1>1, <1>2, <3>1
    <3>2. CASE t # disk.at
      BY <1>1, <2>1, <3>2 DEF DiskInv, ATreeSurvives
    <3> QED
      BY <3>1, <3>2
  <2> QED
    BY <2>3, <2>8, <2>10, <2>11, <2>12 DEF DiskInv
<1> QED
  BY <1>3, <1>4 DEF DropBackup

LEMMA RestoreKeeps == ASSUME DiskInv, Restore PROVE DiskInv'
<1>1. /\ disk.pc = "restore" /\ UNCHANGED <<sibling, backup, snapshot>> /\ disk \in DiskState /\ DiskTypes
      /\ snapshot = disk.first /\ disk.run # 0
  BY DEF Restore, DiskAt, DiskInv, DiskTypes, Restorable, FirstTrees
<1>2. CASE dest' = snapshot /\ DiskGoes("restored")
  <2>1. disk' \in DiskState /\ disk'.pc = "restored" /\ disk'.run = disk.run /\ disk'.first = disk.first
    BY <1>1, <1>2, DiskMoves
  <2>2. DiskTypes'
    BY <1>1, <1>2, <2>1 DEF DiskTypes
  <2>3. InTurn' /\ CommitIsWhole' /\ Restorable' /\ FirstTrees'
    BY <1>1, <1>2, <2>1 DEF InTurn, CommitIsWhole, DiskAt, DiskInv, Restorable, FirstTrees, Filling
  <2>4. ATreeSurvives'
    BY <1>1, <1>2, <2>1, StandsForFirst DEF ATreeSurvives
  <2> QED
    BY <2>2, <2>3, <2>4 DEF DiskInv
<1>3. ASSUME NEW t \in Trees, NEW torn \in {dest[t], Missing, Torn(snapshot[t])}, FailsTo("torn"),
             dest' = [u \in Trees |-> IF u < t THEN snapshot[u]
                                       ELSE IF u = t /\ snapshot[t] # Missing THEN torn ELSE dest[u]]
      PROVE  DiskInv'
  <2>1. disk' \in DiskState /\ disk'.pc = "torn" /\ disk'.run = disk.run /\ disk'.first = disk.first
    BY <1>1, <1>3, DiskMoves
  <2>2. torn \in DiskContents
    <3>1. dest[t] \in DiskContents /\ snapshot[t] \in DiskContents
      BY <1>1 DEF DiskTypes
    <3>2. Torn(snapshot[t]) \in DiskContents
      BY <3>1 DEF Torn, DiskContents
    <3> QED
      BY <1>3, <3>1, <3>2, TreeFacts
  <2>3. dest' \in [Trees -> DiskContents]
    BY <1>1, <1>3, <2>2 DEF DiskTypes
  <2>4. DiskTypes'
    BY <1>1, <2>1, <2>3 DEF DiskTypes
  <2> QED
    BY <1>1, <2>1, <2>4 DEF DiskInv, InTurn, CommitIsWhole, DiskAt, Restorable, FirstTrees, ATreeSurvives, Filling
<1> QED
  BY <1>2, <1>3 DEF Restore

\* A run that ends, succeeds too late or is killed leaves the checkout as it is.
LEMMA EndingKeeps ==
    ASSUME DiskInv, RunEnds \/ LaterStageFails \/ FailedEnds \/ KillWriter
    PROVE  DiskInv'
<1>1. UNCHANGED <<dest, sibling, backup>> /\ disk \in DiskState /\ DiskTypes
  BY DEF RunEnds, LaterStageFails, FailedEnds, KillWriter, DiskInv, DiskTypes
<1>2. /\ disk' \in DiskState /\ disk'.run = disk.run /\ disk'.first = disk.first /\ disk.pc \notin {"idle", "torn"}
      /\ disk'.pc = "idle" \/ (disk'.pc = "restore" /\ disk.pc = "committed" /\ UNCHANGED snapshot)
  <2>1. CASE RunEnds \/ LaterStageFails \/ FailedEnds
    BY <1>1, <2>1, DiskMoves DEF RunEnds, LaterStageFails, FailedEnds, DiskAt
  <2>2. CASE KillWriter
    <3>1. FailsTo("idle")
      BY <2>2 DEF KillWriter, FailsTo
    <3>2. disk.pc \notin {"idle", "torn"}
      BY <2>2 DEF KillWriter
    <3> QED
      BY <1>1, <3>1, <3>2, DiskMoves
  <2> QED
    BY <2>1, <2>2
<1>3. snapshot' \in [Trees -> DiskContents]
  BY <1>1, TreeFacts DEF RunEnds, LaterStageFails, FailedEnds, KillWriter, DiskTypes
<1>4. DiskTypes'
  BY <1>1, <1>2, <1>3 DEF DiskTypes
<1>5. InTurn' /\ CommitIsWhole' /\ Restorable' /\ FirstTrees'
  BY <1>1, <1>2 DEF DiskInv, InTurn, CommitIsWhole, DiskAt, Restorable, FirstTrees, Filling
<1>6. ATreeSurvives'
  BY <1>1, <1>2 DEF DiskInv, ATreeSurvives
<1> QED
  BY <1>4, <1>5, <1>6 DEF DiskInv

LEMMA DiskStepKeeps == ASSUME DiskInv, [ArtifactNext]_artifactVars PROVE DiskInv'
<1>1. CASE UNCHANGED artifactVars
  BY <1>1 DEF artifactVars, DiskInv, DiskTypes, InTurn, CommitIsWhole, DiskAt, Restorable, FirstTrees, ATreeSurvives
<1> QED
  BY <1>1, MaterializeKeeps, RemoveLeftoversKeeps, MoveToSiblingKeeps, DisplaceKeeps, InstallKeeps, DropKeeps,
     RestoreKeeps, EndingKeeps DEF ArtifactNext

\* A destination that was whole when the run began is not seen torn before the
\* restore: what is put in its place is complete.
LEMMA StepsNeverTear == ASSUME DiskInv, DiskInv', ArtifactNext PROVE NeverTorn
<1> SUFFICES ASSUME NEW t \in Trees, disk.first[t].whole, dest[t].whole, ~ dest'[t].whole
             PROVE  DiskAt("restore")
  BY DEF NeverTorn
<1>1. dest' # dest
  OBVIOUS
<1>2. Restore \/ DisplaceOld \/ InstallNew
  BY <1>1 DEF ArtifactNext, Materialize, RemoveLeftovers, MoveToSibling, DropBackup, RunEnds, LaterStageFails,
              FailedEnds, KillWriter
<1>3. disk \in DiskState /\ dest \in [Trees -> DiskContents] /\ disk.run \in 0..MaxDiskRuns
      /\ backup \in [Trees -> DiskContents] /\ sibling \in [Trees -> DiskContents] /\ disk.at \in Trees
  BY DEF DiskInv, DiskTypes, DiskState
<1>4. CASE Restore
  BY <1>4 DEF Restore
<1>5. CASE DisplaceOld
  <2>1. dest' = SetAt(dest, Missing)
    BY <1>1, <1>5 DEF DisplaceOld
  <2>2. Missing \in DiskContents
    BY TreeFacts
  <2>3. /\ SetAt(dest, Missing)[disk.at] = Missing
        /\ \A u \in Trees : u # disk.at => SetAt(dest, Missing)[u] = dest[u]
    BY <1>3, <2>2, SetAtFacts
  <2>4. CASE t = disk.at
    BY <2>1, <2>3, <2>4, TreeFacts
  <2>5. CASE t # disk.at
    BY <2>1, <2>3, <2>5
  <2> QED
    BY <2>4, <2>5
<1>6. CASE InstallNew
  <2>1. disk.pc = "install"
    BY <1>6 DEF InstallNew, DiskAt
  <2>2. sibling[disk.at] = TreeOf(disk.run) /\ (disk.moved = TRUE => backup[disk.at] = disk.first[disk.at])
    BY <2>1 DEF DiskInv, InTurn
  <2>3. \/ dest' = SetAt(dest, sibling[disk.at])
        \/ disk.moved = TRUE /\ dest' = SetAt(dest, backup[disk.at])
    BY <1>1, <1>6 DEF InstallNew
  <2>4. sibling[disk.at] \in DiskContents /\ backup[disk.at] \in DiskContents
    BY <1>3
  <2>5. \A v \in DiskContents : /\ SetAt(dest, v)[disk.at] = v
                                /\ \A u \in Trees : u # disk.at => SetAt(dest, v)[u] = dest[u]
    BY <1>3, SetAtFacts
  <2>6. CASE t # disk.at
    BY <2>3, <2>4, <2>5, <2>6
  <2>7. CASE t = disk.at
    <3>1. dest'[t] = TreeOf(disk.run) \/ dest'[t] = disk.first[t]
      <4>1. CASE dest' = SetAt(dest, sibling[disk.at])
        BY <2>2, <2>4, <2>5, <2>7, <4>1
      <4>2. CASE disk.moved = TRUE /\ dest' = SetAt(dest, backup[disk.at])
        BY <2>2, <2>4, <2>5, <2>7, <4>2
      <4> QED
        BY <2>3, <4>1, <4>2
    <3> QED
      BY <1>3, <3>1, TreeFacts
  <2> QED
    BY <2>6, <2>7
<1> QED
  BY <1>2, <1>4, <1>5, <1>6

LEMMA DiskInvImplies == ASSUME DiskInv PROVE ArtifactTypeOK /\ FailureRestores /\ CommitIsWhole /\ ATreeSurvives
BY DEF DiskInv, DiskTypes, DiskState, ArtifactTypeOK, Restorable, FailureRestores, DiskAt

\* materializeLocalCollectionArtifacts and writeTreeAtomic, for any number of
\* destinations, runs and failing or fatal file operations: a failed run gives every
\* destination back what it held, a successful one replaced them all and left
\* nothing beside them, the first run loses no tree wherever it is killed, and only
\* an interrupted restore leaves a torn one.
THEOREM InstallsSafe == ArtifactSpec => InstallIsSafe
<1>1. ArtifactInit => DiskInv
  <2> SUFFICES ASSUME ArtifactInit PROVE DiskInv
    OBVIOUS
  <2>1. 0 \in 0..MaxDiskRuns /\ 0 \in 0..MaxDiskFaults
    BY ArtifactAssumption, SMT
  <2>2. TreeOf(0) \in DiskContents
    BY <2>1, TreeFacts
  <2>3. dest \in [Trees -> DiskContents]
    BY <2>2, TreeFacts DEF ArtifactInit
  <2>4. DiskTypes
    BY <2>1, <2>3, TreeFacts, TreesAreCounted DEF ArtifactInit, DiskTypes, DiskState
  <2> QED
    BY <2>4 DEF ArtifactInit, DiskInv, InTurn, CommitIsWhole, DiskAt, Restorable, FirstTrees, ATreeSurvives, Filling
<1>2. DiskInv /\ [ArtifactNext]_artifactVars => DiskInv'
  BY DiskStepKeeps
<1>3. DiskInv /\ DiskInv' /\ [ArtifactNext]_artifactVars =>
        [ArtifactTypeOK' /\ FailureRestores' /\ CommitIsWhole' /\ ATreeSurvives' /\ NeverTorn]_artifactVars
  <2> SUFFICES ASSUME DiskInv, DiskInv', ArtifactNext
               PROVE  ArtifactTypeOK' /\ FailureRestores' /\ CommitIsWhole' /\ ATreeSurvives' /\ NeverTorn
    BY DEF artifactVars
  <2>1. ArtifactTypeOK' /\ FailureRestores' /\ CommitIsWhole' /\ ATreeSurvives'
    BY DiskInvImplies, PTL
  <2> QED
    BY <2>1, StepsNeverTear
<1> QED
  BY <1>1, <1>2, <1>3, PTL DEF ArtifactSpec, InstallIsSafe

-----------------------------------------------------------------------------
(* A definition and what it refers to                                      *)

\* What a set of documents refers to within D, added to it.
Grown(links, D, S) == S \cup UNION {ToSet(links[d]) \cap D : d \in S}
ClosedIn(S, links, D) == \A d \in S : ToSet(links[d]) \cap D \subseteq S

\* Within, with the root and the references of a load as parameters.
Reach(root, links, n, D) ==
    LET reach[k \in 0..n] ==
            IF k = 0 THEN {root}
            ELSE reach[k-1] \cup UNION {ToSet(links[d]) \cap D : d \in reach[k-1]}
    IN  reach[n]
IsReach(f, root, links, n, D) ==
    f = [k \in 0..n |-> IF k = 0 THEN {root}
                        ELSE f[k-1] \cup UNION {ToSet(links[d]) \cap D : d \in f[k-1]}]

LEMMA ReachExists ==
    ASSUME NEW root, NEW links, NEW D, NEW n \in Nat
    PROVE  \E f : IsReach(f, root, links, n, D)
<1> DEFINE B == {k \in Nat : ~ \E f : IsReach(f, root, links, k, D)}
<1> SUFFICES ASSUME B # {} PROVE FALSE
  OBVIOUS
<1>1. PICK k \in B : \A j \in B : k <= j
  BY LeastNat
<1>2. k # 0
  <2> DEFINE f == [j \in 0..0 |-> {root}]
  <2>1. IsReach(f, root, links, 0, D)
    BY DEF IsReach
  <2> QED
    BY <2>1
<1>3. k-1 \in Nat /\ k-1 \notin B
  BY <1>1, <1>2
<1>4. PICK f : IsReach(f, root, links, k-1, D)
  BY <1>3
<1> DEFINE g == [j \in 0..k |-> IF j < k THEN f[j] ELSE Grown(links, D, f[k-1])]
<1>5. \A j \in 0..k : g[j] = IF j = 0 THEN {root} ELSE Grown(links, D, g[j-1])
  <2>1. \A j \in 0..k-1 : f[j] = IF j = 0 THEN {root} ELSE Grown(links, D, f[j-1])
    BY <1>4 DEF IsReach, Grown
  <2> SUFFICES ASSUME NEW j \in 0..k PROVE g[j] = IF j = 0 THEN {root} ELSE Grown(links, D, g[j-1])
    OBVIOUS
  <2>2. CASE j = k
    <3>1. g[j] = Grown(links, D, f[k-1]) /\ g[k-1] = f[k-1]
      BY <1>2, <2>2
    <3> QED
      BY <3>1, <2>2, <1>2
  <2>3. CASE j # k /\ j = 0
    BY <2>3, <2>1, <1>2
  <2>4. CASE j # k /\ j # 0
    <3>1. j \in 0..k-1 /\ j-1 \in 0..k /\ j < k /\ j-1 < k
      BY <2>4
    <3>2. g[j] = f[j] /\ g[j-1] = f[j-1]
      BY <3>1
    <3> QED
      BY <3>1, <3>2, <2>1, <2>4
  <2> QED
    BY <2>2, <2>3, <2>4
<1>6. IsReach(g, root, links, k, D)
  <2> HIDE DEF g
  <2>1. g = [j \in 0..k |-> g[j]]
    BY DEF g
  <2> QED
    BY <2>1, <1>5 DEF IsReach, Grown
<1> QED
  BY <1>6

LEMMA ReachSame ==
    ASSUME NEW root, NEW links, NEW D, NEW n \in Nat, NEW m \in Nat, NEW f, NEW g,
           IsReach(f, root, links, n, D), IsReach(g, root, links, m, D),
           NEW k \in Nat, k <= n, k <= m
    PROVE  f[k] = g[k]
<1> DEFINE B == {j \in Nat : j <= n /\ j <= m /\ f[j] # g[j]}
<1> SUFFICES ASSUME B # {} PROVE FALSE
  OBVIOUS
<1>1. PICK j \in B : \A i \in B : j <= i
  BY LeastNat
<1>2. /\ f[j] = IF j = 0 THEN {root} ELSE Grown(links, D, f[j-1])
      /\ g[j] = IF j = 0 THEN {root} ELSE Grown(links, D, g[j-1])
  <2>1. j \in 0..n /\ j \in 0..m
    BY <1>1
  <2> QED
    BY <2>1 DEF IsReach, Grown
<1>3. CASE j = 0
  BY <1>1, <1>2, <1>3
<1>4. CASE j # 0
  <2>1. j-1 \in Nat /\ j-1 <= n /\ j-1 <= m /\ j-1 \notin B
    BY <1>1, <1>4
  <2>2. f[j-1] = g[j-1]
    BY <2>1
  <2> QED
    BY <2>2, <1>1, <1>2, <1>4
<1> QED
  BY <1>3, <1>4

LEMMA ReachIs ==
    ASSUME NEW root, NEW links, NEW D, NEW n \in Nat
    PROVE  \E f : IsReach(f, root, links, n, D) /\ Reach(root, links, n, D) = f[n]
<1> DEFINE f == CHOOSE f : IsReach(f, root, links, n, D)
<1>1. IsReach(f, root, links, n, D)
  BY ReachExists
<1>2. Reach(root, links, n, D) = f[n]
  BY DEF Reach, IsReach
<1> QED
  BY <1>1, <1>2

\* Within is what its recursion says.
LEMMA ReachSteps ==
    ASSUME NEW root, NEW links, NEW D
    PROVE  /\ Reach(root, links, 0, D) = {root}
           /\ \A n \in Nat : Reach(root, links, n+1, D) = Grown(links, D, Reach(root, links, n, D))
<1>1. Reach(root, links, 0, D) = {root}
  <2>1. PICK f : IsReach(f, root, links, 0, D) /\ Reach(root, links, 0, D) = f[0]
    BY ReachIs
  <2> QED
    BY <2>1 DEF IsReach
<1>2. ASSUME NEW n \in Nat
      PROVE  Reach(root, links, n+1, D) = Grown(links, D, Reach(root, links, n, D))
  <2>1. PICK f : IsReach(f, root, links, n+1, D) /\ Reach(root, links, n+1, D) = f[n+1]
    BY ReachIs
  <2>2. PICK g : IsReach(g, root, links, n, D) /\ Reach(root, links, n, D) = g[n]
    BY ReachIs
  <2>3. f[n] = g[n]
    BY <2>1, <2>2, ReachSame
  <2>4. f[n+1] = Grown(links, D, f[n])
    <3>1. n+1 \in 0..(n+1) /\ n+1 # 0 /\ (n+1)-1 = n
      OBVIOUS
    <3>2. f = [k \in 0..(n+1) |-> IF k = 0 THEN {root}
                        ELSE f[k-1] \cup UNION {ToSet(links[d]) \cap D : d \in f[k-1]}]
      BY <2>1 DEF IsReach
    <3>3. f[n+1] = f[n] \cup UNION {ToSet(links[d]) \cap D : d \in f[n]}
      BY <3>1, <3>2, Zenon
    <3> QED
      BY <3>3 DEF Grown
  <2> QED
    BY <2>1, <2>2, <2>3, <2>4
<1> QED
  BY <1>1, <1>2

LEMMA ReachGrows ==
    ASSUME NEW root, NEW links, NEW D, NEW j \in Nat, NEW n \in Nat, j <= n
    PROVE  Reach(root, links, j, D) \subseteq Reach(root, links, n, D)
<1> DEFINE R(k) == Reach(root, links, k, D)
           B == {k \in Nat : j <= k /\ ~ (R(j) \subseteq R(k))}
<1>1. \A k \in Nat : R(k+1) = Grown(links, D, R(k))
  BY ReachSteps
<1> HIDE DEF R
<1> SUFFICES ASSUME B # {} PROVE FALSE
  BY DEF R
<1>2. PICK k \in B : \A i \in B : k <= i
  BY LeastNat
<1>3. k-1 \in Nat /\ j <= k-1 /\ k-1 < k /\ (k-1)+1 = k
  <2>1. k # j
    BY <1>2
  <2> QED
    BY <2>1, <1>2
<1>4. R(j) \subseteq R(k-1)
  BY <1>2, <1>3
<1>5. R(k-1) \subseteq R((k-1)+1)
  BY <1>1, <1>3 DEF Grown
<1> QED
  BY <1>2, <1>3, <1>4, <1>5

LEMMA ReachRests ==
    ASSUME NEW root, NEW links, NEW D, NEW S, root \in S, ClosedIn(S, links, D), NEW n \in Nat
    PROVE  Reach(root, links, n, D) \subseteq S
<1> DEFINE R(k) == Reach(root, links, k, D)
           B == {k \in Nat : ~ (R(k) \subseteq S)}
<1>1. R(0) = {root} /\ \A k \in Nat : R(k+1) = Grown(links, D, R(k))
  BY ReachSteps
<1> HIDE DEF R
<1> SUFFICES ASSUME B # {} PROVE FALSE
  BY DEF R
<1>2. PICK k \in B : \A i \in B : k <= i
  BY LeastNat
<1>3. k # 0
  BY <1>1, <1>2
<1>4. k-1 \in Nat /\ k-1 \notin B /\ (k-1)+1 = k
  BY <1>2, <1>3
<1>5. R(k-1) \subseteq S /\ R(k) = Grown(links, D, R(k-1))
  BY <1>1, <1>4
<1>6. R(k) \subseteq S
  BY <1>5 DEF Grown, ClosedIn
<1> QED
  BY <1>2, <1>6

\* As many steps as there are documents reach all that can be reached.
LEMMA ReachCloses ==
    ASSUME NEW Docs, IsFiniteSet(Docs), NEW root \in Docs, NEW links, NEW D, ClosedIn(Docs, links, D)
    PROVE  ClosedIn(Reach(root, links, Cardinality(Docs), D), links, D)
<1> DEFINE R(k) == Reach(root, links, k, D)
           N == Cardinality(Docs)
           B == {n \in Nat : n <= N+1 /\ Cardinality(R(n)) < n+1}
<1>1. N \in Nat
  BY FS_CardinalityType
<1>2. R(0) = {root} /\ \A k \in Nat : R(k+1) = Grown(links, D, R(k))
  BY ReachSteps
<1>3. ASSUME NEW k \in Nat
      PROVE  /\ R(k) \subseteq Docs /\ IsFiniteSet(R(k)) /\ Cardinality(R(k)) \in Nat
             /\ Cardinality(R(k)) <= N
  <2>1. R(k) \in SUBSET Docs
    BY ReachRests
  <2> QED
    BY <2>1, FS_Subset, FS_CardinalityType
<1>4. ASSUME NEW j \in Nat, NEW k \in Nat, j <= k PROVE R(j) \subseteq R(k)
  BY <1>4, ReachGrows
<1>5. \A k \in Nat : ClosedIn(R(k), links, D) => \A j \in Nat : R(j) \subseteq R(k)
  <2> SUFFICES ASSUME NEW k \in Nat, ClosedIn(R(k), links, D), NEW j \in Nat PROVE R(j) \subseteq R(k)
    OBVIOUS
  <2>1. root \in R(k)
    <3>1. R(0) \subseteq R(k)
      BY <1>4
    <3> QED
      BY <3>1, <1>2
  <2> QED
    BY <2>1, ReachRests
<1> HIDE DEF R, N
<1>6. \E k \in 0..N : R(k+1) = R(k)
  <2> SUFFICES ASSUME \A k \in 0..N : R(k+1) # R(k) PROVE FALSE
    OBVIOUS
  <2>1. N+1 \in B
    <3>1. Cardinality(R(N+1)) <= N /\ Cardinality(R(N+1)) \in Nat
      BY <1>1, <1>3
    <3> QED
      BY <3>1, <1>1
  <2>2. PICK n \in B : \A i \in B : n <= i
    BY <2>1, LeastNat
  <2>3. n \in Nat /\ n <= N+1 /\ Cardinality(R(n)) < n+1
    BY <2>2
  <2>4. n # 0
    <3>1. Cardinality(R(0)) = 1
      BY <1>2, FS_Singleton
    <3> QED
      BY <3>1, <2>3
  <2>5. n-1 \in Nat /\ n-1 \in 0..N /\ (n-1)+1 = n /\ n-1 \notin B
    BY <2>2, <2>3, <2>4, <1>1
  <2>6. Cardinality(R(n-1)) >= n
    <3>1. Cardinality(R(n-1)) \in Nat /\ ~ (Cardinality(R(n-1)) < (n-1)+1)
      BY <2>5, <1>3, <1>1
    <3> QED
      BY <3>1, <2>3, <2>5
  <2>7. R(n-1) \subseteq R(n) /\ R(n) # R(n-1)
    BY <2>3, <2>5, <1>4
  <2>8. Cardinality(R(n-1)) <= Cardinality(R(n)) /\ Cardinality(R(n-1)) # Cardinality(R(n))
    <3>1. IsFiniteSet(R(n)) /\ R(n-1) \in SUBSET R(n)
      BY <2>3, <2>7, <1>3
    <3> QED
      BY <3>1, <2>7, FS_Subset
  <2>9. Cardinality(R(n-1)) \in Nat /\ Cardinality(R(n)) \in Nat
    BY <2>3, <2>5, <1>3
  <2> QED
    BY <2>3, <2>6, <2>8, <2>9
<1>7. PICK k \in 0..N : R(k+1) = R(k)
  BY <1>6
<1>8. k \in Nat /\ k <= N
  BY <1>1, <1>7
<1>9. ClosedIn(R(k), links, D)
  <2>1. Grown(links, D, R(k)) = R(k)
    BY <1>2, <1>7, <1>8
  <2> QED
    BY <2>1 DEF Grown, ClosedIn
<1>10. R(N) = R(k)
  <2>1. R(N) \subseteq R(k)
    BY <1>1, <1>3, <1>5, <1>8, <1>9
  <2>2. R(k) \subseteq R(N)
    BY <1>1, <1>4, <1>8
  <2> QED
    BY <2>1, <2>2
<1> QED
  BY <1>9, <1>10 DEF R, N

LEMMA LoadLimits ==
    /\ IsFiniteSet(Documents) /\ LocalDocuments \subseteq Documents
    /\ MaxDepth \in Nat /\ MaxFiles \in Nat /\ MaxReferences \in Nat
    /\ MaxFiles > 0 /\ FetchAttempts \in Nat \ {0}
  BY ClosureAssumption

LEMMA LoadInputs ==
    ASSUME NEW l \in Loads
    PROVE  /\ l.root \in Documents /\ l.links \in [Documents -> Seq(Documents)]
           /\ \A d \in Documents : l.links[d] \in Seq(Documents)
  BY ClosureAssumption

LEMMA FirstAndRest ==
    ASSUME NEW S, NEW s \in Seq(S), s # <<>>
    PROVE  /\ Head(s) \in S /\ Tail(s) \in Seq(S) /\ Len(s) \in Nat \ {0}
           /\ ToSet(s) = {Head(s)} \cup ToSet(Tail(s))
           /\ Head(s) = s[1] /\ \A k \in DOMAIN Tail(s) : k+1 \in DOMAIN s /\ Tail(s)[k] = s[k+1]
<1>1. /\ Len(s) \in Nat \ {0} /\ DOMAIN s = 1..Len(s) /\ Head(s) = s[1] /\ Tail(s) \in Seq(S)
      /\ DOMAIN Tail(s) = 1..(Len(s)-1) /\ \A k \in 1..(Len(s)-1) : Tail(s)[k] = s[k+1]
  OBVIOUS
<1>2. ToSet(s) = {Head(s)} \cup ToSet(Tail(s))
  <2>1. ASSUME NEW x \in ToSet(s) PROVE x \in {Head(s)} \cup ToSet(Tail(s))
    <3>1. PICK k \in 1..Len(s) : s[k] = x
      BY <1>1, <2>1 DEF ToSet
    <3>2. k # 1 => k-1 \in 1..(Len(s)-1) /\ (k-1)+1 = k
      BY <1>1, <3>1
    <3> QED
      BY <1>1, <3>1, <3>2 DEF ToSet
  <2>2. ASSUME NEW x \in ToSet(Tail(s)) PROVE x \in ToSet(s)
    <3>1. PICK k \in 1..(Len(s)-1) : s[k+1] = x
      BY <1>1, <2>2 DEF ToSet
    <3>2. k+1 \in 1..Len(s)
      BY <1>1, <3>1
    <3> QED
      BY <1>1, <3>1, <3>2 DEF ToSet
  <2>3. Head(s) \in ToSet(s)
    <3>1. 1 \in 1..Len(s)
      BY <1>1
    <3> QED
      BY <1>1, <3>1 DEF ToSet
  <2> QED
    BY <2>1, <2>2, <2>3
<1>3. Head(s) \in S
  BY <1>1
<1>4. \A k \in 1..(Len(s)-1) : k+1 \in 1..Len(s)
  BY <1>1
<1> QED
  BY <1>1, <1>2, <1>3, <1>4

LEMMA OneMore ==
    ASSUME NEW S, NEW s \in Seq(S), NEW x \in S
    PROVE  /\ Append(s, x) \in Seq(S) /\ Len(Append(s, x)) = Len(s)+1 /\ Len(s) \in Nat
           /\ DOMAIN s = 1..Len(s) /\ DOMAIN Append(s, x) = 1..(Len(s)+1)
           /\ \A k \in 1..Len(s) : Append(s, x)[k] = s[k]
           /\ Append(s, x)[Len(s)+1] = x /\ Append(s, x) # <<>>
           /\ ToSet(Append(s, x)) = ToSet(s) \cup {x}
<1>1. /\ Append(s, x) \in Seq(S) /\ Len(Append(s, x)) = Len(s)+1 /\ Len(s) \in Nat
      /\ DOMAIN s = 1..Len(s) /\ DOMAIN Append(s, x) = 1..(Len(s)+1)
      /\ \A k \in 1..Len(s) : Append(s, x)[k] = s[k]
      /\ Append(s, x)[Len(s)+1] = x /\ Append(s, x) # <<>>
  OBVIOUS
<1> DEFINE t == Append(s, x)
<1> HIDE DEF t
<1>2. ToSet(t) = ToSet(s) \cup {x}
  <2>1. DOMAIN s = 1..Len(s) /\ DOMAIN t = 1..(Len(s)+1) /\ t[Len(s)+1] = x
        /\ \A k \in 1..Len(s) : t[k] = s[k]
    BY <1>1 DEF t
  <2>2. \A k \in 1..(Len(s)+1) : k \in 1..Len(s) \/ k = Len(s)+1
    BY <1>1
  <2>3. Len(s)+1 \in 1..(Len(s)+1) /\ \A k \in 1..Len(s) : k \in 1..(Len(s)+1)
    BY <1>1
  <2> QED
    BY <2>1, <2>2, <2>3 DEF ToSet
<1> QED
  BY <1>1, <1>2 DEF t

LEMMA AllButLast ==
    ASSUME NEW S, NEW s \in Seq(S), s # <<>>
    PROVE  /\ Front(s) \in Seq(S) /\ Len(s) \in Nat \ {0} /\ DOMAIN s = 1..Len(s)
           /\ DOMAIN Front(s) = 1..(Len(s)-1)
           /\ \A k \in 1..(Len(s)-1) : Front(s)[k] = s[k]
           /\ s[Len(s)] \in S
  BY DEF Front

\* The documents within n references of the root: through local ones, and through any.
Near(l, n) == Reach(l.root, l.links, n, LocalDocuments)
Along(l, n) == Reach(l.root, l.links, n, Documents)
Steps == Cardinality(Documents)

LEMMA WithinIs ==
    \A n : Within(n, LocalDocuments) = Near(load, n) /\ Within(n, Documents) = Along(load, n)
  BY DEF Within, Near, Along, Reach

LEMMA NearFacts ==
    ASSUME NEW l \in Loads
    PROVE  /\ Near(l, 0) = {l.root}
           /\ \A n \in Nat : Near(l, n+1) = Grown(l.links, LocalDocuments, Near(l, n))
           /\ \A j, n \in Nat : j <= n => Near(l, j) \subseteq Near(l, n)
           /\ \A S : l.root \in S /\ ClosedIn(S, l.links, LocalDocuments) => \A n \in Nat : Near(l, n) \subseteq S
           /\ Steps \in Nat /\ \A n \in Nat : Near(l, n) \subseteq Near(l, Steps)
<1>1. /\ Near(l, 0) = {l.root}
      /\ \A n \in Nat : Near(l, n+1) = Grown(l.links, LocalDocuments, Near(l, n))
  BY ReachSteps DEF Near
<1>2. \A j, n \in Nat : j <= n => Near(l, j) \subseteq Near(l, n)
  BY ReachGrows DEF Near
<1>3. \A S : l.root \in S /\ ClosedIn(S, l.links, LocalDocuments) => \A n \in Nat : Near(l, n) \subseteq S
  BY ReachRests DEF Near
<1>4. Steps \in Nat
  BY LoadLimits, FS_CardinalityType DEF Steps
<1>5. ClosedIn(Near(l, Steps), l.links, LocalDocuments)
  <2>1. ClosedIn(Documents, l.links, LocalDocuments)
    BY LoadLimits DEF ClosedIn
  <2> QED
    BY <2>1, LoadLimits, LoadInputs, ReachCloses DEF Near, Steps
<1>6. l.root \in Near(l, Steps)
  BY <1>1, <1>2, <1>4
<1> QED
  BY <1>1, <1>2, <1>3, <1>4, <1>5, <1>6

LEMMA AlongFacts ==
    ASSUME NEW l \in Loads
    PROVE  /\ Along(l, 0) = {l.root}
           /\ \A n \in Nat : Along(l, n+1) = Grown(l.links, Documents, Along(l, n))
           /\ \A j, n \in Nat : j <= n => Along(l, j) \subseteq Along(l, n)
           /\ \A S : l.root \in S /\ ClosedIn(S, l.links, Documents) => \A n \in Nat : Along(l, n) \subseteq S
           /\ Steps \in Nat /\ \A n \in Nat : Along(l, n) \subseteq Along(l, Steps)
<1>1. /\ Along(l, 0) = {l.root}
      /\ \A n \in Nat : Along(l, n+1) = Grown(l.links, Documents, Along(l, n))
  BY ReachSteps DEF Along
<1>2. \A j, n \in Nat : j <= n => Along(l, j) \subseteq Along(l, n)
  BY ReachGrows DEF Along
<1>3. \A S : l.root \in S /\ ClosedIn(S, l.links, Documents) => \A n \in Nat : Along(l, n) \subseteq S
  BY ReachRests DEF Along
<1>4. Steps \in Nat
  BY LoadLimits, FS_CardinalityType DEF Steps
<1>5. ClosedIn(Along(l, Steps), l.links, Documents)
  <2>1. ClosedIn(Documents, l.links, Documents)
    BY DEF ClosedIn
  <2> QED
    BY <2>1, LoadLimits, LoadInputs, ReachCloses DEF Along, Steps
<1>6. l.root \in Along(l, Steps)
  BY <1>1, <1>2, <1>4
<1> QED
  BY <1>1, <1>2, <1>3, <1>4, <1>5, <1>6

\* A reference leads at most one further.
LEMMA NearNext ==
    ASSUME NEW l \in Loads, NEW n \in Nat, NEW d \in Near(l, n), NEW e \in LocalDocuments, e \in ToSet(l.links[d])
    PROVE  e \in Near(l, n+1)
  BY NearFacts DEF Grown
LEMMA AlongNext ==
    ASSUME NEW l \in Loads, NEW n \in Nat, NEW d \in Along(l, n), NEW e \in Documents, e \in ToSet(l.links[d])
    PROVE  e \in Along(l, n+1)
  BY AlongFacts DEF Grown

Reasons == {"none", "inventory", "depth", "read", "count", "path", "closure", "limit", "fetch"}
LoadStages == {"inventory", "acquire", "walk", "fetch", "done", "failed"}

LoadTypes ==
    /\ load \in Loads /\ members \in [Documents -> -1..(MaxDepth + 1)]
    /\ queue \in Seq(Documents) /\ ToSet(queue) \subseteq Acquired
    /\ trail \in Seq([document : Documents, left : Seq(Documents)])
    /\ \A i \in DOMAIN trail : trail[i].document \in visited
    /\ visited \subseteq Documents /\ fetches \in Nat
    /\ fetches <= MaxFiles + MaxReferences + 1
    /\ reading.pc # "failed" => fetches <= MaxFiles + MaxReferences
    /\ reading \in [pc : LoadStages, left : Seq(Documents), document : Documents,
                    attempt : 1..FetchAttempts, why : Reasons]

\* Members are acquired at their shortest distance; a refusal for depth is right.
Distances ==
    /\ \A d \in Acquired : d \in Near(load, members[d])
    /\ \A d \in Acquired : members[d] > 0 => d \notin Near(load, members[d] - 1)
    /\ reading.why = "depth" => Near(load, Steps) # Near(load, MaxDepth)

\* The references of a member that left the queue are acquired, but for those left of
\* the one at hand.
ReadSoFar ==
    \A d \in Acquired \ ToSet(queue) :
        ToSet(load.links[d]) \cap LocalDocuments
            \subseteq Acquired \cup IF d = reading.document THEN ToSet(reading.left) ELSE {}

\* The queue is by distance, and spans at most two levels.
InLevels ==
    /\ ToSet(reading.left) \subseteq ToSet(load.links[reading.document])
    /\ reading.left # <<>> => members[reading.document] <= MaxDepth
    /\ \A k \in DOMAIN queue : /\ members[reading.document] <= members[queue[k]]
                               /\ members[queue[k]] <= members[reading.document] + 1
    /\ \A j, k \in DOMAIN queue : j < k => members[queue[j]] <= members[queue[k]]

Bundling ==
    /\ load.root \in Acquired /\ reading.document \in Acquired /\ Cardinality(Acquired) <= MaxFiles
    /\ trail = <<>> /\ visited = {load.root} /\ reading.why = "none"
    /\ ReadSoFar /\ InLevels

BundleWhole ==
    Local(load.root) =>
        load.root \in Acquired /\ ClosedIn(Acquired, load.links, LocalDocuments) /\ InventoryMatches

\* The references of what was visited were visited, but for those left in the trail.
WalkedSoFar ==
    \A d \in visited :
        \/ reading.pc = "fetch" /\ d = reading.document
        \/ \E i \in DOMAIN trail : trail[i].document = d
        \/ ToSet(load.links[d]) \subseteq visited
Followed(l, t, v) ==
    \A i \in DOMAIN t :
        /\ ToSet(t[i].left) \subseteq ToSet(l.links[t[i].document])
        /\ ToSet(l.links[t[i].document]) \subseteq v \cup ToSet(t[i].left)
        /\ t[i].document \in Along(l, i - 1)

Walking ==
    /\ BundleWhole /\ load.root \in visited /\ visited \subseteq Along(load, MaxDepth)
    /\ WalkedSoFar /\ Followed(load, trail, visited)
    /\ reading.why = "none"
    /\ reading.pc = "walk" => trail # <<>>
    /\ reading.pc = "done" => trail = <<>>
    /\ reading.pc = "fetch" => reading.document \in visited /\ reading.document \in Along(load, Len(trail))

LoadInv ==
    /\ LoadTypes /\ Distances
    /\ reading.pc \in {"inventory", "acquire"} => Bundling
    /\ reading.pc \in {"walk", "fetch", "done"} => Walking

LEMMA AcquiredFacts ==
    ASSUME LoadTypes
    PROVE  /\ Acquired \subseteq Documents /\ IsFiniteSet(Acquired) /\ Cardinality(Acquired) \in Nat
           /\ \A d \in Documents : members[d] \in Int /\ -1 <= members[d] /\ members[d] <= MaxDepth + 1
           /\ \A d \in Documents : d \in Acquired <=> members[d] >= 0
           /\ \A d \in Acquired : members[d] \in Nat
<1>1. Acquired \in SUBSET Documents
  BY DEF Acquired
<1>2. IsFiniteSet(Acquired) /\ Cardinality(Acquired) \in Nat
  BY <1>1, LoadLimits, FS_Subset, FS_CardinalityType
<1>3. \A d \in Documents : members[d] \in -1..(MaxDepth + 1)
  BY DEF LoadTypes
<1>4. \A d \in Documents : members[d] \in Int /\ -1 <= members[d] /\ members[d] <= MaxDepth + 1
  BY <1>3, LoadLimits
<1>5. \A d \in Documents : d \in Acquired <=> members[d] >= 0
  BY DEF Acquired
<1>6. \A d \in Acquired : members[d] \in Nat
  BY <1>1, <1>4, <1>5
<1> QED
  BY <1>1, <1>2, <1>4, <1>5, <1>6

LEMMA SameAcquired == members' = members => Acquired' = Acquired
  BY DEF Acquired

LEMMA ReadingMoves ==
    ASSUME LoadTypes
    PROVE  /\ \A why \in Reasons : Stops(why) =>
                /\ reading'.pc = "failed" /\ reading'.why = why
                /\ reading' \in [pc : LoadStages, left : Seq(Documents), document : Documents,
                                 attempt : 1..FetchAttempts, why : Reasons]
           /\ \A pc \in LoadStages : Proceeds(pc) =>
                /\ reading'.pc = pc /\ reading'.why = reading.why /\ reading'.document = reading.document
                /\ reading'.left = reading.left
                /\ reading' \in [pc : LoadStages, left : Seq(Documents), document : Documents,
                                 attempt : 1..FetchAttempts, why : Reasons]
<1>1. reading \in [pc : LoadStages, left : Seq(Documents), document : Documents,
                   attempt : 1..FetchAttempts, why : Reasons]
  BY DEF LoadTypes
<1>2. "failed" \in LoadStages
  BY DEF LoadStages
<1> QED
  BY <1>1, <1>2 DEF Stops, Proceeds

\* A load that is refused keeps what it has established.
LEMMA StopKeeps ==
    ASSUME LoadInv, load' = load, members' = members, trail' = trail,
           queue' \in Seq(Documents), ToSet(queue') \subseteq Acquired,
           visited' \subseteq Documents, visited \subseteq visited',
           fetches' \in Nat, fetches' <= MaxFiles + MaxReferences + 1,
           NEW why \in Reasons, Stops(why),
           why = "depth" => Near(load, Steps) # Near(load, MaxDepth)
    PROVE  LoadInv'
<1>1. LoadTypes /\ Distances
  BY DEF LoadInv
<1>2. /\ reading'.pc = "failed" /\ reading'.why = why
      /\ reading' \in [pc : LoadStages, left : Seq(Documents), document : Documents,
                       attempt : 1..FetchAttempts, why : Reasons]
  BY <1>1, ReadingMoves
<1>3. Acquired' = Acquired
  BY SameAcquired
<1>4. LoadTypes'
  BY <1>1, <1>2, <1>3 DEF LoadTypes
<1>5. Distances'
  BY <1>1, <1>2, <1>3 DEF Distances
<1> QED
  BY <1>2, <1>4, <1>5 DEF LoadInv

LEMMA InventoryKeeps == ASSUME LoadInv, CheckInventory PROVE LoadInv'
<1>1. LoadTypes /\ Distances /\ Bundling /\ reading.pc = "inventory"
  BY DEF LoadInv, CheckInventory
<1>2. load' = load /\ members' = members /\ queue' = queue /\ trail' = trail /\ visited' = visited /\ fetches' = fetches
  BY DEF CheckInventory
<1>3. CASE Stops("inventory")
  BY <1>1, <1>2, <1>3, StopKeeps DEF Reasons, LoadTypes
<1>4. CASE Proceeds("acquire")
  <2>1. /\ reading'.pc = "acquire" /\ reading'.why = reading.why /\ reading'.document = reading.document
        /\ reading'.left = reading.left
        /\ reading' \in [pc : LoadStages, left : Seq(Documents), document : Documents,
                         attempt : 1..FetchAttempts, why : Reasons]
    BY <1>1, <1>4, ReadingMoves DEF LoadStages
  <2>2. Acquired' = Acquired
    BY <1>2, SameAcquired
  <2>3. LoadTypes' /\ Distances'
    BY <1>1, <1>2, <2>1, <2>2 DEF LoadTypes, Distances
  <2>4. Bundling'
    BY <1>1, <1>2, <2>1, <2>2 DEF Bundling, ReadSoFar, InLevels
  <2> QED
    BY <2>1, <2>3, <2>4 DEF LoadInv
<1> QED
  BY <1>3, <1>4 DEF CheckInventory

\* Whatever is nearer than the member at hand was read: the whole level is acquired.
LEMMA LevelIsAcquired ==
    ASSUME LoadTypes, Distances, Bundling
    PROVE  Near(load, members[reading.document]) \subseteq Acquired
<1> DEFINE cur == members[reading.document]
           B == {j \in Nat : j <= cur /\ ~ (Near(load, j) \subseteq Acquired)}
<1>1. load \in Loads /\ reading.document \in Acquired /\ load.root \in Acquired
  BY DEF Bundling, LoadTypes
<1>2. cur \in Nat
  BY <1>1, AcquiredFacts
<1> HIDE DEF cur
<1> SUFFICES ASSUME B # {} PROVE FALSE
  BY <1>2 DEF cur
<1>3. PICK j \in B : \A i \in B : j <= i
  BY LeastNat
<1>4. j # 0
  BY <1>1, <1>3, NearFacts
<1>5. j-1 \in Nat /\ j-1 < j /\ j-1 < cur /\ (j-1)+1 = j
  BY <1>2, <1>3, <1>4
<1>6. Near(load, j-1) \subseteq Acquired
  <2>1. j-1 <= cur
    BY <1>2, <1>5
  <2>2. j-1 \notin B
    BY <1>3, <1>5
  <2> QED
    BY <2>1, <2>2, <1>5
<1>7. Near(load, j) = Grown(load.links, LocalDocuments, Near(load, j-1))
  BY <1>1, <1>5, NearFacts
<1>8. ASSUME NEW d \in Near(load, j-1) PROVE ToSet(load.links[d]) \cap LocalDocuments \subseteq Acquired
  <2>1. d \in Acquired /\ members[d] \in Nat
    BY <1>6, <1>8, AcquiredFacts
  <2>2. members[d] <= j-1
    <3> SUFFICES ASSUME ~ (members[d] <= j-1) PROVE FALSE
      OBVIOUS
    <3>1. members[d] > 0 /\ members[d] - 1 \in Nat /\ j-1 <= members[d] - 1
      BY <2>1, <1>5
    <3>2. d \in Near(load, members[d] - 1)
      BY <3>1, <1>1, <1>5, <1>8, NearFacts
    <3> QED
      BY <3>1, <3>2, <2>1 DEF Distances
  <2>3. members[d] < cur
    BY <2>1, <2>2, <1>2, <1>5
  <2>4. d # reading.document
    BY <2>1, <2>3, <1>2 DEF cur
  <2>5. d \notin ToSet(queue)
    <3>1. \A k \in DOMAIN queue : cur <= members[queue[k]]
      BY DEF Bundling, InLevels, cur
    <3> QED
      BY <3>1, <2>1, <2>3, <1>2 DEF ToSet
  <2> QED
    BY <2>1, <2>4, <2>5 DEF Bundling, ReadSoFar
<1>9. Near(load, j) \subseteq Acquired
  BY <1>6, <1>7, <1>8 DEF Grown
<1> QED
  BY <1>3, <1>9

\* The next member leaves the queue.
LEMMA ReadMemberKeeps == ASSUME LoadInv, ReadMember PROVE LoadInv'
<1>1. LoadTypes /\ Distances /\ Bundling /\ reading.pc = "acquire" /\ reading.left = <<>> /\ queue # <<>>
  BY DEF LoadInv, ReadMember
<1>2. load' = load /\ members' = members /\ queue' = Tail(queue) /\ trail' = trail /\ visited' = visited
      /\ fetches' = fetches
  BY DEF ReadMember
<1>3. load \in Loads /\ queue \in Seq(Documents) /\ ToSet(queue) \subseteq Acquired /\ visited \subseteq Documents
      /\ fetches \in Nat /\ fetches <= MaxFiles + MaxReferences + 1
  BY <1>1 DEF LoadTypes
<1> DEFINE d == Head(queue)
<1>4. /\ d \in Documents /\ Tail(queue) \in Seq(Documents) /\ ToSet(queue) = {d} \cup ToSet(Tail(queue))
      /\ Len(queue) \in Nat \ {0} /\ d = queue[1] /\ 1 \in DOMAIN queue
      /\ \A k \in DOMAIN Tail(queue) : k+1 \in DOMAIN queue /\ Tail(queue)[k] = queue[k+1]
  BY <1>1, <1>3, FirstAndRest
<1>5. d \in Acquired /\ members[d] \in Nat
  BY <1>1, <1>3, <1>4, AcquiredFacts
<1>6. \A why \in {"depth", "read"} : why \in Reasons
  BY DEF Reasons
<1>7. CASE members[d] > MaxDepth
  <2>1. Stops("depth")
    BY <1>7 DEF ReadMember
  <2>2. d \in Near(load, Steps)
    BY <1>1, <1>3, <1>5, NearFacts DEF Distances
  <2>3. d \notin Near(load, MaxDepth)
    <3>1. MaxDepth \in Nat /\ members[d] > 0 /\ members[d] - 1 \in Nat /\ MaxDepth <= members[d] - 1
      BY <1>5, <1>7, LoadLimits
    <3>2. d \notin Near(load, members[d] - 1)
      BY <1>1, <1>5, <3>1 DEF Distances
    <3> HIDE DEF d
    <3>3. \A j, n \in Nat : j <= n => Near(load, j) \subseteq Near(load, n)
      BY <1>3, NearFacts
    <3>4. Near(load, MaxDepth) \subseteq Near(load, members[d] - 1)
      BY <3>1, <3>3
    <3> QED
      BY <3>2, <3>4
  <2>4. Near(load, Steps) # Near(load, MaxDepth)
    BY <2>2, <2>3
  <2> HIDE DEF d
  <2> QED
    BY <2>1, <2>4, <1>2, <1>3, <1>4, <1>6, StopKeeps
<1>8. CASE ~ (members[d] > MaxDepth) /\ Stops("read")
  <2> HIDE DEF d
  <2> QED
    BY <1>8, <1>2, <1>3, <1>4, <1>6, StopKeeps
<1>9. CASE ~ (members[d] > MaxDepth) /\ reading' = [reading EXCEPT !.left = load.links[d], !.document = d]
  <2>1. reading \in [pc : LoadStages, left : Seq(Documents), document : Documents,
                     attempt : 1..FetchAttempts, why : Reasons]
    BY <1>1 DEF LoadTypes
  <2>2. load.links[d] \in Seq(Documents)
    BY <1>3, <1>4, LoadInputs
  <2> HIDE DEF d
  <2>3. /\ reading' \in [pc : LoadStages, left : Seq(Documents), document : Documents,
                         attempt : 1..FetchAttempts, why : Reasons]
        /\ reading'.pc = "acquire" /\ reading'.why = reading.why
        /\ reading'.left = load.links[d] /\ reading'.document = d
    BY <2>1, <2>2, <1>1, <1>4, <1>9
  <2>4. Acquired' = Acquired
    BY <1>2, SameAcquired
  <2>5. LoadTypes'
    BY <2>3, <2>4, <1>1, <1>2, <1>3, <1>4 DEF LoadTypes
  <2>6. Distances'
    BY <2>3, <2>4, <1>1, <1>2 DEF Distances
  <2>7. ReadSoFar'
    <3> SUFFICES ASSUME NEW e \in Acquired, e \notin ToSet(Tail(queue))
                 PROVE  ToSet(load.links[e]) \cap LocalDocuments
                            \subseteq Acquired \cup IF e = d THEN ToSet(load.links[d]) ELSE {}
      BY <1>2, <2>3, <2>4 DEF ReadSoFar
    <3>1. CASE e = d
      BY <3>1
    <3>2. CASE e # d
      <4>1. e \in Acquired \ ToSet(queue)
        BY <3>2, <1>4
      <4>2. ToSet(reading.left) = {}
        BY <1>1 DEF ToSet
      <4> QED
        BY <4>1, <4>2, <3>2, <1>1 DEF Bundling, ReadSoFar
    <3> QED
      BY <3>1, <3>2
  <2>8. InLevels'
    <3>1. /\ \A k \in DOMAIN queue : /\ members[reading.document] <= members[queue[k]]
                                     /\ members[queue[k]] <= members[reading.document] + 1
          /\ \A j, k \in DOMAIN queue : j < k => members[queue[j]] <= members[queue[k]]
          /\ reading.document \in Acquired
      BY <1>1 DEF Bundling, InLevels
    <3>2. members[reading.document] \in Nat /\ members[reading.document] <= members[d]
      BY <3>1, <1>1, <1>4, AcquiredFacts
    <3>3. members[d] <= MaxDepth
      BY <1>5, <1>9, LoadLimits
    <3>4. ASSUME NEW k \in DOMAIN Tail(queue)
          PROVE  members[d] <= members[Tail(queue)[k]] /\ members[Tail(queue)[k]] <= members[d] + 1
      <4>1. k+1 \in DOMAIN queue /\ Tail(queue)[k] = queue[k+1] /\ k \in Nat /\ 1 < k+1
        BY <1>4, <3>4
      <4>2. members[queue[1]] <= members[queue[k+1]] /\ members[queue[k+1]] <= members[reading.document] + 1
        BY <4>1, <3>1, <1>4
      <4>3. members[queue[k+1]] \in Nat
        <5>1. queue[k+1] \in ToSet(queue)
          BY <4>1 DEF ToSet
        <5> QED
          BY <5>1, <1>1, <1>3, AcquiredFacts
      <4> QED
        BY <4>1, <4>2, <4>3, <3>2, <1>4, <1>5
    <3>5. ASSUME NEW j \in DOMAIN Tail(queue), NEW k \in DOMAIN Tail(queue), j < k
          PROVE  members[Tail(queue)[j]] <= members[Tail(queue)[k]]
      <4>1. j \in Nat /\ k \in Nat /\ j+1 < k+1
        BY <1>4, <3>5
      <4> QED
        BY <4>1, <3>1, <1>4
    <3> QED
      BY <3>3, <3>4, <3>5, <1>2, <2>3 DEF InLevels
  <2>9. Bundling'
    BY <2>3, <2>4, <2>7, <2>8, <1>1, <1>2, <1>5 DEF Bundling
  <2> QED
    BY <2>3, <2>5, <2>6, <2>9 DEF LoadInv
<1> QED
  BY <1>7, <1>8, <1>9 DEF ReadMember

\* A reference of the member at hand.
LEMMA FollowKeeps == ASSUME LoadInv, FollowReference PROVE LoadInv'
<1>1. LoadTypes /\ Distances /\ Bundling /\ reading.pc = "acquire" /\ reading.left # <<>>
  BY DEF LoadInv, FollowReference
<1>2. load' = load /\ trail' = trail /\ visited' = visited /\ fetches' = fetches
  BY DEF FollowReference
<1>3. /\ load \in Loads /\ queue \in Seq(Documents) /\ ToSet(queue) \subseteq Acquired /\ visited \subseteq Documents
      /\ members \in [Documents -> -1..(MaxDepth + 1)]
      /\ fetches \in Nat /\ fetches <= MaxFiles + MaxReferences + 1
      /\ reading \in [pc : LoadStages, left : Seq(Documents), document : Documents,
                      attempt : 1..FetchAttempts, why : Reasons]
  BY <1>1 DEF LoadTypes
<1> DEFINE e == Head(reading.left)
           d == reading.document
<1>4. /\ e \in Documents /\ Tail(reading.left) \in Seq(Documents)
      /\ ToSet(reading.left) = {e} \cup ToSet(Tail(reading.left))
  BY <1>1, <1>3, FirstAndRest
<1>5. /\ d \in Acquired /\ d \in Documents /\ members[d] \in Nat /\ members[d] <= MaxDepth
      /\ ToSet(reading.left) \subseteq ToSet(load.links[d])
      /\ \A k \in DOMAIN queue : members[d] <= members[queue[k]] /\ members[queue[k]] <= members[d] + 1
      /\ \A j, k \in DOMAIN queue : j < k => members[queue[j]] <= members[queue[k]]
  BY <1>1, <1>3, AcquiredFacts DEF Bundling, InLevels
<1> DEFINE rest == [reading EXCEPT !.left = Tail(@)]
<1>6. /\ rest \in [pc : LoadStages, left : Seq(Documents), document : Documents,
                   attempt : 1..FetchAttempts, why : Reasons]
      /\ rest.pc = "acquire" /\ rest.why = reading.why /\ rest.left = Tail(reading.left) /\ rest.document = d
  BY <1>1, <1>3, <1>4
<1>7. \/ (~ Local(e) \/ e \in Acquired) /\ reading' = rest /\ UNCHANGED <<members, queue>>
      \/ UNCHANGED <<members, queue>> /\ (Stops("count") \/ Stops("read"))
      \/ /\ Local(e) /\ e \notin Acquired /\ Cardinality(Acquired) + 1 <= MaxFiles
         /\ members' = [members EXCEPT ![e] = members[d] + 1]
         /\ queue' = Append(queue, e) /\ reading' = rest
  BY DEF FollowReference, Enqueued
<1> HIDE DEF e, d, rest
<1>8. ASSUME ~ Local(e) \/ e \in Acquired, reading' = rest, UNCHANGED <<members, queue>> PROVE LoadInv'
  <2>1. members' = members /\ queue' = queue /\ Acquired' = Acquired
    BY <1>8, SameAcquired
  <2>2. LoadTypes' /\ Distances'
    BY <1>1, <1>2, <1>6, <1>8, <2>1 DEF LoadTypes, Distances
  <2>3. ReadSoFar'
    <3> SUFFICES ASSUME NEW x \in Acquired \ ToSet(queue)
                 PROVE  ToSet(load.links[x]) \cap LocalDocuments
                            \subseteq Acquired \cup IF x = d THEN ToSet(Tail(reading.left)) ELSE {}
      BY <1>2, <1>6, <1>8, <2>1 DEF ReadSoFar
    <3>1. ToSet(load.links[x]) \cap LocalDocuments \subseteq Acquired \cup IF x = d THEN ToSet(reading.left) ELSE {}
      BY <1>1 DEF Bundling, ReadSoFar, d
    <3>2. e \notin LocalDocuments \/ e \in Acquired
      BY <1>8 DEF Local
    <3> QED
      BY <3>1, <3>2, <1>4
  <2>4. InLevels'
    BY <1>2, <1>4, <1>5, <1>6, <1>8, <2>1 DEF InLevels
  <2>5. Bundling'
    BY <1>1, <1>2, <1>5, <1>6, <1>8, <2>1, <2>3, <2>4 DEF Bundling
  <2> QED
    BY <1>6, <1>8, <2>2, <2>5 DEF LoadInv
<1>9. ASSUME UNCHANGED <<members, queue>>, Stops("count") \/ Stops("read") PROVE LoadInv'
  BY <1>2, <1>3, <1>9, StopKeeps DEF Reasons
<1>10. ASSUME Local(e), e \notin Acquired, Cardinality(Acquired) + 1 <= MaxFiles,
              members' = [members EXCEPT ![e] = members[d] + 1], queue' = Append(queue, e), reading' = rest
       PROVE  LoadInv'
  <2>1. e \in LocalDocuments /\ e \in ToSet(load.links[d]) /\ e # d
    BY <1>4, <1>5, <1>10 DEF Local
  <2>2. /\ members' \in [Documents -> -1..(MaxDepth + 1)] /\ members'[e] = members[d] + 1
        /\ \A x \in Documents : x # e => members'[x] = members[x]
    <3>1. members[d] + 1 \in -1..(MaxDepth + 1)
      BY <1>5, LoadLimits
    <3> QED
      BY <3>1, <1>3, <1>4, <1>10
  <2>3. Acquired' = Acquired \cup {e} /\ Acquired \subseteq Documents
    BY <2>2, <1>4, <1>5 DEF Acquired
  <2>4. /\ Append(queue, e) \in Seq(Documents) /\ Len(queue) \in Nat
        /\ DOMAIN queue = 1..Len(queue) /\ DOMAIN Append(queue, e) = 1..(Len(queue)+1)
        /\ \A k \in 1..Len(queue) : Append(queue, e)[k] = queue[k]
        /\ Append(queue, e)[Len(queue)+1] = e
        /\ ToSet(Append(queue, e)) = ToSet(queue) \cup {e}
    BY <1>3, <1>4, OneMore
  <2>5. LoadTypes'
    <3>1. ToSet(queue') \subseteq Acquired'
      BY <2>3, <2>4, <1>3, <1>10
    <3>2. /\ reading' \in [pc : LoadStages, left : Seq(Documents), document : Documents,
                           attempt : 1..FetchAttempts, why : Reasons]
          /\ reading'.pc = reading.pc
      BY <1>1, <1>6, <1>10
    <3> QED
      BY <3>1, <3>2, <2>2, <2>4, <1>1, <1>2, <1>10 DEF LoadTypes
  <2>6. Distances'
    <3>1. d \in Near(load, members[d])
      BY <1>1, <1>5 DEF Distances
    <3>2. e \in Near(load, members[d] + 1)
      BY <3>1, <2>1, <1>3, <1>5, NearNext
    <3>3. e \notin Near(load, members[d])
      BY <1>1, <1>10, LevelIsAcquired DEF d
    <3>4. members[d] + 1 > 0 /\ (members[d] + 1) - 1 = members[d]
      BY <1>5
    <3>5. ASSUME NEW x \in Acquired'
          PROVE  x \in Near(load, members'[x]) /\ (members'[x] > 0 => x \notin Near(load, members'[x] - 1))
      <4>1. CASE x = e
        BY <4>1, <2>2, <3>2, <3>3, <3>4
      <4>2. CASE x # e
        <5>1. x \in Acquired /\ members'[x] = members[x]
          BY <4>2, <2>2, <2>3, <3>5
        <5> QED
          BY <5>1, <1>1 DEF Distances
      <4> QED
        BY <4>1, <4>2
    <3>6. reading'.why = reading.why
      BY <1>6, <1>10
    <3> QED
      BY <3>5, <3>6, <1>1, <1>2 DEF Distances
  <2>7. ReadSoFar'
    <3> SUFFICES ASSUME NEW x \in Acquired', x \notin ToSet(queue')
                 PROVE  ToSet(load.links[x]) \cap LocalDocuments
                            \subseteq Acquired' \cup IF x = d THEN ToSet(Tail(reading.left)) ELSE {}
      BY <1>2, <1>6, <1>10 DEF ReadSoFar
    <3>1. x \in Acquired \ ToSet(queue)
      BY <2>3, <2>4, <1>10
    <3>2. ToSet(load.links[x]) \cap LocalDocuments \subseteq Acquired \cup IF x = d THEN ToSet(reading.left) ELSE {}
      BY <3>1, <1>1 DEF Bundling, ReadSoFar, d
    <3> QED
      BY <3>2, <2>3, <1>4
  <2>8. InLevels'
    <3> DEFINE t == Append(queue, e)
    <3>1. ASSUME NEW k \in 1..(Len(queue)+1)
          PROVE  members[d] <= members'[t[k]] /\ members'[t[k]] <= members[d] + 1
      <4>1. CASE k = Len(queue)+1
        BY <4>1, <2>2, <2>4, <1>5
      <4>2. CASE k # Len(queue)+1
        <5>1. k \in 1..Len(queue) /\ t[k] = queue[k]
          BY <4>2, <3>1, <2>4
        <5>2. queue[k] \in Acquired
          BY <5>1, <2>4, <1>3 DEF ToSet
        <5>3. members'[t[k]] = members[queue[k]]
          BY <5>1, <5>2, <2>2, <2>3, <1>10
        <5> QED
          BY <5>1, <5>3, <2>4, <1>5
      <4> QED
        BY <4>1, <4>2
    <3>2. ASSUME NEW j \in 1..(Len(queue)+1), NEW k \in 1..(Len(queue)+1), j < k
          PROVE  members'[t[j]] <= members'[t[k]]
      <4>1. j \in 1..Len(queue) /\ t[j] = queue[j]
        BY <3>2, <2>4
      <4>2. queue[j] \in Acquired /\ members'[t[j]] = members[queue[j]]
        <5>1. queue[j] \in Acquired
          BY <4>1, <2>4, <1>3 DEF ToSet
        <5> QED
          BY <5>1, <4>1, <2>2, <2>3, <1>10
      <4>3. CASE k = Len(queue)+1
        BY <4>1, <4>2, <4>3, <2>2, <2>4, <1>5
      <4>4. CASE k # Len(queue)+1
        <5>1. k \in 1..Len(queue) /\ t[k] = queue[k]
          BY <4>4, <3>2, <2>4
        <5>2. queue[k] \in Acquired
          BY <5>1, <2>4, <1>3 DEF ToSet
        <5>3. members'[t[k]] = members[queue[k]]
          BY <5>1, <5>2, <2>2, <2>3, <1>10
        <5> QED
          BY <5>1, <5>3, <4>1, <4>2, <3>2, <2>4, <1>5
      <4> QED
        BY <4>3, <4>4
    <3>3. members'[d] = members[d]
      BY <2>1, <2>2, <1>5
    <3>4. queue' = t /\ DOMAIN t = 1..(Len(queue)+1)
      BY <2>4, <1>10
    <3>5. reading'.left = Tail(reading.left) /\ reading'.document = d
      BY <1>6, <1>10
    <3>6. ToSet(Tail(reading.left)) \subseteq ToSet(load.links[d])
      BY <1>4, <1>5
    <3> HIDE DEF t
    <3> QED
      BY <3>1, <3>2, <3>3, <3>4, <3>5, <3>6, <1>2, <1>5 DEF InLevels
  <2>9. Cardinality(Acquired') <= MaxFiles
    <3>1. IsFiniteSet(Acquired)
      BY <1>1, AcquiredFacts
    <3> QED
      BY <3>1, <2>3, <1>10, FS_AddElement
  <2>10. Bundling'
    <3>1. reading'.why = reading.why /\ reading'.document = d
      BY <1>6, <1>10
    <3> QED
      BY <3>1, <2>3, <2>7, <2>8, <2>9, <1>1, <1>2, <1>5 DEF Bundling
  <2> QED
    BY <1>6, <1>10, <2>5, <2>6, <2>10 DEF LoadInv
<1> QED
  BY <1>7, <1>8, <1>9, <1>10

\* The bundle is closed, or refused.
LEMMA CloseKeeps == ASSUME LoadInv, CloseBundle PROVE LoadInv'
<1>1. LoadTypes /\ Distances /\ Bundling /\ reading.pc = "acquire" /\ reading.left = <<>> /\ queue = <<>>
  BY DEF LoadInv, CloseBundle
<1>2. load' = load /\ members' = members /\ queue' = queue /\ visited' = visited /\ Acquired' = Acquired
  BY SameAcquired DEF CloseBundle
<1>3. load \in Loads /\ queue \in Seq(Documents) /\ ToSet(queue) \subseteq Acquired /\ visited \subseteq Documents
      /\ fetches \in Nat /\ fetches <= MaxFiles + MaxReferences + 1
  BY <1>1 DEF LoadTypes
<1>4. CASE ~ InventoryMatches
  <2>1. Stops("inventory") /\ trail' = trail /\ fetches' = fetches
    BY <1>4 DEF CloseBundle
  <2> QED
    BY <2>1, <1>2, <1>3, StopKeeps DEF Reasons
<1>5. CASE InventoryMatches
  <2>1. Proceeds("walk") /\ trail' = <<Frame(load.root)>> /\ fetches' = Cardinality(Acquired)
    BY <1>5 DEF CloseBundle
  <2>2. /\ reading'.pc = "walk" /\ reading'.why = reading.why
        /\ reading' \in [pc : LoadStages, left : Seq(Documents), document : Documents,
                         attempt : 1..FetchAttempts, why : Reasons]
    BY <2>1, <1>1, ReadingMoves DEF LoadStages
  <2>3. load.root \in Documents /\ load.links[load.root] \in Seq(Documents) /\ visited = {load.root}
        /\ load.root \in Acquired /\ reading.why = "none"
    BY <1>1, <1>3, LoadInputs DEF Bundling
  <2>4. /\ trail' \in Seq([document : Documents, left : Seq(Documents)]) /\ trail' # <<>>
        /\ DOMAIN trail' = {1} /\ trail'[1].document = load.root /\ trail'[1].left = load.links[load.root]
    BY <2>1, <2>3 DEF Frame
  <2>5. Cardinality(Acquired) \in Nat /\ Cardinality(Acquired) <= MaxFiles + MaxReferences
        /\ Cardinality(Acquired) <= MaxFiles + MaxReferences + 1
    BY <1>1, AcquiredFacts, LoadLimits DEF Bundling
  <2>6. LoadTypes'
    BY <2>1, <2>2, <2>3, <2>4, <2>5, <1>1, <1>2 DEF LoadTypes
  <2>7. Distances'
    BY <2>2, <1>1, <1>2 DEF Distances
  <2>8. ClosedIn(Acquired, load.links, LocalDocuments)
    <3>1. ToSet(queue) = {} /\ ToSet(reading.left) = {}
      BY <1>1 DEF ToSet
    <3> QED
      BY <3>1, <1>1 DEF Bundling, ReadSoFar, ClosedIn
  <2>9. BundleWhole'
    BY <2>3, <2>8, <1>2, <1>5 DEF BundleWhole, InventoryMatches
  <2>10. Along(load, 0) = {load.root} /\ load.root \in Along(load, MaxDepth)
    <3>1. Along(load, 0) = {load.root} /\ \A j, n \in Nat : j <= n => Along(load, j) \subseteq Along(load, n)
      BY <1>3, AlongFacts
    <3>2. 0 \in Nat /\ MaxDepth \in Nat /\ 0 <= MaxDepth
      BY LoadLimits
    <3>3. Along(load, 0) \subseteq Along(load, MaxDepth)
      BY <3>1, <3>2
    <3> QED
      BY <3>1, <3>3
  <2>11. Followed(load, trail', visited)
    <3>1. 1 - 1 = 0
      OBVIOUS
    <3> QED
      BY <3>1, <2>4, <2>10, <1>2 DEF Followed
  <2>12. WalkedSoFar'
    BY <2>3, <2>4, <1>2 DEF WalkedSoFar
  <2>13. Walking'
    BY <2>2, <2>3, <2>4, <2>9, <2>10, <2>11, <2>12, <1>2 DEF Walking
  <2> QED
    BY <2>2, <2>6, <2>7, <2>13 DEF LoadInv
<1> QED
  BY <1>4, <1>5

Frames == [document : Documents, left : Seq(Documents)]

LEMMA InnerFacts ==
    ASSUME LoadInv, reading.pc = "walk"
    PROVE  /\ LoadTypes /\ Distances /\ Walking
           /\ trail \in Seq(Frames) /\ trail # <<>> /\ Len(trail) \in Nat \ {0} /\ DOMAIN trail = 1..Len(trail)
           /\ Len(trail) \in DOMAIN trail /\ Inner = trail[Len(trail)] /\ Inner \in Frames
           /\ Inner.document \in visited /\ Inner.document \in Documents /\ Inner.left \in Seq(Documents)
           /\ load \in Loads /\ reading.why = "none"
<1>1. LoadTypes /\ Distances /\ Walking
  BY DEF LoadInv
<1>2. trail \in Seq(Frames) /\ trail # <<>>
  BY <1>1 DEF LoadTypes, Walking, Frames
<1>3. /\ Len(trail) \in Nat \ {0} /\ DOMAIN trail = 1..Len(trail)
      /\ Len(trail) \in DOMAIN trail /\ trail[Len(trail)] \in Frames
  BY <1>2
<1> QED
  BY <1>1, <1>2, <1>3 DEF LoadTypes, Walking, Inner, Frames

\* The walk leaves a document whose references are all visited.
LEMMA LeaveKeeps == ASSUME LoadInv, LeaveDocument PROVE LoadInv'
<1>1. reading.pc = "walk" /\ Inner.left = <<>> /\ trail' = Popped
  BY DEF LeaveDocument
<1>2. load' = load /\ members' = members /\ queue' = queue /\ visited' = visited /\ fetches' = fetches
      /\ Acquired' = Acquired
  BY SameAcquired DEF LeaveDocument
<1>3. /\ LoadTypes /\ Distances /\ Walking
      /\ trail \in Seq(Frames) /\ trail # <<>> /\ Len(trail) \in Nat \ {0} /\ DOMAIN trail = 1..Len(trail)
      /\ Len(trail) \in DOMAIN trail /\ Inner = trail[Len(trail)]
      /\ load \in Loads /\ reading.why = "none"
  BY <1>1, InnerFacts
<1>4. /\ trail' \in Seq(Frames) /\ DOMAIN trail' = 1..(Len(trail)-1)
      /\ \A k \in 1..(Len(trail)-1) : trail'[k] = trail[k]
  BY <1>1, <1>3, AllButLast DEF Popped
<1>5. \A k \in DOMAIN trail' : k \in DOMAIN trail /\ trail'[k] = trail[k]
  BY <1>3, <1>4
<1>6. /\ reading'.pc = (IF trail' = <<>> THEN "done" ELSE "walk") /\ reading'.why = reading.why
      /\ reading' \in [pc : LoadStages, left : Seq(Documents), document : Documents,
                       attempt : 1..FetchAttempts, why : Reasons]
  <2>1. CASE Popped = <<>>
    <3>1. Proceeds("done")
      BY <2>1 DEF LeaveDocument
    <3> QED
      BY <3>1, <2>1, <1>1, <1>3, ReadingMoves DEF LoadStages
  <2>2. CASE Popped # <<>>
    <3>1. reading' = reading
      BY <2>2 DEF LeaveDocument
    <3> QED
      BY <3>1, <2>2, <1>1, <1>3 DEF LoadTypes
  <2> QED
    BY <2>1, <2>2
<1>7. LoadTypes'
  <2>1. \A i \in DOMAIN trail' : trail'[i].document \in visited
    BY <1>3, <1>5 DEF LoadTypes
  <2>2. fetches <= MaxFiles + MaxReferences
    BY <1>1, <1>3 DEF LoadTypes
  <2> QED
    BY <2>1, <2>2, <1>2, <1>3, <1>4, <1>6 DEF LoadTypes, Frames
<1>8. Distances'
  BY <1>2, <1>3, <1>6 DEF Distances
<1>9. BundleWhole'
  BY <1>2, <1>3 DEF Walking, BundleWhole, InventoryMatches
<1>10. Followed(load, trail', visited)
  BY <1>2, <1>3, <1>5 DEF Walking, Followed
<1>11. WalkedSoFar'
  <2> SUFFICES ASSUME NEW d \in visited
               PROVE  (\E i \in DOMAIN trail' : trail'[i].document = d) \/ ToSet(load.links[d]) \subseteq visited
    BY <1>2 DEF WalkedSoFar
  <2>1. (\E i \in DOMAIN trail : trail[i].document = d) \/ ToSet(load.links[d]) \subseteq visited
    BY <1>1, <1>3 DEF Walking, WalkedSoFar
  <2>2. ASSUME NEW i \in DOMAIN trail, trail[i].document = d
        PROVE  (\E k \in DOMAIN trail' : trail'[k].document = d) \/ ToSet(load.links[d]) \subseteq visited
    <3>1. CASE i = Len(trail)
      <4>1. ToSet(trail[i].left) = {}
        BY <3>1, <1>1, <1>3 DEF ToSet
      <4> QED
        BY <4>1, <2>2, <1>3 DEF Walking, Followed
    <3>2. CASE i # Len(trail)
      <4>1. i \in 1..(Len(trail)-1)
        BY <3>2, <2>2, <1>3
      <4> QED
        BY <4>1, <2>2, <1>4
    <3> QED
      BY <3>1, <3>2
  <2> QED
    BY <2>1, <2>2
<1>12. Walking'
  BY <1>2, <1>3, <1>6, <1>9, <1>10, <1>11 DEF Walking
<1> QED
  BY <1>6, <1>7, <1>8, <1>12 DEF LoadInv

\* A document entered at the end of a trail has all its references left.
LEMMA EnteredFollows ==
    ASSUME NEW l \in Loads, NEW t \in Seq(Frames), NEW v, Followed(l, t, v),
           NEW d \in Documents, d \in Along(l, Len(t)),
           NEW f, f = [document |-> d, left |-> l.links[d]]
    PROVE  /\ Append(t, f) \in Seq(Frames) /\ Append(t, f) # <<>> /\ Followed(l, Append(t, f), v)
           /\ DOMAIN Append(t, f) = DOMAIN t \cup {Len(t)+1} /\ Append(t, f)[Len(t)+1].document = d
           /\ \A k \in DOMAIN t : Append(t, f)[k] = t[k]
<1>1. f \in Frames /\ f.document = d /\ f.left = l.links[d]
  BY LoadInputs DEF Frames
<1>2. /\ Append(t, f) \in Seq(Frames) /\ Append(t, f) # <<>> /\ Len(t) \in Nat
      /\ DOMAIN t = 1..Len(t) /\ DOMAIN Append(t, f) = 1..(Len(t)+1)
      /\ \A k \in 1..Len(t) : Append(t, f)[k] = t[k]
      /\ Append(t, f)[Len(t)+1] = f
  BY <1>1, OneMore
<1> DEFINE u == Append(t, f)
<1> HIDE DEF u
<1>3. DOMAIN u = DOMAIN t \cup {Len(t)+1} /\ \A k \in DOMAIN t : u[k] = t[k]
  <2>1. 1..(Len(t)+1) = 1..Len(t) \cup {Len(t)+1}
    BY <1>2
  <2> QED
    BY <2>1, <1>2 DEF u
<1>4. u[Len(t)+1] = f /\ (Len(t)+1) - 1 = Len(t)
  BY <1>2 DEF u
<1>5. Followed(l, u, v)
  <2> SUFFICES ASSUME NEW i \in DOMAIN u
               PROVE  /\ ToSet(u[i].left) \subseteq ToSet(l.links[u[i].document])
                      /\ ToSet(l.links[u[i].document]) \subseteq v \cup ToSet(u[i].left)
                      /\ u[i].document \in Along(l, i - 1)
    BY DEF Followed
  <2>1. CASE i \in DOMAIN t
    BY <2>1, <1>3 DEF Followed
  <2>2. CASE i = Len(t)+1
    BY <2>2, <1>1, <1>4
  <2> QED
    BY <2>1, <2>2, <1>3
<1> QED
  BY <1>1, <1>2, <1>3, <1>4, <1>5 DEF u

LEMMA AdvancedFacts ==
    ASSUME LoadInv, reading.pc = "walk", Inner.left # <<>>, NEW e, e = Head(Inner.left)
    PROVE  /\ Advanced \in Seq(Frames) /\ Advanced # <<>> /\ Len(Advanced) = Len(trail)
           /\ DOMAIN Advanced = DOMAIN trail /\ \A k \in DOMAIN trail : Advanced[k].document = trail[k].document
           /\ \A v : visited \cup {e} \subseteq v => Followed(load, Advanced, v)
           /\ e \in Documents /\ e \in Along(load, Len(trail))
<1>1. /\ LoadTypes /\ Distances /\ Walking
      /\ trail \in Seq(Frames) /\ trail # <<>> /\ Len(trail) \in Nat \ {0} /\ DOMAIN trail = 1..Len(trail)
      /\ Len(trail) \in DOMAIN trail /\ Inner = trail[Len(trail)] /\ Inner \in Frames
      /\ Inner.document \in Documents /\ Inner.left \in Seq(Documents)
      /\ load \in Loads
  BY InnerFacts
<1>2. /\ e \in Documents /\ Tail(Inner.left) \in Seq(Documents)
      /\ ToSet(Inner.left) = {e} \cup ToSet(Tail(Inner.left))
  BY <1>1, FirstAndRest
<1> DEFINE n == Len(trail)
           a == Advanced
           f == [Inner EXCEPT !.left = Tail(@)]
<1>3. f \in Frames /\ f.document = Inner.document /\ f.left = Tail(Inner.left)
  BY <1>1, <1>2 DEF Frames
<1>4. a = [trail EXCEPT ![n] = f]
  BY <1>1 DEF Advanced
<1> HIDE DEF n, a, f
<1>5. /\ a \in Seq(Frames) /\ a # <<>> /\ Len(a) = Len(trail) /\ DOMAIN a = DOMAIN trail
      /\ a[n] = f /\ \A k \in DOMAIN trail : k # n => a[k] = trail[k]
  BY <1>1, <1>3, <1>4 DEF n
<1>6. \A k \in DOMAIN trail : a[k].document = trail[k].document
  BY <1>1, <1>3, <1>5 DEF n
<1>7. /\ ToSet(Inner.left) \subseteq ToSet(load.links[Inner.document])
      /\ ToSet(load.links[Inner.document]) \subseteq visited \cup ToSet(Inner.left)
      /\ Inner.document \in Along(load, n - 1)
  BY <1>1 DEF Walking, Followed, n
<1>8. e \in Along(load, n)
  <2>1. n - 1 \in Nat /\ (n - 1) + 1 = n
    BY <1>1 DEF n
  <2>2. e \in Along(load, (n - 1) + 1)
    BY <2>1, <1>1, <1>2, <1>7, AlongNext
  <2> QED
    BY <2>1, <2>2
<1>9. ASSUME NEW v, visited \cup {e} \subseteq v PROVE Followed(load, a, v)
  <2> SUFFICES ASSUME NEW i \in DOMAIN trail
               PROVE  /\ ToSet(a[i].left) \subseteq ToSet(load.links[a[i].document])
                      /\ ToSet(load.links[a[i].document]) \subseteq v \cup ToSet(a[i].left)
                      /\ a[i].document \in Along(load, i - 1)
    BY <1>5 DEF Followed
  <2>1. CASE i = n
    BY <2>1, <1>2, <1>3, <1>5, <1>7, <1>9
  <2>2. CASE i # n
    BY <2>2, <1>1, <1>5, <1>9 DEF Walking, Followed
  <2> QED
    BY <2>1, <2>2
<1> QED
  BY <1>2, <1>5, <1>6, <1>8, <1>9 DEF a, n

\* A reference of the document at hand is taken up.
LEMMA VisitKeeps == ASSUME LoadInv, VisitReference PROVE LoadInv'
<1> DEFINE e == Head(Inner.left)
<1>1. reading.pc = "walk" /\ Inner.left # <<>>
  BY DEF VisitReference
<1>2. load' = load /\ members' = members /\ queue' = queue /\ fetches' = fetches /\ Acquired' = Acquired
  BY SameAcquired DEF VisitReference
<1>3. /\ LoadTypes /\ Distances /\ Walking
      /\ trail \in Seq(Frames) /\ Len(trail) \in Nat \ {0} /\ DOMAIN trail = 1..Len(trail)
      /\ load \in Loads /\ reading.why = "none"
  BY <1>1, InnerFacts
<1>4. /\ Advanced \in Seq(Frames) /\ Advanced # <<>> /\ Len(Advanced) = Len(trail)
      /\ DOMAIN Advanced = DOMAIN trail /\ \A k \in DOMAIN trail : Advanced[k].document = trail[k].document
      /\ \A v : visited \cup {e} \subseteq v => Followed(load, Advanced, v)
      /\ e \in Documents /\ e \in Along(load, Len(trail))
  BY <1>1, AdvancedFacts
<1>5. \/ e \in visited /\ trail' = Advanced /\ visited' = visited /\ reading' = reading
      \/ Stops("path") /\ visited' = visited /\ trail' = trail
      \/ Stops("closure") /\ visited' = visited \cup {e} /\ trail' = trail
      \/ /\ Len(trail) <= MaxDepth /\ visited' = visited \cup {e}
         /\ trail' = Append(Advanced, Frame(e)) /\ reading' = reading
      \/ /\ Len(trail) <= MaxDepth /\ visited' = visited \cup {e} /\ trail' = Advanced
         /\ reading' = [reading EXCEPT !.pc = "fetch", !.document = e, !.attempt = 1]
  BY DEF VisitReference
<1> HIDE DEF e
<1>6. /\ queue \in Seq(Documents) /\ ToSet(queue) \subseteq Acquired /\ visited \subseteq Documents
      /\ fetches \in Nat /\ fetches <= MaxFiles + MaxReferences + 1 /\ fetches <= MaxFiles + MaxReferences
      /\ \A i \in DOMAIN trail : trail[i].document \in visited
      /\ reading \in [pc : LoadStages, left : Seq(Documents), document : Documents,
                      attempt : 1..FetchAttempts, why : Reasons]
  BY <1>1, <1>3 DEF LoadTypes
<1>7. ASSUME Stops("path") \/ Stops("closure"), visited \subseteq visited', visited' \subseteq visited \cup {e},
             trail' = trail
      PROVE  LoadInv'
  <2>1. PICK why \in {"path", "closure"} : Stops(why)
    BY <1>7
  <2>2. why \in Reasons /\ why # "depth" /\ visited' \subseteq Documents
    BY <1>4, <1>6, <1>7 DEF Reasons
  <2> QED
    BY <2>1, <2>2, <1>2, <1>6, <1>7, StopKeeps
<1>8. BundleWhole' = BundleWhole
  BY <1>2 DEF BundleWhole, InventoryMatches
<1>9. e \in visited \/ Len(trail) <= MaxDepth => e \in Along(load, MaxDepth)
  <2>1. CASE e \in visited
    BY <2>1, <1>3 DEF Walking
  <2>2. CASE Len(trail) <= MaxDepth
    <3>1. \A j, n \in Nat : j <= n => Along(load, j) \subseteq Along(load, n)
      BY <1>3, AlongFacts
    <3>2. Along(load, Len(trail)) \subseteq Along(load, MaxDepth)
      BY <3>1, <2>2, <1>3, LoadLimits
    <3> QED
      BY <3>2, <1>4
  <2> QED
    BY <2>1, <2>2
  \* What the moves to another document have in common.
<1>10. ASSUME visited' = visited \cup {e}, e \in Along(load, MaxDepth),
              trail' \in Seq(Frames), trail' # <<>> \/ reading'.pc # "walk", reading'.pc \in {"walk", "fetch"},
              \A i \in DOMAIN trail' : trail'[i].document \in visited',
              Followed(load, trail', visited'),
              \A i \in DOMAIN trail : \E k \in DOMAIN trail' : trail'[k].document = trail[i].document,
              \/ e \in visited
              \/ \E i \in DOMAIN trail' : trail'[i].document = e
              \/ reading'.pc = "fetch" /\ reading'.document = e,
              reading'.why = "none",
              reading' \in [pc : LoadStages, left : Seq(Documents), document : Documents,
                            attempt : 1..FetchAttempts, why : Reasons],
              reading'.pc = "fetch" => reading'.document = e /\ Len(trail') = Len(trail)
       PROVE  LoadInv'
  <2>1. LoadTypes'
    BY <1>2, <1>3, <1>4, <1>6, <1>10 DEF LoadTypes, Frames
  <2>2. Distances'
    BY <1>2, <1>3, <1>10 DEF Distances
  <2>3. WalkedSoFar'
    <3> SUFFICES ASSUME NEW d \in visited'
                 PROVE  \/ reading'.pc = "fetch" /\ d = reading'.document
                        \/ \E i \in DOMAIN trail' : trail'[i].document = d
                        \/ ToSet(load.links[d]) \subseteq visited'
      BY <1>2 DEF WalkedSoFar
    <3>1. CASE d \in visited
      BY <3>1, <1>1, <1>3, <1>10 DEF Walking, WalkedSoFar
    <3>2. CASE d \notin visited
      BY <3>2, <1>10
    <3> QED
      BY <3>1, <3>2
  <2>4. Walking'
    BY <2>3, <1>2, <1>3, <1>4, <1>8, <1>10 DEF Walking
  <2> QED
    BY <2>1, <2>2, <2>4, <1>10 DEF LoadInv
<1>11. ASSUME e \in visited, trail' = Advanced, visited' = visited, reading' = reading PROVE LoadInv'
  <2>1. visited' = visited \cup {e} /\ Followed(load, trail', visited')
    BY <1>4, <1>11
  <2>2. \A i \in DOMAIN trail' : trail'[i].document \in visited'
    BY <1>4, <1>6, <1>11
  <2>3. \A i \in DOMAIN trail : \E k \in DOMAIN trail' : trail'[k].document = trail[i].document
    BY <1>4, <1>11
  <2> QED
    BY <2>1, <2>2, <2>3, <1>1, <1>3, <1>4, <1>6, <1>9, <1>10, <1>11
<1>12. ASSUME Len(trail) <= MaxDepth, visited' = visited \cup {e},
              trail' = Append(Advanced, Frame(e)), reading' = reading
       PROVE  LoadInv'
  <2>1. Followed(load, Advanced, visited')
    BY <1>4, <1>12
  <2>2. Frame(e) = [document |-> e, left |-> load.links[e]]
    BY DEF Frame
  <2>3. /\ trail' \in Seq(Frames) /\ trail' # <<>> /\ Followed(load, trail', visited')
        /\ DOMAIN trail' = DOMAIN Advanced \cup {Len(Advanced)+1} /\ trail'[Len(Advanced)+1].document = e
        /\ \A k \in DOMAIN Advanced : trail'[k] = Advanced[k]
    BY <2>1, <2>2, <1>3, <1>4, <1>12, EnteredFollows
  <2>4. \A i \in DOMAIN trail' : trail'[i].document \in visited'
    BY <2>3, <1>4, <1>6, <1>12
  <2>5. \A i \in DOMAIN trail : \E k \in DOMAIN trail' : trail'[k].document = trail[i].document
    BY <2>3, <1>4
  <2>6. \E i \in DOMAIN trail' : trail'[i].document = e
    BY <2>3
  <2> QED
    BY <2>3, <2>4, <2>5, <2>6, <1>1, <1>3, <1>6, <1>9, <1>10, <1>12
<1>13. ASSUME Len(trail) <= MaxDepth, visited' = visited \cup {e}, trail' = Advanced,
              reading' = [reading EXCEPT !.pc = "fetch", !.document = e, !.attempt = 1]
       PROVE  LoadInv'
  <2>1. Followed(load, trail', visited')
    BY <1>4, <1>13
  <2>2. \A i \in DOMAIN trail' : trail'[i].document \in visited'
    BY <1>4, <1>6, <1>13
  <2>3. \A i \in DOMAIN trail : \E k \in DOMAIN trail' : trail'[k].document = trail[i].document
    BY <1>4, <1>13
  <2>4. "fetch" \in LoadStages /\ 1 \in 1..FetchAttempts
    BY LoadLimits DEF LoadStages
  <2>5. /\ reading' \in [pc : LoadStages, left : Seq(Documents), document : Documents,
                         attempt : 1..FetchAttempts, why : Reasons]
        /\ reading'.pc = "fetch" /\ reading'.document = e /\ reading'.why = "none"
    BY <2>4, <1>3, <1>4, <1>6, <1>13
  <2>6. reading'.pc # "walk" /\ reading'.pc \in {"walk", "fetch"}
    BY <2>5
  <2>7. e \in Along(load, MaxDepth) /\ Len(trail') = Len(trail) /\ trail' \in Seq(Frames)
    BY <1>4, <1>9, <1>13
  <2> QED
    BY <2>1, <2>2, <2>3, <2>5, <2>6, <2>7, <1>10, <1>13
<1> QED
  BY <1>5, <1>7, <1>11, <1>12, <1>13

\* An attempt at a remote document, or at the root.
LEMMA FetchKeeps == ASSUME LoadInv, Fetch PROVE LoadInv'
<1>1. LoadTypes /\ Distances /\ Walking /\ reading.pc = "fetch"
  BY DEF LoadInv, Fetch
<1>2. load' = load /\ members' = members /\ queue' = queue /\ visited' = visited /\ Acquired' = Acquired
      /\ fetches' = fetches + 1
  BY SameAcquired DEF Fetch
<1>3. /\ load \in Loads /\ queue \in Seq(Documents) /\ ToSet(queue) \subseteq Acquired
      /\ visited \subseteq Documents /\ trail \in Seq(Frames)
      /\ \A i \in DOMAIN trail : trail[i].document \in visited
      /\ reading \in [pc : LoadStages, left : Seq(Documents), document : Documents,
                      attempt : 1..FetchAttempts, why : Reasons]
  BY <1>1 DEF LoadTypes, Frames
<1>4. fetches' \in Nat /\ fetches' <= MaxFiles + MaxReferences + 1
      /\ (~ (fetches' > MaxReferences) => fetches' <= MaxFiles + MaxReferences)
  <2>1. fetches \in Nat /\ fetches <= MaxFiles + MaxReferences
    BY <1>1 DEF LoadTypes
  <2> QED
    BY <2>1, <1>2, LoadLimits
<1> DEFINE d == reading.document
<1>5. d \in Documents /\ d \in visited /\ d \in Along(load, Len(trail)) /\ reading.why = "none"
      /\ Followed(load, trail, visited)
  BY <1>1, <1>3 DEF Walking
<1>6. BundleWhole' = BundleWhole
  BY <1>2 DEF BundleWhole, InventoryMatches
<1>7. \/ (Stops("limit") \/ Stops("fetch")) /\ trail' = trail
      \/ ~ (fetches' > MaxReferences) /\ trail' = Append(trail, Frame(d)) /\ Proceeds("walk")
      \/ /\ ~ (fetches' > MaxReferences) /\ reading.attempt < FetchAttempts /\ trail' = trail
         /\ reading' = [reading EXCEPT !.attempt = @ + 1]
  BY DEF Fetch
<1> HIDE DEF d
<1>8. ASSUME Stops("limit") \/ Stops("fetch"), trail' = trail PROVE LoadInv'
  <2>1. PICK why \in {"limit", "fetch"} : Stops(why)
    BY <1>8
  <2>2. why \in Reasons /\ why # "depth"
    BY DEF Reasons
  <2> QED
    BY <2>1, <2>2, <1>2, <1>3, <1>4, <1>8, StopKeeps
<1>9. ASSUME ~ (fetches' > MaxReferences), trail' = Append(trail, Frame(d)), Proceeds("walk") PROVE LoadInv'
  <2>1. Frame(d) = [document |-> d, left |-> load.links[d]]
    BY DEF Frame
  <2>2. /\ trail' \in Seq(Frames) /\ trail' # <<>> /\ Followed(load, trail', visited)
        /\ DOMAIN trail' = DOMAIN trail \cup {Len(trail)+1} /\ trail'[Len(trail)+1].document = d
        /\ \A k \in DOMAIN trail : trail'[k] = trail[k]
    BY <2>1, <1>3, <1>5, <1>9, EnteredFollows
  <2>3. /\ reading'.pc = "walk" /\ reading'.why = reading.why
        /\ reading' \in [pc : LoadStages, left : Seq(Documents), document : Documents,
                         attempt : 1..FetchAttempts, why : Reasons]
    BY <1>1, <1>9, ReadingMoves DEF LoadStages
  <2>4. \A i \in DOMAIN trail' : trail'[i].document \in visited
    BY <2>2, <1>3, <1>5
  <2>5. LoadTypes'
    BY <2>2, <2>3, <2>4, <1>1, <1>2, <1>4, <1>9 DEF LoadTypes, Frames
  <2>6. Distances'
    BY <2>3, <1>1, <1>2, <1>5 DEF Distances
  <2>7. WalkedSoFar'
    <3> SUFFICES ASSUME NEW x \in visited
                 PROVE  (\E i \in DOMAIN trail' : trail'[i].document = x) \/ ToSet(load.links[x]) \subseteq visited
      BY <1>2 DEF WalkedSoFar
    <3>1. \/ x = d
          \/ \E i \in DOMAIN trail : trail[i].document = x
          \/ ToSet(load.links[x]) \subseteq visited
      BY <1>1 DEF Walking, WalkedSoFar, d
    <3> QED
      BY <3>1, <2>2
  <2>8. Walking'
    BY <2>2, <2>3, <2>7, <1>1, <1>2, <1>5, <1>6 DEF Walking
  <2> QED
    BY <2>3, <2>5, <2>6, <2>8 DEF LoadInv
<1>10. ASSUME ~ (fetches' > MaxReferences), reading.attempt < FetchAttempts, trail' = trail,
              reading' = [reading EXCEPT !.attempt = @ + 1]
       PROVE  LoadInv'
  <2>1. reading.attempt + 1 \in 1..FetchAttempts
    BY <1>3, <1>10, LoadLimits
  <2>2. /\ reading' \in [pc : LoadStages, left : Seq(Documents), document : Documents,
                         attempt : 1..FetchAttempts, why : Reasons]
        /\ reading'.pc = "fetch" /\ reading'.why = reading.why /\ reading'.document = reading.document
    BY <2>1, <1>1, <1>3, <1>10
  <2>3. LoadTypes'
    BY <2>2, <1>1, <1>2, <1>4, <1>10 DEF LoadTypes
  <2>4. Distances'
    BY <2>2, <1>1, <1>2 DEF Distances
  <2>5. WalkedSoFar'
    BY <2>2, <1>1, <1>2, <1>10 DEF Walking, WalkedSoFar
  <2>6. Walking'
    BY <2>2, <2>5, <1>1, <1>2, <1>6, <1>10 DEF Walking
  <2> QED
    BY <2>2, <2>3, <2>4, <2>6 DEF LoadInv
<1> QED
  BY <1>7, <1>8, <1>9, <1>10

LEMMA LoadInitOK == ASSUME ClosureInit PROVE LoadInv
<1> DEFINE r == load.root
<1>1. /\ load \in Loads /\ trail = <<>> /\ visited = {r} /\ fetches = 0
      /\ members = [d \in Documents |-> IF d = r /\ Local(d) THEN 0 ELSE -1]
      /\ queue = (IF Local(r) THEN <<r>> ELSE <<>>)
      /\ reading = [pc |-> IF Local(r) THEN "inventory" ELSE "fetch",
                    left |-> <<>>, document |-> r, attempt |-> 1, why |-> "none"]
  BY DEF ClosureInit
<1>2. r \in Documents /\ load.links \in [Documents -> Seq(Documents)]
  BY <1>1, LoadInputs
<1> HIDE DEF r
<1>3. reading \in [pc : LoadStages, left : Seq(Documents), document : Documents,
                   attempt : 1..FetchAttempts, why : Reasons]
  <2>1. reading.pc \in LoadStages /\ "none" \in Reasons /\ 1 \in 1..FetchAttempts /\ <<>> \in Seq(Documents)
    BY <1>1, LoadLimits DEF LoadStages, Reasons
  <2> QED
    BY <2>1, <1>1, <1>2
<1>4. members \in [Documents -> -1..(MaxDepth + 1)]
  BY <1>1, LoadLimits
<1>5. Acquired = IF Local(r) THEN {r} ELSE {}
  BY <1>1, <1>2 DEF Acquired
<1>6. queue \in Seq(Documents) /\ ToSet(queue) \subseteq Acquired /\ (Local(r) => ToSet(queue) = {r})
  <2>1. CASE Local(r)
    <3>1. queue = <<r>> /\ ToSet(queue) = {r}
      BY <2>1, <1>1 DEF ToSet
    <3> QED
      BY <3>1, <2>1, <1>2, <1>5
  <2>2. CASE ~ Local(r)
    BY <2>2, <1>1 DEF ToSet
  <2> QED
    BY <2>1, <2>2
<1>7. DOMAIN trail = {} /\ trail \in Seq([document : Documents, left : Seq(Documents)]) /\ Len(trail) = 0
  BY <1>1
<1>8. LoadTypes
  BY <1>1, <1>2, <1>3, <1>4, <1>6, <1>7, LoadLimits DEF LoadTypes
<1>9. Near(load, 0) = {r} /\ Along(load, 0) = {r} /\ r \in Along(load, MaxDepth)
  <2>1. /\ Near(load, 0) = {r} /\ Along(load, 0) = {r}
        /\ \A j, n \in Nat : j <= n => Along(load, j) \subseteq Along(load, n)
    BY <1>1, NearFacts, AlongFacts DEF r
  <2>2. 0 \in Nat /\ MaxDepth \in Nat /\ 0 <= MaxDepth
    BY LoadLimits
  <2>3. Along(load, 0) \subseteq Along(load, MaxDepth)
    BY <2>1, <2>2
  <2> QED
    BY <2>1, <2>3
<1>10. Distances
  <2>1. \A d \in Acquired : d = r /\ members[d] = 0
    BY <1>1, <1>2, <1>5
  <2>2. reading.why # "depth"
    BY <1>1
  <2>3. ~ (0 > 0) /\ r \in Near(load, 0)
    BY <1>9
  <2> QED
    BY <2>1, <2>2, <2>3 DEF Distances
<1>11. ASSUME Local(r) PROVE Bundling
  <2>1. r \in Acquired /\ reading.document = r /\ reading.left = <<>> /\ reading.why = "none" /\ members[r] = 0
    BY <1>1, <1>2, <1>5, <1>11
  <2>2. Cardinality(Acquired) <= MaxFiles
    <3>1. Acquired = {r} /\ Cardinality({r}) = 1
      BY <1>5, <1>11, FS_Singleton
    <3>2. 1 <= MaxFiles
      BY LoadLimits
    <3> QED
      BY <3>1, <3>2
  <2>3. ReadSoFar
    BY <1>5, <1>6, <1>11 DEF ReadSoFar
  <2>4. InLevels
    <3>1. ToSet(reading.left) = {}
      BY <2>1 DEF ToSet
    <3>2. \A k \in DOMAIN queue : k = 1 /\ queue[k] = r
      BY <1>1, <1>11
    <3> QED
      BY <3>1, <3>2, <2>1 DEF InLevels
  <2> QED
    BY <2>1, <2>2, <2>3, <2>4, <1>1 DEF Bundling, r
<1>12. ASSUME ~ Local(r) PROVE Walking
  <2>1. reading.document = r /\ reading.pc = "fetch" /\ reading.why = "none"
    BY <1>1, <1>12
  <2>2. BundleWhole
    BY <1>12 DEF BundleWhole, r
  <2>3. WalkedSoFar
    BY <2>1, <1>1 DEF WalkedSoFar
  <2>4. Followed(load, trail, visited)
    BY <1>7 DEF Followed
  <2> QED
    BY <2>1, <2>2, <2>3, <2>4, <1>1, <1>7, <1>9 DEF Walking, r
<1>13. reading.pc = IF Local(r) THEN "inventory" ELSE "fetch"
  BY <1>1
<1> QED
  BY <1>8, <1>10, <1>11, <1>12, <1>13 DEF LoadInv

LEMMA LoadKeeps == LoadInv /\ [ClosureNext]_closureVars => LoadInv'
<1> SUFFICES ASSUME LoadInv, [ClosureNext]_closureVars PROVE LoadInv'
  OBVIOUS
<1>1. CASE UNCHANGED closureVars
  <2>1. load' = load /\ members' = members /\ queue' = queue /\ trail' = trail /\ visited' = visited
        /\ fetches' = fetches /\ reading' = reading /\ Acquired' = Acquired
    BY <1>1, SameAcquired DEF closureVars
  <2>2. LoadTypes' = LoadTypes /\ Distances' = Distances
    BY <2>1 DEF LoadTypes, Distances
  <2>3. Bundling' = Bundling
    BY <2>1 DEF Bundling, ReadSoFar, InLevels
  <2>4. Walking' = Walking
    BY <2>1 DEF Walking, BundleWhole, InventoryMatches, WalkedSoFar
  <2> QED
    BY <2>1, <2>2, <2>3, <2>4 DEF LoadInv
<1>2. CASE ClosureNext
  BY <1>2, InventoryKeeps, ReadMemberKeeps, FollowKeeps, CloseKeeps, LeaveKeeps, VisitKeeps, FetchKeeps
     DEF ClosureNext
<1> QED
  BY <1>1, <1>2

LEMMA LoadedIsWhole == ASSUME LoadInv PROVE LoadIsWhole
<1> SUFFICES ASSUME reading.pc = "done"
             PROVE  /\ Local(load.root) => Acquired = Closure(LocalDocuments) /\ InventoryMatches
                    /\ visited = Closure(Documents)
                    /\ visited = Within(MaxDepth, Documents)
  BY DEF LoadIsWhole
<1>1. LoadTypes /\ Distances /\ Walking /\ load \in Loads /\ trail = <<>>
  BY DEF LoadInv, LoadTypes, Walking
<1>2. /\ Closure(LocalDocuments) = Near(load, Steps) /\ Closure(Documents) = Along(load, Steps)
      /\ Within(MaxDepth, Documents) = Along(load, MaxDepth)
  BY WithinIs DEF Closure, Steps
<1>3. ASSUME Local(load.root) PROVE Acquired = Near(load, Steps) /\ InventoryMatches
  <2>1. load.root \in Acquired /\ ClosedIn(Acquired, load.links, LocalDocuments) /\ InventoryMatches
    BY <1>1, <1>3 DEF Walking, BundleWhole
  <2>2. Steps \in Nat /\ Near(load, Steps) \subseteq Acquired
    BY <2>1, <1>1, NearFacts
  <2>3. Acquired \subseteq Near(load, Steps)
    <3> SUFFICES ASSUME NEW d \in Acquired PROVE d \in Near(load, Steps)
      OBVIOUS
    <3>1. members[d] \in Nat /\ d \in Near(load, members[d])
      BY <1>1, AcquiredFacts DEF Distances
    <3>2. \A n \in Nat : Near(load, n) \subseteq Near(load, Steps)
      BY <1>1, NearFacts
    <3> QED
      BY <3>1, <3>2
  <2> QED
    BY <2>1, <2>2, <2>3
<1>4. ClosedIn(visited, load.links, Documents)
  <2>1. DOMAIN trail = {}
    BY <1>1
  <2> QED
    BY <2>1, <1>1 DEF Walking, WalkedSoFar, ClosedIn
<1>5. load.root \in visited /\ visited \subseteq Along(load, MaxDepth)
  BY <1>1 DEF Walking
<1>6. \A n \in Nat : Along(load, n) \subseteq visited /\ Along(load, n) \subseteq Along(load, Steps)
  BY <1>1, <1>4, <1>5, AlongFacts
<1>7. Steps \in Nat /\ MaxDepth \in Nat
  BY <1>1, AlongFacts, LoadLimits
<1>8. visited = Along(load, Steps) /\ visited = Along(load, MaxDepth)
  BY <1>5, <1>6, <1>7
<1> QED
  BY <1>2, <1>3, <1>8

LEMMA LoadInvImplies == LoadInv => LoadIsExact
<1> SUFFICES ASSUME LoadInv PROVE LoadIsExact
  OBVIOUS
<1>1. LoadTypes /\ Distances
  BY DEF LoadInv
<1>2. ClosureTypeOK
  <2>1. load.root \in Documents
    BY <1>1, LoadInputs DEF LoadTypes
  <2>2. ToSet(reading.left) \subseteq Documents
    <3>1. reading.left \in Seq(Documents)
      BY <1>1 DEF LoadTypes
    <3> QED
      BY <3>1 DEF ToSet
  <2>3. fetches \in 0..(MaxFiles + MaxReferences + 1)
    BY <1>1, LoadLimits DEF LoadTypes
  <2>4. \A i \in 1..Len(trail) : trail[i].document \in visited
    BY <1>1 DEF LoadTypes
  <2>5. reading.pc \in LoadStages /\ reading.attempt \in 1..FetchAttempts
    BY <1>1 DEF LoadTypes
  <2> QED
    BY <2>1, <2>2, <2>3, <2>4, <2>5, <1>1 DEF ClosureTypeOK, LoadTypes, LoadStages
<1>3. OnlyDeepRefused
  BY <1>1, WithinIs DEF Distances, OnlyDeepRefused, Closure, Steps
<1> QED
  BY <1>2, <1>3, LoadedIsWhole DEF LoadIsExact

\* A load gives exactly the documents its root refers to, directly or through others, all
\* within the depth limit, or refuses; it refuses for depth only what is too deep
\* (acquireDefinitionBundle, prefetchExternalRefs).
THEOREM LoadExact == ClosureSpec => []LoadIsExact
<1>1. ClosureInit => LoadInv
  BY LoadInitOK
<1> QED
  BY <1>1, LoadKeeps, LoadInvImplies, PTL DEF ClosureSpec
=============================================================================
