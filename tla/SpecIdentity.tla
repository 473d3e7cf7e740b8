---------------------------- MODULE SpecIdentity ----------------------------
(***************************************************************************)
(* What the single-file upload promises to the runs that share an asset    *)
(* name: every run that gets a specification id gets the same one.  A run  *)
(* may instead give up, at any time, and then it holds no id.              *)
(***************************************************************************)
CONSTANTS Runners,  \* the action runs that target one workspace and one asset name
          Ids       \* the specification ids Spec Hub may allocate

CONSTANTS Undecided, GaveUp   \* a run that has no id yet, and one that failed

VARIABLE decided    \* [Runners -> Ids \cup {Undecided, GaveUp}]

Init == decided = [r \in Runners |-> Undecided]

\* A run returns an id: the one every other holder has.
Decide(r, i) ==
    /\ decided[r] = Undecided
    /\ \A q \in Runners : decided[q] \in {i, Undecided, GaveUp}
    /\ decided' = [decided EXCEPT ![r] = i]

GiveUp(r) ==
    /\ decided[r] # GaveUp
    /\ decided' = [decided EXCEPT ![r] = GaveUp]

Next == \E r \in Runners : GiveUp(r) \/ \E i \in Ids : Decide(r, i)

Spec == Init /\ [][Next]_decided
=============================================================================
