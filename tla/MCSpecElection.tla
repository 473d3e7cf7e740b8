--------------------------- MODULE MCSpecElection ---------------------------
(* Instances of SpecElection for TLC: the polling constants of the client  *)
(* and two or three runs.                                                   *)
EXTENDS SpecElection, TLC
CONSTANTS r1, r2, r3

TwoRunners == {r1, r2}
ThreeRunners == {r1, r2, r3}
RunnerSymmetry == Permutations(Runners)
ThreeIds == 1..3
TwoIds == 1..2
=============================================================================
