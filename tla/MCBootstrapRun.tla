-------------------------- MODULE MCBootstrapRun ---------------------------
(* Instances of BootstrapRun for TLC: the three roles in source order.      *)
EXTENDS BootstrapRun

AllRoles == {"baseline", "smoke", "contract"}
SourceOrder == <<"baseline", "smoke", "contract">>
TwoSpecs == 1..2
=============================================================================
