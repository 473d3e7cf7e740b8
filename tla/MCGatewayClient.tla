-------------------------- MODULE MCGatewayClient --------------------------
(***************************************************************************)
(* The mechanisms of the gateway client that share no state, side by side: *)
(* a behaviour exercises the one that part names.                          *)
(***************************************************************************)
EXTENDS TokenProvider, InventoryReads, ImportLanes, GeneratedCollections
CONSTANTS c1, c2, c3, l1, l2, w1, w2, w3, w4, g1, g2
VARIABLE part

ClientVars == <<part, tokenVars, inventoryVars, laneVars, genVars>>

\* The second write of a lane follows the first.
TwoThenTwo == [w \in Writes |-> IF w = w1 THEN w4 ELSE w]

Still(p) ==
    /\ UNCHANGED part
    /\ IF p = "token" THEN TRUE ELSE UNCHANGED tokenVars
    /\ IF p = "inventory" THEN TRUE ELSE UNCHANGED inventoryVars
    /\ IF p = "lanes" THEN TRUE ELSE UNCHANGED laneVars
    /\ IF p = "generation" THEN TRUE ELSE UNCHANGED genVars

ClientInit ==
    /\ part \in {"token", "inventory", "lanes", "generation"}
    /\ TokenInit /\ InventoryInit /\ LaneInit /\ GeneratedInit

ClientNext ==
    \/ part = "token" /\ TokenNext /\ Still("token")
    \/ part = "inventory" /\ InventoryNext /\ Still("inventory")
    \/ part = "lanes" /\ LaneNext /\ Still("lanes")
    \/ part = "generation" /\ GeneratedNext /\ Still("generation")

\* Each loop, request and lane goes on: they are coroutines of one process.
ClientSpec ==
    /\ ClientInit /\ [][ClientNext]_ClientVars
    /\ \A l \in Loops : WF_ClientVars(part = "inventory" /\ Observe(l) /\ Still("inventory"))
    /\ WF_ClientVars(part = "inventory" /\ FetchPage /\ Still("inventory"))
    /\ WF_ClientVars(part = "lanes" /\ Continue /\ Still("lanes"))
    /\ \A w \in Writes : WF_ClientVars(part = "lanes" /\ Finish(w) /\ Still("lanes"))
    /\ \A r \in Generators : WF_ClientVars(part = "generation" /\ GenStep(r) /\ Still("generation"))

=============================================================================
