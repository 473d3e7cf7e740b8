-------------------------------- MODULE MCRelease --------------------------------
(***************************************************************************)
(* What stands between a commit and its release, and between a start of the *)
(* released program and its writes, each mechanism on its own: the          *)
(* capability evidence, the cut and its release runs, the gate, the entry   *)
(* points.  A behaviour exercises the one that stage names.                 *)
(***************************************************************************)
EXTENDS CapabilityProbe, ReleaseCut, ReleaseGate, RunEntry, TLC
CONSTANTS g1, g2  \* release verifiers
VARIABLE stage
trainVars == <<stage, probeVars, releaseVars, gateVars, entryVars>>

\* Two verifications of one manifest.
SameManifest == g1 :> "c" @@ g2 :> "c"
ReleaseOrder == <<"provider", "peer">>

StageStill(s) ==
    /\ UNCHANGED stage
    /\ IF s = "probe" THEN TRUE ELSE UNCHANGED probeVars
    /\ IF s = "cut" THEN TRUE ELSE UNCHANGED releaseVars
    /\ IF s = "gate" THEN TRUE ELSE UNCHANGED gateVars
    /\ IF s = "entry" THEN TRUE ELSE UNCHANGED entryVars

\* The stages not at work rest in one initial state each.
RestingEntry == /\ input = (CHOOSE i \in Inputs : i.tier = "gated")
                /\ account = [squads |-> {}, session |-> "team", link |-> "free"]
TrainInit ==
    /\ stage \in {"probe", "cut", "gate", "entry"}
    /\ ProbeInit /\ ReleaseInit /\ GateInit
    /\ IF stage = "entry" THEN TRUE ELSE RestingEntry
    /\ EntryInit
TrainNext ==
    \/ stage = "probe" /\ ProbeNext /\ StageStill("probe")
    \/ stage = "cut" /\ ReleaseNext /\ StageStill("cut")
    \/ stage = "gate" /\ GateNext /\ StageStill("gate")
    \/ stage = "entry" /\ EntryNext /\ StageStill("entry")
TrainSpec == TrainInit /\ [][TrainNext]_trainVars
==================================================================================
