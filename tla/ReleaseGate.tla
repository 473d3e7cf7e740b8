------------------------------ MODULE ReleaseGate ------------------------------
(***************************************************************************)
(* The release gate: a verifier resolves the tags of a release into a       *)
(* closed manifest, dispatches one run of the provider's workflow for it,   *)
(* finds that run (by the id it is told, or by the correlation title),      *)
(* waits for its first attempt and accepts only that attempt's evidence.   *)
(* Verifiers run side by side, runs are started again, tags are moved.      *)
(***************************************************************************)
EXTENDS Integers, Sequences, FiniteSets
CONSTANTS
    Gates,         \* verifiers
    Correlation,   \* the correlation of each one; an input may repeat one
    TagOrder,      \* the tags in the order they are resolved: provider, release, peers
    Pinned,        \* the tags whose commit the workflow pins, to commit 1
    MaxPolls,      \* bound: polls of one wait
    MaxGateFaults  \* bound: failing calls, lost or torn evidence, moved tags, runs started again

ReleaseTags == {TagOrder[k] : k \in DOMAIN TagOrder}
\* The provider's tag is pinned (resolveImmutableReleaseManifest).
ASSUME GateAssumption ==
    /\ MaxPolls \in Nat /\ MaxGateFaults \in Nat
    /\ TagOrder \in Seq(ReleaseTags) /\ TagOrder # <<>>
    /\ TagOrder[1] \in Pinned /\ Pinned \subseteq ReleaseTags

VARIABLES
    tagged,     \* tag -> commit
    runs,       \* the provider's runs, in the order of their creation
    gate,       \* the verifiers
    gateFaults
gateVars == <<tagged, runs, gate, gateFaults>>

Unresolved == [t \in ReleaseTags |-> 0]
GateEnded == {"success", "stopped"}

GateAt(g, pc) == gate[g].pc = pc
GateTo(g, pc) == gate' = [gate EXCEPT ![g].pc = pc, ![g].polls = 0]
GateFault == gateFaults < MaxGateFaults /\ gateFaults' = gateFaults + 1
Attempt(r) == Len(r.results) + (IF r.pending THEN 1 ELSE 0)

GateInit ==
    /\ tagged = [t \in ReleaseTags |-> 1] /\ runs = <<>> /\ gateFaults = 0
    /\ gate = [g \in Gates |-> [pc |-> "resolve", next |-> 1, ev |-> Unresolved,
                                since |-> 0, run |-> 0, polls |-> 0]]

\* One tag, through its chain of tag objects, to a commit, and the digest of a
\* file at that commit; a pinned tag that is elsewhere stops the verifier.
ResolveTag(g) ==
    /\ GateAt(g, "resolve") /\ UNCHANGED <<tagged, runs>>
    /\ LET v == gate[g]  t == TagOrder[v.next]
           known == [v EXCEPT !.ev[t] = tagged[t], !.next = @ + 1] IN
       \/ /\ t \notin Pinned \/ tagged[t] = 1
          /\ gate' = [gate EXCEPT ![g] = IF v.next < Len(TagOrder) THEN known
                        ELSE [known EXCEPT !.next = v.next, !.pc = "dispatch"]]
          /\ UNCHANGED gateFaults
       \/ t \in Pinned /\ tagged[t] # 1 /\ GateTo(g, "stopped") /\ UNCHANGED gateFaults
       \/ GateTo(g, "stopped") /\ GateFault

NewRun(g) == [corr |-> Correlation[g], by |-> g, ev |-> gate[g].ev, head |-> tagged[TagOrder[1]],
              titled |-> FALSE, pending |-> TRUE, results |-> <<>>, evidence |-> <<>>]

\* One POST. The answer names the run, or does not (204, an empty body); without
\* an answer the verifier stops, whether the run was created or not.  Runs count
\* from two seconds before the dispatch: the last one may be within them.
Dispatch(g) ==
    /\ GateAt(g, "dispatch") /\ UNCHANGED tagged
    /\ \/ /\ runs' = Append(runs, NewRun(g)) /\ UNCHANGED gateFaults
          /\ \E named \in BOOLEAN, late \in {0, 1} :
                /\ Len(runs) - late \in Nat
                /\ gate' = [gate EXCEPT ![g].pc = IF named THEN "identify" ELSE "lookup",
                                        ![g].run = IF named THEN Len(runs) + 1 ELSE 0,
                                        ![g].since = Len(runs) - late]
       \/ runs' \in {runs, Append(runs, NewRun(g))} /\ GateTo(g, "stopped") /\ GateFault

\* What of a run's identity may still change while the platform fills it in.
Hydrated(g, k) == runs[k].titled /\ runs[k].corr = Correlation[g] /\ Attempt(runs[k]) = 1
\* validateRunIdentity.
RunIdentity(g, k) == Hydrated(g, k) /\ runs[k].head = gate[g].ev[TagOrder[1]] /\ k > gate[g].since

Poll(g) == IF gate[g].polls < MaxPolls
           THEN gate' = [gate EXCEPT ![g].polls = @ + 1] ELSE GateTo(g, "stopped")

\* electCorrelatedRun: none yet is asked again, two are one too many.
Elect(g, matches) ==
    IF matches = {} THEN Poll(g)
    ELSE IF Cardinality(matches) > 1 THEN GateTo(g, "stopped")
    ELSE gate' = [gate EXCEPT ![g].pc = "wait", ![g].run = CHOOSE k \in matches : TRUE, ![g].polls = 0]
LookupRun(g) ==
    /\ GateAt(g, "lookup") /\ UNCHANGED <<tagged, runs>>
    /\ \/ Elect(g, {k \in DOMAIN runs : RunIdentity(g, k)}) /\ UNCHANGED gateFaults
       \/ GateTo(g, "stopped") /\ GateFault

\* waitForRunIdentity: only a run that is not filled in yet is read again.
IdentifyRun(g) ==
    /\ GateAt(g, "identify") /\ UNCHANGED <<tagged, runs>>
    /\ \/ /\ IF RunIdentity(g, gate[g].run) THEN GateTo(g, "wait")
             ELSE IF Hydrated(g, gate[g].run) THEN GateTo(g, "stopped") ELSE Poll(g)
          /\ UNCHANGED gateFaults
       \/ GateTo(g, "stopped") /\ GateFault

\* Mutant: the identity is not compared again while waiting.
AwaitAnyAttempt(g) ==
    /\ GateAt(g, "wait") /\ UNCHANGED <<tagged, runs, gateFaults>>
    /\ LET r == runs[gate[g].run] IN
       IF r.pending THEN Poll(g)
       ELSE GateTo(g, IF r.results[Len(r.results)] = "success" THEN "evidence" ELSE "stopped")
\* waitForTerminalRun: the identity is compared in every poll.
AwaitRun(g) ==
    /\ GateAt(g, "wait") /\ UNCHANGED <<tagged, runs>>
    /\ LET r == runs[gate[g].run] IN
       \/ /\ IF ~RunIdentity(g, gate[g].run) THEN GateTo(g, "stopped")
             ELSE IF r.pending THEN Poll(g)
             ELSE GateTo(g, IF r.results[1] = "success" THEN "evidence" ELSE "stopped")
          /\ UNCHANGED gateFaults
       \/ GateTo(g, "stopped") /\ GateFault

\* The archive: exactly one entry, of the expected name, whose sizes and
\* checksum agree, and canonical JSON in it.
Readable(archive) == archive = "whole"
\* The one artifact named after the run and its attempt, and in it the digest of
\* the manifest, the provider, the release, the run and the attempt.
AcceptEvidence(g) ==
    /\ GateAt(g, "evidence") /\ UNCHANGED <<tagged, runs>>
    /\ LET r == runs[gate[g].run] IN
       \/ /\ IF r.evidence[1] = "none" THEN Poll(g)
             ELSE GateTo(g, IF Readable(r.evidence[1]) /\ r.ev = gate[g].ev THEN "success" ELSE "stopped")
          /\ UNCHANGED gateFaults
       \/ GateTo(g, "stopped") /\ GateFault

\* The platform fills in a run's title; the provider's run concludes, its
\* evidence uploaded whole, torn or not at all; anyone starts it again.
Hydrate(k) ==
    /\ ~runs[k].titled /\ runs' = [runs EXCEPT ![k].titled = TRUE]
    /\ UNCHANGED <<tagged, gate, gateFaults>>
Conclude(k) ==
    /\ runs[k].pending /\ UNCHANGED <<tagged, gate>>
    /\ \E result \in {"success", "failure"}, archive \in {"none", "torn", "whole"} :
        /\ runs' = [runs EXCEPT ![k].pending = FALSE, ![k].results = Append(@, result),
                                ![k].evidence = Append(@, archive)]
        /\ IF archive = "whole" THEN UNCHANGED gateFaults ELSE GateFault
StartAgain(k) ==
    /\ ~runs[k].pending /\ runs' = [runs EXCEPT ![k].pending = TRUE]
    /\ UNCHANGED <<tagged, gate>> /\ GateFault
MoveTag(t) ==
    /\ \E c \in {1, 2} \ {tagged[t]} : tagged' = [tagged EXCEPT ![t] = c]
    /\ UNCHANGED <<runs, gate>> /\ GateFault

GateNext ==
    \/ \E g \in Gates : ResolveTag(g) \/ Dispatch(g) \/ LookupRun(g) \/ IdentifyRun(g) \/ AwaitRun(g) \/ AcceptEvidence(g)
    \/ \E k \in DOMAIN runs : Hydrate(k) \/ Conclude(k) \/ StartAgain(k)
    \/ \E t \in ReleaseTags : MoveTag(t)
GateSpec == GateInit /\ [][GateNext]_gateVars
--------------------------------------------------------------------------------
\* TypeOK: the variables keep their types.
GateTypeOK ==
    /\ tagged \in [ReleaseTags -> {1, 2}] /\ gateFaults \in 0..MaxGateFaults
    /\ \A g \in Gates : /\ gate[g].ev \in [ReleaseTags -> 0..2] /\ gate[g].polls \in 0..MaxPolls
                        /\ gate[g].run \in 0..Len(runs) /\ gate[g].since \in 0..Len(runs)

\* A release that passes was run by the provider at its pinned commit, for its
\* own manifest, and the run's first attempt succeeded: a second attempt, another
\* release's run, or one at a moved tag is never its evidence
\* (validateRunIdentity, validateReleaseEvidenceResult).
EvidenceIsExact ==
    \A g \in Gates : GateAt(g, "success") =>
        LET r == runs[gate[g].run] IN
        /\ r.ev = gate[g].ev /\ r.head = 1 /\ \A t \in Pinned : r.ev[t] = 1
        /\ r.results[1] = "success" /\ r.evidence[1] = "whole"
        /\ r.by # g => Correlation[r.by] = Correlation[g]

\* The evidence is not of an earlier verification with the same correlation,
\* whose manifest may be the same: the run was created within two seconds of the
\* dispatch or after it.
FreshEvidence == \A g \in Gates : GateAt(g, "success") => gate[g].run > gate[g].since

\* A verifier starts one run at most, answered or not (dispatchWorkflow).
OneDispatch == \A k, l \in DOMAIN runs : runs[k].by = runs[l].by => k = l

\* What passes the gate is the evidence of this very verification.
ReleaseGateIsSafe == GateTypeOK /\ EvidenceIsExact /\ FreshEvidence /\ OneDispatch
================================================================================
