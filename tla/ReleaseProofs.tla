---------------------------- MODULE ReleaseProofs ----------------------------
(***************************************************************************)
(* Theorems about what stands between a commit and its release, and        *)
(* between a start of the released program and its writes, each for every  *)
(* value of its constants.                                                 *)
(***************************************************************************)
EXTENDS ReleaseGate, RunEntry, CapabilityProbe, ReleaseCut, FiniteSetTheorems, WellFoundedInduction, TLAPS

-----------------------------------------------------------------------------
(* The release gate                                                        *)

Results == {"success", "failure"}
Archives == {"none", "torn", "whole"}
Evidence == [ReleaseTags -> 0..2]
ProviderRun ==
    [corr : {Correlation[g] : g \in Gates}, by : Gates, ev : Evidence, head : {1, 2},
     titled : BOOLEAN, pending : BOOLEAN, results : Seq(Results), evidence : Seq(Archives)]
GateState ==
    [pc : {"resolve", "dispatch", "lookup", "identify", "wait", "evidence", "success", "stopped"},
     next : 1..Len(TagOrder), ev : Evidence, since : Nat, run : Nat, polls : 0..MaxPolls]

\* A run says truly who dispatched it, and has one archive for every attempt.
RunOK(r) == r.corr = Correlation[r.by] /\ Len(r.evidence) = Len(r.results)

\* What verifier g in state v has established of the runs rs.
Verified(g, v, rs) ==
    /\ v.run \in 0..Len(rs) /\ v.since \in 0..Len(rs)
    /\ v.pc = "resolve" => \A k \in 1..(v.next - 1) : TagOrder[k] \in Pinned => v.ev[TagOrder[k]] = 1
    /\ v.pc \notin {"resolve", "stopped"} => \A t \in Pinned : v.ev[t] = 1
    /\ v.pc \in {"resolve", "dispatch"} => \A k \in DOMAIN rs : rs[k].by # g
    /\ v.pc = "identify" => v.run \in DOMAIN rs
    /\ v.pc \in {"wait", "evidence", "success"} =>
         /\ v.run \in DOMAIN rs /\ v.run > v.since
         /\ rs[v.run].corr = Correlation[g] /\ rs[v.run].head = v.ev[TagOrder[1]]
    /\ v.pc \in {"evidence", "success"} =>
         Len(rs[v.run].results) >= 1 /\ rs[v.run].results[1] = "success"
    /\ v.pc = "success" => rs[v.run].ev = v.ev /\ rs[v.run].evidence[1] = "whole"

GateInv ==
    /\ tagged \in [ReleaseTags -> {1, 2}] /\ gateFaults \in 0..MaxGateFaults
    /\ runs \in Seq(ProviderRun) /\ \A k \in DOMAIN runs : RunOK(runs[k])
    /\ gate \in [Gates -> GateState] /\ \A g \in Gates : Verified(g, gate[g], runs)
    /\ OneDispatch

LEMMA ZeroPolls == 0 \in 0..MaxPolls
BY GateAssumption

\* A step of one verifier that leaves the provider's runs alone.
LEMMA GateMoves ==
    ASSUME GateInv, NEW g \in Gates, NEW s \in GateState, gate' = [gate EXCEPT ![g] = s],
           UNCHANGED <<tagged, runs>>, UNCHANGED gateFaults \/ GateFault, Verified(g, s, runs)
    PROVE  GateInv'
<1>1. gate' \in [Gates -> GateState]
  BY DEF GateInv
<1>2. gateFaults' \in 0..MaxGateFaults
  BY GateAssumption DEF GateInv, GateFault
<1>3. \A h \in Gates : Verified(h, gate'[h], runs)
  BY DEF GateInv
<1>4. \A h \in Gates : Verified(h, gate'[h], runs')
  BY <1>3
<1> QED
  BY <1>1, <1>2, <1>4 DEF GateInv, OneDispatch

LEMMA GateToFields ==
    ASSUME GateInv, NEW g \in Gates, NEW pc, GateTo(g, pc)
    PROVE  \E s : /\ gate' = [gate EXCEPT ![g] = s]
                  /\ s = [gate[g] EXCEPT !.pc = pc, !.polls = 0]
BY DEF GateTo, GateInv

LEMMA GateStops ==
    ASSUME GateInv, NEW g \in Gates, GateTo(g, "stopped"), UNCHANGED <<tagged, runs>>,
           UNCHANGED gateFaults \/ GateFault
    PROVE  GateInv'
<1> DEFINE s == [gate[g] EXCEPT !.pc = "stopped", !.polls = 0]
<1>1. gate[g] \in GateState /\ Verified(g, gate[g], runs)
  BY DEF GateInv
<1>2. /\ s \in GateState /\ s.pc = "stopped" /\ s.run = gate[g].run /\ s.since = gate[g].since
  BY <1>1, ZeroPolls DEF GateState
<1>3. gate' = [gate EXCEPT ![g] = s]
  BY GateToFields
<1> HIDE DEF s
<1>4. Verified(g, s, runs)
  BY <1>1, <1>2 DEF Verified
<1> QED
  BY <1>2, <1>3, <1>4, GateMoves

\* Another poll changes nothing else, or is one too many.
LEMMA GatePolls ==
    ASSUME GateInv, NEW g \in Gates, Poll(g), UNCHANGED <<tagged, runs, gateFaults>>
    PROVE  GateInv'
<1> DEFINE s == [gate[g] EXCEPT !.polls = @ + 1]
<1>1. gate[g] \in GateState /\ Verified(g, gate[g], runs)
  BY DEF GateInv
<1>2. CASE gate[g].polls < MaxPolls /\ gate' = [gate EXCEPT ![g].polls = @ + 1]
  <2>1. gate[g].polls + 1 \in 0..MaxPolls
    BY <1>1, <1>2, GateAssumption DEF GateState
  <2>2. /\ s \in GateState /\ s.pc = gate[g].pc /\ s.run = gate[g].run /\ s.since = gate[g].since
        /\ s.next = gate[g].next /\ s.ev = gate[g].ev
    BY <1>1, <2>1 DEF GateState
  <2>3. gate' = [gate EXCEPT ![g] = s]
    BY <1>2 DEF GateInv
  <2> HIDE DEF s
  <2>4. Verified(g, s, runs)
    BY <1>1, <2>2 DEF Verified
  <2> QED
    BY <2>2, <2>3, <2>4, GateMoves
<1> QED
  BY <1>2, GateStops DEF Poll

\* A run whose identity a verifier has compared is awaited.
LEMMA GateAwaits ==
    ASSUME GateInv, NEW g \in Gates, NEW k \in DOMAIN runs, RunIdentity(g, k),
           gate[g].pc \in {"lookup", "identify"},
           gate' = [gate EXCEPT ![g].pc = "wait", ![g].run = k, ![g].polls = 0],
           UNCHANGED <<tagged, runs, gateFaults>>
    PROVE  GateInv'
<1> DEFINE s == [gate[g] EXCEPT !.pc = "wait", !.run = k, !.polls = 0]
<1>1. gate[g] \in GateState /\ Verified(g, gate[g], runs) /\ runs \in Seq(ProviderRun)
  BY DEF GateInv
<1>2. k \in Nat /\ k \in 0..Len(runs)
  BY <1>1
<1>3. /\ s \in GateState /\ s.pc = "wait" /\ s.run = k /\ s.since = gate[g].since /\ s.ev = gate[g].ev
  BY <1>1, <1>2, ZeroPolls DEF GateState
<1>4. gate' = [gate EXCEPT ![g] = s]
  BY DEF GateInv
<1> HIDE DEF s
<1>5. Verified(g, s, runs)
  BY <1>1, <1>2, <1>3 DEF Verified, RunIdentity, Hydrated
<1> QED
  BY <1>3, <1>4, <1>5, GateMoves

LEMMA LookupKeeps == ASSUME GateInv, NEW g \in Gates, LookupRun(g) PROVE GateInv'
<1> DEFINE matches == {k \in DOMAIN runs : RunIdentity(g, k)}
<1>1. gate[g].pc = "lookup" /\ UNCHANGED <<tagged, runs>>
  BY DEF LookupRun, GateAt
<1>2. CASE Elect(g, matches) /\ UNCHANGED gateFaults
  <2>1. CASE matches = {} /\ Poll(g)
    BY <1>1, <1>2, <2>1, GatePolls
  <2>2. CASE GateTo(g, "stopped")
    BY <1>1, <1>2, <2>2, GateStops
  <2>3. CASE /\ matches # {}
             /\ gate' = [gate EXCEPT ![g].pc = "wait", ![g].run = CHOOSE k \in matches : TRUE, ![g].polls = 0]
    <3>1. PICK k \in matches : k = CHOOSE j \in matches : TRUE
      BY <2>3
    <3>2. gate' = [gate EXCEPT ![g].pc = "wait", ![g].run = k, ![g].polls = 0]
      BY <2>3, <3>1
    <3>3. k \in DOMAIN runs /\ RunIdentity(g, k)
      BY <3>1
    <3> QED
      BY <1>1, <1>2, <3>2, <3>3, GateAwaits
  <2> HIDE DEF matches
  <2> QED
    BY <1>2, <2>1, <2>2, <2>3 DEF Elect
<1> QED
  BY <1>1, <1>2, GateStops DEF LookupRun

LEMMA IdentifyKeeps == ASSUME GateInv, NEW g \in Gates, IdentifyRun(g) PROVE GateInv'
<1>1. gate[g].pc = "identify" /\ UNCHANGED <<tagged, runs>> /\ gate[g].run \in DOMAIN runs
  BY DEF IdentifyRun, GateAt, GateInv, Verified
<1>2. CASE RunIdentity(g, gate[g].run) /\ GateTo(g, "wait") /\ UNCHANGED gateFaults
  <2>1. gate' = [gate EXCEPT ![g].pc = "wait", ![g].run = gate[g].run, ![g].polls = 0]
    <3>1. [gate[g] EXCEPT !.pc = "wait", !.polls = 0]
            = [gate[g] EXCEPT !.pc = "wait", !.run = gate[g].run, !.polls = 0]
      BY DEF GateInv, GateState
    <3>2. gate' = [gate EXCEPT ![g] = [gate[g] EXCEPT !.pc = "wait", !.polls = 0]]
      BY <1>2, GateToFields
    <3> QED
      BY <3>1, <3>2 DEF GateInv
  <2> QED
    BY <1>1, <1>2, <2>1, GateAwaits
<1> QED
  BY <1>1, <1>2, GateStops, GatePolls DEF IdentifyRun

\* A terminal first attempt is judged by its own result.
LEMMA AwaitKeeps == ASSUME GateInv, NEW g \in Gates, AwaitRun(g) PROVE GateInv'
<1> DEFINE r == runs[gate[g].run]
           s == [gate[g] EXCEPT !.pc = "evidence", !.polls = 0]
<1>1. /\ gate[g].pc = "wait" /\ UNCHANGED <<tagged, runs>> /\ Verified(g, gate[g], runs)
      /\ gate[g] \in GateState
  BY DEF AwaitRun, GateAt, GateInv
<1>2. r \in ProviderRun
  BY <1>1 DEF GateInv, Verified
<1>3. CASE /\ RunIdentity(g, gate[g].run) /\ ~r.pending /\ UNCHANGED gateFaults
           /\ r.results[1] = "success" /\ GateTo(g, "evidence")
  <2>1. Len(r.results) >= 1
    <3>1. Attempt(r) = 1
      BY <1>3 DEF RunIdentity, Hydrated
    <3>2. Attempt(r) = Len(r.results) + 0
      BY <1>3 DEF Attempt
    <3>3. Len(r.results) \in Nat
      BY <1>2 DEF ProviderRun
    <3> QED
      BY <3>1, <3>2, <3>3, SMT
  <2>2. /\ s \in GateState /\ s.pc = "evidence" /\ s.run = gate[g].run /\ s.since = gate[g].since
        /\ s.ev = gate[g].ev
    BY <1>1, ZeroPolls DEF GateState
  <2>3. gate' = [gate EXCEPT ![g] = s]
    BY <1>3, GateToFields
  <2> HIDE DEF s
  <2>4. Verified(g, s, runs)
    BY <1>1, <1>3, <2>1, <2>2 DEF Verified
  <2> QED
    BY <1>1, <1>3, <2>2, <2>3, <2>4, GateMoves
<1> QED
  BY <1>1, <1>3, GateStops, GatePolls DEF AwaitRun

LEMMA AcceptKeeps == ASSUME GateInv, NEW g \in Gates, AcceptEvidence(g) PROVE GateInv'
<1> DEFINE r == runs[gate[g].run]
           s == [gate[g] EXCEPT !.pc = "success", !.polls = 0]
<1>1. /\ gate[g].pc = "evidence" /\ UNCHANGED <<tagged, runs>> /\ Verified(g, gate[g], runs)
      /\ gate[g] \in GateState
  BY DEF AcceptEvidence, GateAt, GateInv
<1>2. CASE /\ Readable(r.evidence[1]) /\ r.ev = gate[g].ev /\ GateTo(g, "success")
           /\ UNCHANGED gateFaults
  <2>1. /\ s \in GateState /\ s.pc = "success" /\ s.run = gate[g].run /\ s.since = gate[g].since
        /\ s.ev = gate[g].ev
    BY <1>1, ZeroPolls DEF GateState
  <2>2. gate' = [gate EXCEPT ![g] = s]
    BY <1>2, GateToFields
  <2> HIDE DEF s
  <2>3. Verified(g, s, runs)
    BY <1>1, <1>2, <2>1 DEF Verified, Readable
  <2> QED
    BY <1>1, <1>2, <2>1, <2>2, <2>3, GateMoves
<1> QED
  BY <1>1, <1>2, GateStops, GatePolls DEF AcceptEvidence

\* What a run of the provider may become: nothing of its identity changes, and the
\* result and the archive of its first attempt stay.
Becomes(r, s) ==
    /\ s.corr = r.corr /\ s.by = r.by /\ s.ev = r.ev /\ s.head = r.head
    /\ Len(r.results) >= 1 => /\ Len(s.results) >= 1 /\ s.results[1] = r.results[1]
                              /\ s.evidence[1] = r.evidence[1]

\* A step of the provider's platform.
LEMMA GateRunChanges ==
    ASSUME GateInv, NEW k \in DOMAIN runs, NEW r \in ProviderRun,
           runs' = [runs EXCEPT ![k] = r], Becomes(runs[k], r), RunOK(r),
           UNCHANGED <<tagged, gate>>, UNCHANGED gateFaults \/ GateFault
    PROVE  GateInv'
<1>1. runs \in Seq(ProviderRun) /\ \A l \in DOMAIN runs : RunOK(runs[l])
  BY DEF GateInv
<1>2. /\ runs' \in Seq(ProviderRun) /\ Len(runs') = Len(runs) /\ DOMAIN runs' = DOMAIN runs
      /\ runs'[k] = r /\ \A l \in DOMAIN runs \ {k} : runs'[l] = runs[l]
  BY <1>1
<1>3. \A l \in DOMAIN runs : RunOK(runs'[l])
  BY <1>1, <1>2
<1>4. \A l \in DOMAIN runs : Becomes(runs[l], runs'[l])
  <2>1. ASSUME NEW l \in DOMAIN runs, l # k PROVE Becomes(runs[l], runs'[l])
    <3>1. runs[l] \in ProviderRun /\ RunOK(runs[l]) /\ runs'[l] = runs[l]
      BY <1>1, <1>2, <2>1
    <3> QED
      BY <3>1 DEF Becomes
  <2> QED
    BY <1>2, <2>1
<1>5. ASSUME NEW g \in Gates PROVE Verified(g, gate[g], runs')
  <2>1. Verified(g, gate[g], runs)
    BY DEF GateInv
  <2>2. \A l \in DOMAIN runs : runs'[l].by = runs[l].by
    BY <1>4 DEF Becomes
  <2>3. gate[g].run \in DOMAIN runs => Becomes(runs[gate[g].run], runs'[gate[g].run])
    BY <1>4
  <2>4. gate[g].pc \in {"evidence", "success"} => gate[g].run \in DOMAIN runs
    BY <2>1 DEF Verified
  <2> QED
    BY <1>2, <2>1, <2>2, <2>3, <2>4 DEF Verified, Becomes
<1>6. OneDispatch'
  BY <1>2, <1>4 DEF OneDispatch, GateInv, Becomes
<1>7. gateFaults' \in 0..MaxGateFaults
  BY GateAssumption DEF GateInv, GateFault
<1>8. \A g \in Gates : Verified(g, gate'[g], runs')
  BY <1>5
<1> QED
  BY <1>2, <1>3, <1>6, <1>7, <1>8 DEF GateInv

LEMMA PlatformKeeps ==
    ASSUME GateInv, NEW k \in DOMAIN runs, Hydrate(k) \/ Conclude(k) \/ StartAgain(k) PROVE GateInv'
<1>1. runs[k] \in ProviderRun /\ RunOK(runs[k])
  BY DEF GateInv
<1>2. CASE Hydrate(k)
  <2> DEFINE r == [runs[k] EXCEPT !.titled = TRUE]
  <2>1. r \in ProviderRun /\ Becomes(runs[k], r) /\ RunOK(r)
    BY <1>1 DEF ProviderRun, Becomes, RunOK
  <2>2. runs' = [runs EXCEPT ![k] = r]
    BY <1>2 DEF Hydrate, GateInv
  <2> HIDE DEF r
  <2> QED
    BY <1>2, <2>1, <2>2, GateRunChanges DEF Hydrate
<1>3. CASE StartAgain(k)
  <2> DEFINE r == [runs[k] EXCEPT !.pending = TRUE]
  <2>1. r \in ProviderRun /\ Becomes(runs[k], r) /\ RunOK(r)
    BY <1>1 DEF ProviderRun, Becomes, RunOK
  <2>2. runs' = [runs EXCEPT ![k] = r]
    BY <1>3 DEF StartAgain, GateInv
  <2> HIDE DEF r
  <2> QED
    BY <1>3, <2>1, <2>2, GateRunChanges DEF StartAgain
<1>4. CASE Conclude(k)
  <2>1. PICK result \in Results, archive \in Archives :
          /\ runs' = [runs EXCEPT ![k].pending = FALSE, ![k].results = Append(@, result),
                                  ![k].evidence = Append(@, archive)]
          /\ IF archive = "whole" THEN UNCHANGED gateFaults ELSE GateFault
    BY <1>4 DEF Conclude, Results, Archives
  <2> DEFINE e == Append(runs[k].evidence, archive)
             t == Append(runs[k].results, result)
             r == [runs[k] EXCEPT !.pending = FALSE, !.results = t, !.evidence = e]
  <2>2. runs[k].evidence \in Seq(Archives) /\ runs[k].results \in Seq(Results)
    BY <1>1 DEF ProviderRun
  <2>3. /\ e \in Seq(Archives) /\ t \in Seq(Results) /\ Len(e) = Len(t)
        /\ Len(runs[k].results) >= 1 =>
             Len(t) >= 1 /\ t[1] = runs[k].results[1] /\ e[1] = runs[k].evidence[1]
    BY <1>1, <2>2 DEF RunOK
  <2>4. runs' = [runs EXCEPT ![k] = r]
    BY <2>1 DEF GateInv
  <2> HIDE DEF e, t
  <2>5. r \in ProviderRun /\ Becomes(runs[k], r) /\ RunOK(r)
    BY <1>1, <2>3 DEF ProviderRun, Becomes, RunOK
  <2> HIDE DEF r
  <2> QED
    BY <1>4, <2>1, <2>4, <2>5, GateRunChanges DEF Conclude
<1> QED
  BY <1>2, <1>3, <1>4

LEMMA MoveTagKeeps == ASSUME GateInv, NEW t \in ReleaseTags, MoveTag(t) PROVE GateInv'
<1>1. tagged' \in [ReleaseTags -> {1, 2}]
  BY DEF MoveTag, GateInv
<1>2. gateFaults' \in 0..MaxGateFaults
  BY GateAssumption DEF GateInv, GateFault, MoveTag
<1> QED
  BY <1>1, <1>2 DEF GateInv, OneDispatch, MoveTag

\* A pinned tag that is resolved is at its pinned commit.
LEMMA ResolveTagKeeps == ASSUME GateInv, NEW g \in Gates, ResolveTag(g) PROVE GateInv'
<1> DEFINE v == gate[g]
           t == TagOrder[v.next]
           w == [v.ev EXCEPT ![t] = tagged[t]]
           more == [v EXCEPT !.ev = w, !.next = @ + 1]
           last == [v EXCEPT !.ev = w, !.pc = "dispatch"]
<1>1. v.pc = "resolve" /\ v \in GateState /\ Verified(g, v, runs) /\ UNCHANGED <<tagged, runs>>
  BY DEF ResolveTag, GateAt, GateInv
<1>2. /\ Len(TagOrder) \in Nat /\ DOMAIN TagOrder = 1..Len(TagOrder) /\ v.next \in 1..Len(TagOrder)
      /\ t \in ReleaseTags /\ \A k \in 1..Len(TagOrder) : TagOrder[k] \in ReleaseTags
  BY <1>1, GateAssumption DEF GateState
<1>3. v.ev \in Evidence /\ tagged[t] \in {1, 2} /\ w \in Evidence
  BY <1>1, <1>2 DEF GateState, Evidence, GateInv
<1>4. CASE /\ t \notin Pinned \/ tagged[t] = 1
           /\ gate' = [gate EXCEPT ![g] =
                          IF v.next < Len(TagOrder)
                          THEN [v EXCEPT !.ev[t] = tagged[t], !.next = @ + 1]
                          ELSE [[v EXCEPT !.ev[t] = tagged[t], !.next = @ + 1] EXCEPT
                                   !.next = v.next, !.pc = "dispatch"]]
           /\ UNCHANGED gateFaults
  <2>1. \A k \in 1..v.next : TagOrder[k] \in Pinned => w[TagOrder[k]] = 1
    <3>1. ASSUME NEW k \in 1..v.next, TagOrder[k] \in Pinned PROVE w[TagOrder[k]] = 1
      <4>1. TagOrder[k] \in ReleaseTags
        BY <1>2
      <4>2. CASE TagOrder[k] = t
        BY <1>2, <1>3, <1>4, <3>1, <4>2 DEF Evidence
      <4>3. CASE TagOrder[k] # t
        <5>1. k \in 1..(v.next - 1)
          BY <1>2, <4>3
        <5>2. v.ev[TagOrder[k]] = 1
          BY <1>1, <3>1, <5>1 DEF Verified
        <5> QED
          BY <1>3, <4>1, <4>3, <5>2 DEF Evidence
      <4> QED
        BY <4>2, <4>3
    <3> QED
      BY <3>1
  <2>2. CASE v.next < Len(TagOrder)
    <3>1. gate' = [gate EXCEPT ![g] = more]
      BY <1>4, <2>2
    <3>2. v.next + 1 \in 1..Len(TagOrder) /\ (v.next + 1) - 1 = v.next
      BY <1>2, <2>2
    <3> HIDE DEF w
    <3>3. /\ more \in GateState /\ more.pc = "resolve" /\ more.run = v.run /\ more.since = v.since
          /\ more.ev = w /\ more.next = v.next + 1
      BY <1>1, <1>3, <3>2 DEF GateState
    <3> HIDE DEF more
    <3>4. Verified(g, more, runs)
      BY <1>1, <2>1, <3>2, <3>3 DEF Verified
    <3> QED
      BY <1>1, <1>4, <3>1, <3>3, <3>4, GateMoves
  <2>3. CASE ~ (v.next < Len(TagOrder))
    <3>1. gate' = [gate EXCEPT ![g] = last]
      <4>1. [[v EXCEPT !.ev[t] = tagged[t], !.next = @ + 1] EXCEPT !.next = v.next, !.pc = "dispatch"] = last
        BY <1>1, <1>3 DEF GateState
      <4> QED
        BY <1>4, <2>3, <4>1
    <3>2. v.next = Len(TagOrder)
      BY <1>2, <2>3
    <3>3. \A u \in Pinned : w[u] = 1
      <4>1. \A u \in Pinned : \E k \in 1..Len(TagOrder) : u = TagOrder[k]
        BY <1>2, GateAssumption DEF ReleaseTags
      <4> QED
        BY <2>1, <3>2, <4>1
    <3> HIDE DEF w
    <3>4. /\ last \in GateState /\ last.pc = "dispatch" /\ last.run = v.run /\ last.since = v.since
          /\ last.ev = w
      BY <1>1, <1>3 DEF GateState
    <3> HIDE DEF last
    <3>5. Verified(g, last, runs)
      BY <1>1, <3>3, <3>4 DEF Verified
    <3> QED
      BY <1>1, <1>4, <3>1, <3>4, <3>5, GateMoves
  <2> QED
    BY <2>2, <2>3
<1>5. CASE GateTo(g, "stopped") /\ (UNCHANGED gateFaults \/ GateFault)
  BY <1>1, <1>5, GateStops
<1> QED
  BY <1>4, <1>5 DEF ResolveTag

\* A verifier that dispatches has no run yet, and afterwards one, the last.
LEMMA Dispatched ==
    ASSUME GateInv, NEW g \in Gates, gate[g].pc = "dispatch", NEW s \in GateState,
           gate' = [gate EXCEPT ![g] = s], runs' = Append(runs, NewRun(g)), UNCHANGED tagged,
           UNCHANGED gateFaults \/ GateFault, s.pc \in {"lookup", "identify", "stopped"},
           s.ev = gate[g].ev, s.since \in 0..Len(runs), s.run \in 0..(Len(runs) + 1),
           s.pc = "identify" => s.run = Len(runs) + 1
    PROVE  GateInv'
<1> DEFINE n == Len(runs) + 1
           r == NewRun(g)
<1>1. /\ runs \in Seq(ProviderRun) /\ \A k \in DOMAIN runs : RunOK(runs[k])
      /\ gate[g] \in GateState /\ Verified(g, gate[g], runs) /\ OneDispatch
      /\ gate \in [Gates -> GateState]
  BY DEF GateInv
<1>2. r \in ProviderRun /\ RunOK(r) /\ r.by = g
  <2>1. gate[g].ev \in Evidence
    BY <1>1 DEF GateState
  <2>2. tagged[TagOrder[1]] \in {1, 2}
    BY GateAssumption DEF GateInv
  <2>3. <<>> \in Seq(Results) /\ <<>> \in Seq(Archives)
    OBVIOUS
  <2> QED
    BY <2>1, <2>2, <2>3 DEF NewRun, ProviderRun, RunOK
<1> HIDE DEF r
<1>3. /\ runs' \in Seq(ProviderRun) /\ Len(runs') = n /\ DOMAIN runs' = DOMAIN runs \cup {n}
      /\ runs'[n] = r /\ \A k \in DOMAIN runs : runs'[k] = runs[k]
      /\ n \notin DOMAIN runs /\ Len(runs) \in Nat
  BY <1>1, <1>2 DEF r
<1>4. \A k \in DOMAIN runs : runs[k].by # g
  BY <1>1 DEF Verified
<1>5. \A k \in DOMAIN runs' : RunOK(runs'[k])
  BY <1>1, <1>2, <1>3
<1>6. OneDispatch'
  BY <1>1, <1>2, <1>3, <1>4 DEF OneDispatch
<1>7. Verified(g, s, runs')
  <2>1. \A t \in Pinned : s.ev[t] = 1
    BY <1>1 DEF Verified
  <2>2. s.run \in 0..Len(runs') /\ s.since \in 0..Len(runs')
    BY <1>3
  <2> QED
    BY <1>3, <2>1, <2>2 DEF Verified
<1>8. ASSUME NEW h \in Gates, h # g PROVE Verified(h, gate[h], runs')
  <2>1. Verified(h, gate[h], runs) /\ gate[h] \in GateState
    BY <1>1 DEF GateInv
  <2>2. gate[h].run \in 0..Len(runs') /\ gate[h].since \in 0..Len(runs')
    BY <1>3, <2>1 DEF Verified
  <2>3. gate[h].pc \in {"wait", "evidence", "success"} => runs'[gate[h].run] = runs[gate[h].run]
    BY <1>3, <2>1 DEF Verified
  <2>4. (\A k \in DOMAIN runs : runs[k].by # h) => (\A k \in DOMAIN runs' : runs'[k].by # h)
    BY <1>2, <1>3, <1>8
  <2> QED
    BY <1>3, <2>1, <2>2, <2>3, <2>4 DEF Verified
<1>9. gate' \in [Gates -> GateState] /\ \A h \in Gates : Verified(h, gate'[h], runs')
  BY <1>1, <1>7, <1>8
<1>10. gateFaults' \in 0..MaxGateFaults
  BY GateAssumption DEF GateInv, GateFault
<1> QED
  BY <1>3, <1>5, <1>6, <1>9, <1>10 DEF GateInv

LEMMA DispatchKeeps == ASSUME GateInv, NEW g \in Gates, Dispatch(g) PROVE GateInv'
<1>1. /\ gate[g].pc = "dispatch" /\ UNCHANGED tagged /\ gate[g] \in GateState
      /\ Len(runs) \in Nat /\ gate[g].run \in 0..Len(runs) /\ gate[g].since \in 0..Len(runs)
  <2>1. runs \in Seq(ProviderRun) /\ gate[g] \in GateState /\ Verified(g, gate[g], runs)
    BY DEF GateInv
  <2>2. gate[g].pc = "dispatch" /\ UNCHANGED tagged
    BY Zenon DEF Dispatch, GateAt
  <2>3. gate[g].run \in 0..Len(runs) /\ gate[g].since \in 0..Len(runs)
    BY <2>1 DEF Verified
  <2>4. Len(runs) \in Nat
    BY <2>1
  <2> QED
    BY <2>1, <2>2, <2>3, <2>4
<1>2. CASE GateTo(g, "stopped") /\ GateFault
  <2> DEFINE s == [gate[g] EXCEPT !.pc = "stopped", !.polls = 0]
  <2>1. CASE runs' = runs
    BY <1>1, <1>2, <2>1, GateStops
  <2>2. CASE runs' = Append(runs, NewRun(g))
    <3>1. gate' = [gate EXCEPT ![g] = s]
      BY <1>2, GateToFields
    <3>2. /\ s \in GateState /\ s.pc = "stopped" /\ s.run = gate[g].run /\ s.since = gate[g].since
          /\ s.ev = gate[g].ev
      BY <1>1, ZeroPolls DEF GateState
    <3> HIDE DEF s
    <3>3. s.run \in 0..(Len(runs) + 1) /\ s.since \in 0..Len(runs)
      BY <1>1, <3>2
    <3> QED
      BY <1>1, <1>2, <2>2, <3>1, <3>2, <3>3, Dispatched
  <2> QED
    BY <1>2, <2>1, <2>2 DEF Dispatch
<1>3. ASSUME NEW named \in BOOLEAN, NEW late \in {0, 1}, Len(runs) - late \in Nat,
             runs' = Append(runs, NewRun(g)), UNCHANGED gateFaults,
             gate' = [gate EXCEPT ![g].pc = IF named THEN "identify" ELSE "lookup",
                                  ![g].run = IF named THEN Len(runs) + 1 ELSE 0,
                                  ![g].since = Len(runs) - late]
      PROVE  GateInv'
  <2> DEFINE p == IF named THEN "identify" ELSE "lookup"
             n == IF named THEN Len(runs) + 1 ELSE 0
             l == Len(runs) - late
             s == [gate[g] EXCEPT !.pc = p, !.run = n, !.since = l]
  <2>1. /\ p \in {"lookup", "identify"} /\ n \in 0..(Len(runs) + 1) /\ n \in Nat
        /\ p = "identify" => n = Len(runs) + 1
    BY <1>1
  <2>2. l \in 0..Len(runs) /\ l \in Nat
    BY <1>1, <1>3
  <2>3. gate' = [gate EXCEPT ![g] = s]
    BY <1>3 DEF GateInv
  <2> HIDE DEF p, n, l
  <2>4. s \in GateState /\ s.pc = p /\ s.run = n /\ s.since = l /\ s.ev = gate[g].ev
    BY <1>1, <2>1, <2>2 DEF GateState
  <2> HIDE DEF s
  <2> QED
    BY <1>1, <1>3, <2>1, <2>2, <2>3, <2>4, Dispatched
<1> QED
  BY <1>2, <1>3 DEF Dispatch

LEMMA GateKeeps == ASSUME GateInv, [GateNext]_gateVars PROVE GateInv'
<1>1. CASE UNCHANGED gateVars
  BY <1>1 DEF gateVars, GateInv, OneDispatch
<1>2. CASE GateNext
  BY <1>2, ResolveTagKeeps, DispatchKeeps, LookupKeeps, IdentifyKeeps, AwaitKeeps, AcceptKeeps,
     PlatformKeeps, MoveTagKeeps DEF GateNext
<1> QED
  BY <1>1, <1>2

\* What passes the release gate is the first attempt of this verification's own
\* run, at the provider's pinned commit, for its own manifest, and nothing an
\* earlier or a concurrent verifier left (verify-e2e-release.mjs): for any number
\* of verifiers, tags and polls, whichever tags move, runs are started again and
\* calls go unanswered.
THEOREM GateSafe == GateSpec => []ReleaseGateIsSafe
<1>1. GateInit => GateInv
  <2> SUFFICES ASSUME GateInit PROVE GateInv
    OBVIOUS
  <2>1. 0 \in 0..MaxGateFaults /\ 0 \in 0..MaxPolls /\ Len(TagOrder) \in Nat /\ 1 \in 1..Len(TagOrder)
    BY GateAssumption
  <2>2. runs = <<>> /\ runs \in Seq(ProviderRun) /\ Len(runs) = 0 /\ DOMAIN runs = {}
    BY DEF GateInit
  <2>3. ASSUME NEW g \in Gates PROVE gate[g] \in GateState /\ Verified(g, gate[g], runs)
    <3>1. gate[g] = [pc |-> "resolve", next |-> 1, ev |-> Unresolved, since |-> 0, run |-> 0, polls |-> 0]
      BY DEF GateInit
    <3>2. Unresolved \in Evidence
      BY DEF Unresolved, Evidence
    <3>3. gate[g] \in GateState
      BY <2>1, <3>1, <3>2 DEF GateState
    <3> QED
      BY <2>1, <2>2, <3>1, <3>3 DEF Verified
  <2> QED
    BY <2>1, <2>2, <2>3 DEF GateInit, GateInv, OneDispatch
<1>2. GateInv => ReleaseGateIsSafe
  <2> SUFFICES ASSUME GateInv PROVE ReleaseGateIsSafe
    OBVIOUS
  <2>1. \A g \in Gates : gate[g] \in GateState /\ Verified(g, gate[g], runs)
    BY DEF GateInv
  <2>2. GateTypeOK
    BY <2>1 DEF GateInv, GateTypeOK, GateState, Evidence, Verified
  <2>3. FreshEvidence
    BY <2>1 DEF FreshEvidence, GateAt, Verified
  <2>4. EvidenceIsExact
    <3> SUFFICES ASSUME NEW g \in Gates, gate[g].pc = "success"
                 PROVE  LET r == runs[gate[g].run] IN
                        /\ r.ev = gate[g].ev /\ r.head = 1 /\ \A t \in Pinned : r.ev[t] = 1
                        /\ r.results[1] = "success" /\ r.evidence[1] = "whole"
                        /\ r.by # g => Correlation[r.by] = Correlation[g]
      BY DEF EvidenceIsExact, GateAt
    <3> DEFINE r == runs[gate[g].run]
    <3>1. /\ gate[g].run \in DOMAIN runs /\ r.corr = Correlation[g] /\ r.head = gate[g].ev[TagOrder[1]]
          /\ r.results[1] = "success" /\ r.ev = gate[g].ev /\ r.evidence[1] = "whole"
          /\ \A t \in Pinned : gate[g].ev[t] = 1
      BY <2>1 DEF Verified
    <3>2. r.corr = Correlation[r.by]
      BY <3>1 DEF GateInv, RunOK
    <3>3. r.head = 1
      BY <3>1, GateAssumption
    <3> QED
      BY <3>1, <3>2, <3>3
  <2> QED
    BY <2>2, <2>3, <2>4 DEF ReleaseGateIsSafe, GateInv
<1> QED
  BY <1>1, <1>2, GateKeeps, PTL DEF GateSpec

-----------------------------------------------------------------------------
(* How a run comes to write                                                *)

ToTeams == {"inputs", "mint", "preflight", "early", "build", "probe", "select", "teams"}
Placing == {"configure", "create", "assets", "result"}
EntryRun ==
    [pc : ToTeams \cup Placing \cup {"gate", "done", "failed"}, token : BOOLEAN, tries : Nat,
     org : BOOLEAN, workspace : BOOLEAN, team : Squads \cup {NoTeam}, probed : BOOLEAN]

EntryTypes ==
    /\ input \in Inputs /\ account \in Accounts /\ run \in EntryRun
    /\ identity \in {"none", "team", "teamless"}

\* The context all clients are to write in, and where a run that makes its
\* workspace in an organisation is to make it.
ToScope == [team |-> IF run.team # NoTeam THEN run.team ELSE TeamId, org |-> run.org]
InSquad ==
    run.workspace = FALSE /\ account.squads # {} /\ identity = "team" =>
        run.org = TRUE /\ run.team \in account.squads

\* What has let the run come this far.
Admitted ==
    /\ Gated => run.pc \in {"inputs", "gate", "done", "failed"} /\ \A s \in sent : s.what = "result"
    /\ input.preflight = "enforce" /\ run.pc \in {"early", "build", "probe", "select", "teams"} \cup Placing
         => identity # "none"
    /\ run.pc \in ToTeams => run.team = NoTeam
    /\ run.team # NoTeam => run.org = TRUE
    /\ run.pc \in Placing => InSquad
    /\ account.link = "invisible" /\ run.probed = TRUE => run.pc = "failed" /\ EntryWrites = {}

\* What has been written, and under which scope.
Written ==
    /\ run.pc \in ToTeams \cup {"gate", "configure", "create"} => EntryWrites = {}
    /\ run.pc \in {"create", "assets"} => scope = [c \in Clients |-> ToScope]
    /\ run.pc = "create" => run.workspace = FALSE
    /\ \A s \in EntryWrites :
         /\ \A c \in Clients : s.scope[c] = ToScope
         /\ input.preflight = "enforce" => s.known
         /\ InSquad /\ (s.what = "create" => run.workspace = FALSE)

EntryInv == EntryTypes /\ Admitted /\ Written

LEMMA NoWritesYet ==
    ASSUME \A s \in sent' : s.what \notin {"create", "assets"}, run'.pc \notin {"create", "assets"}
    PROVE  Written' /\ EntryWrites' = {}
BY DEF Written, EntryWrites

LEMMA EntryToFields ==
    ASSUME run \in EntryRun, NEW pc, EntryTo(pc)
    PROVE  /\ run'.pc = pc /\ run'.team = run.team /\ run'.org = run.org
           /\ run'.workspace = run.workspace /\ run'.probed = run.probed
           /\ pc \in ToTeams \cup Placing \cup {"gate", "done", "failed"} => run' \in EntryRun
BY DEF EntryTo, EntryRun

\* Every way to fail, before anything was written.
LEMMA EarlyFailure ==
    ASSUME EntryInv, EntryTo("failed"), Outside, UNCHANGED identity,
           run.pc \in ToTeams \cup {"gate"}, ~ Gated \/ UNCHANGED sent,
           \A s \in sent' : s \in sent \/ s.what = "mint"
    PROVE  EntryInv'
<1>1. /\ run'.pc = "failed" /\ run'.team = run.team /\ run'.org = run.org /\ run' \in EntryRun
      /\ run'.workspace = run.workspace /\ run'.probed = run.probed
  BY EntryToFields DEF EntryInv, EntryTypes
<1>2. \A s \in sent' : s.what \notin {"create", "assets"}
  BY DEF EntryInv, Written, EntryWrites
<1>3. Written' /\ EntryWrites' = {}
  BY <1>1, <1>2, NoWritesYet
<1>4. EntryTypes'
  BY <1>1 DEF EntryInv, EntryTypes, Outside
<1>5. Admitted'
  BY <1>1, <1>3 DEF EntryInv, Admitted, Outside, Gated, ToTeams, Placing
<1> QED
  BY <1>3, <1>4, <1>5 DEF EntryInv

\* A step towards the teams that sends nothing.
LEMMA EntryGoesOn ==
    ASSUME EntryInv, NothingSent, run.pc \in ToTeams, run' \in EntryRun,
           run'.pc \in ToTeams \cup {"gate", "failed", "configure"},
           Gated => run'.pc \in {"gate", "failed"},
           run'.pc \in {"early", "build", "probe", "select", "teams"} \cup Placing =>
               run.pc \in {"early", "build", "probe", "select", "teams"},
           run'.pc \in ToTeams => run'.team = NoTeam,
           run'.team # NoTeam => run'.org = TRUE,
           run'.pc = "configure" => InSquad',
           account.link = "invisible" /\ run'.probed = TRUE => run'.pc = "failed"
    PROVE  EntryInv'
<1>1. \A s \in sent' : s.what \notin {"create", "assets"}
  BY DEF EntryInv, Written, EntryWrites, NothingSent
<1>2. run'.pc \notin {"create", "assets"}
  BY DEF ToTeams
<1>3. Written' /\ EntryWrites' = {}
  BY <1>1, <1>2, NoWritesYet
<1>4. EntryTypes'
  BY DEF EntryInv, EntryTypes, NothingSent, Outside
<1>5. /\ Gated' => run'.pc \in {"inputs", "gate", "done", "failed"} /\ \A s \in sent' : s.what = "result"
      /\ (input.preflight = "enforce" /\ run.pc \in {"early", "build", "probe", "select", "teams"}
            => identity # "none")
  BY DEF EntryInv, Admitted, NothingSent, Outside, Gated
<1>6. UNCHANGED <<input, account, identity>>
  BY DEF NothingSent, Outside
<1>7. run'.pc \in Placing => run'.pc = "configure"
  BY DEF ToTeams, Placing
<1>8. Admitted'
  BY <1>3, <1>5, <1>6, <1>7 DEF Admitted
<1> QED
  BY <1>3, <1>4, <1>8 DEF EntryInv

LEMMA ReadInputsKeeps == ASSUME EntryInv, ReadInputs PROVE EntryInv'
<1>1. /\ run.pc = "inputs" /\ NothingSent /\ run \in EntryRun
      /\ account.link = "invisible" => ~ (run.probed = TRUE)
  BY DEF ReadInputs, EntryAt, EntryInv, EntryTypes, Admitted
<1>2. PICK pc \in {"failed", "gate", "mint"} : /\ EntryTo(pc)
                                               /\ Gated => pc \in {"failed", "gate"}
  BY DEF ReadInputs
<1>3. /\ run'.pc = pc /\ run'.team = run.team /\ run'.org = run.org /\ run' \in EntryRun
      /\ run'.workspace = run.workspace /\ run'.probed = run.probed
  BY <1>1, <1>2, EntryToFields DEF ToTeams
<1>4. run.team = NoTeam
  BY <1>1 DEF EntryInv, Admitted, ToTeams
<1> QED
  BY <1>1, <1>2, <1>3, <1>4, EntryGoesOn DEF ToTeams, Placing

LEMMA GatedKeeps == ASSUME EntryInv, ValidateGated PROVE EntryInv'
<1>1. /\ run.pc = "gate" /\ Outside /\ UNCHANGED <<identity, scope>> /\ run \in EntryRun
      /\ account.link = "invisible" => ~ (run.probed = TRUE)
  BY DEF ValidateGated, EntryAt, EntryInv, EntryTypes, Admitted
<1>2. CASE EntryTo("done") /\ (sent' = sent \/ Sends("result"))
  <2>1. /\ run'.pc = "done" /\ run'.team = run.team /\ run'.org = run.org /\ run' \in EntryRun
        /\ run'.workspace = run.workspace /\ run'.probed = run.probed
    BY <1>1, <1>2, EntryToFields
  <2>2. \A s \in sent' : s \in sent \/ s.what = "result"
    BY <1>2 DEF Sends
  <2>3. \A s \in sent' : s.what \notin {"create", "assets"}
    BY <1>1, <2>2 DEF EntryInv, Written, EntryWrites
  <2>4. Written' /\ EntryWrites' = {}
    BY <2>1, <2>3, NoWritesYet
  <2>5. EntryTypes'
    BY <1>1, <2>1 DEF EntryInv, EntryTypes, Outside
  <2>6. Gated' => \A s \in sent' : s.what = "result"
    BY <1>1, <2>2 DEF EntryInv, Admitted, Gated, Outside
  <2>7. Admitted'
    BY <1>1, <2>1, <2>4, <2>6 DEF EntryInv, Admitted, Outside, ToTeams, Placing
  <2> QED
    BY <2>4, <2>5, <2>7 DEF EntryInv
<1>3. CASE EntryTo("failed") /\ UNCHANGED sent
  BY <1>1, <1>3, EarlyFailure
<1> QED
  BY <1>2, <1>3 DEF ValidateGated

\* A mint is sent by runs that are not gated only.
LEMMA MintKeeps == ASSUME EntryInv, MintAccessTokenIfNeeded PROVE EntryInv'
<1>1. /\ run.pc = "mint" /\ Outside /\ UNCHANGED <<identity, scope>> /\ run \in EntryRun /\ ~ Gated
      /\ account.link = "invisible" => ~ (run.probed = TRUE)
      /\ run.team = NoTeam
  BY DEF MintAccessTokenIfNeeded, EntryAt, EntryInv, EntryTypes, Admitted, ToTeams
<1>2. \A s \in sent' : s \in sent \/ s.what = "mint"
  BY DEF MintAccessTokenIfNeeded, Sends
<1>3. \A s \in sent' : s.what \notin {"create", "assets"}
  BY <1>1, <1>2 DEF EntryInv, Written, EntryWrites, ToTeams
<1>4. CASE EntryTo("failed")
  BY <1>1, <1>2, <1>4, EarlyFailure DEF ToTeams
<1>5. CASE EntryTo("preflight") \/ run' = [run EXCEPT !.pc = "preflight", !.token = TRUE]
  <2>1. /\ run'.pc = "preflight" /\ run'.team = run.team /\ run'.org = run.org /\ run' \in EntryRun
        /\ run'.workspace = run.workspace /\ run'.probed = run.probed
    <3>1. CASE EntryTo("preflight")
      BY <1>1, <3>1, EntryToFields DEF ToTeams
    <3>2. CASE run' = [run EXCEPT !.pc = "preflight", !.token = TRUE]
      BY <1>1, <3>2 DEF EntryRun, ToTeams
    <3> QED
      BY <1>5, <3>1, <3>2
  <2>2. Written' /\ EntryWrites' = {}
    BY <1>3, <2>1, NoWritesYet
  <2>3. EntryTypes'
    BY <1>1, <2>1 DEF EntryInv, EntryTypes, Outside
  <2>4. Admitted'
    BY <1>1, <2>1, <2>2 DEF EntryInv, Admitted, Outside, Gated, ToTeams, Placing
  <2> QED
    BY <2>2, <2>3, <2>4 DEF EntryInv
<1> QED
  BY <1>4, <1>5 DEF MintAccessTokenIfNeeded

\* Whatever the probe of the session found, it sends nothing and keeps what the
\* run knows of its workspace.
LEMMA ProbeMoves ==
    ASSUME EntryInv, ProbeSession
    PROVE  /\ run' \in EntryRun /\ run'.pc \in {"preflight", "early", "build", "failed"}
           /\ run'.team = run.team /\ run'.org = run.org
           /\ run'.workspace = run.workspace /\ run'.probed = run.probed
           /\ identity' \in {"none", "team", "teamless"}
           /\ input.preflight = "enforce" /\ run'.pc \in {"early", "build"} => identity' # "none"
<1>1. run.pc = "preflight" /\ run \in EntryRun /\ account \in Accounts
      /\ identity \in {"none", "team", "teamless"} /\ AfterPreflight \in {"early", "build"}
  BY DEF ProbeSession, EntryAt, EntryInv, EntryTypes, AfterPreflight
<1>2. CASE account.session # "rejected" /\ identity' = account.session /\ EntryTo(AfterPreflight)
  <2>1. identity' \in {"team", "teamless"}
    BY <1>1, <1>2 DEF Accounts
  <2> QED
    BY <1>1, <1>2, <2>1, EntryToFields DEF ToTeams
<1>3. CASE NoSession /\ UNCHANGED identity
  <2>1. PICK pc \in {AfterPreflight, "failed"} :
             EntryTo(pc) /\ (input.preflight = "enforce" => pc = "failed")
    BY <1>3 DEF NoSession
  <2> QED
    BY <1>1, <1>3, <2>1, EntryToFields DEF ToTeams
<1>4. CASE run' = [run EXCEPT !.tries = @ + 1] /\ UNCHANGED identity
  <2>1. run.tries + 1 \in Nat
    BY <1>1 DEF EntryRun
  <2>2. run' \in EntryRun /\ run'.pc = "preflight" /\ run'.team = run.team /\ run'.org = run.org
        /\ run'.workspace = run.workspace /\ run'.probed = run.probed
    BY <1>1, <1>4, <2>1 DEF EntryRun
  <2> QED
    BY <1>1, <1>4, <2>2
<1> QED
  BY <1>2, <1>3, <1>4 DEF ProbeSession

LEMMA ProbeKeeps == ASSUME EntryInv, ProbeSession PROVE EntryInv'
<1>1. /\ run.pc = "preflight" /\ Outside /\ UNCHANGED <<scope, sent>>
      /\ account.link = "invisible" => ~ (run.probed = TRUE)
      /\ run.team = NoTeam /\ ~ Gated
  BY DEF ProbeSession, EntryAt, EntryInv, Admitted, ToTeams
<1>2. \A s \in sent' : s.what \notin {"create", "assets"}
  BY <1>1 DEF EntryInv, Written, EntryWrites, ToTeams
<1>3. Written' /\ EntryWrites' = {}
  BY <1>2, ProbeMoves, NoWritesYet
<1>4. EntryTypes'
  BY <1>1, ProbeMoves DEF EntryInv, EntryTypes, Outside
<1>5. Admitted'
  BY <1>1, <1>3, ProbeMoves DEF Admitted, Outside, Gated, ToTeams, Placing
<1> QED
  BY <1>3, <1>4, <1>5 DEF EntryInv

LEMMA DetectKeeps == ASSUME EntryInv, DetectOrgModeEarly PROVE EntryInv'
<1>1. /\ run.pc = "early" /\ NothingSent /\ run \in EntryRun
      /\ account.link = "invisible" => ~ (run.probed = TRUE)
      /\ run.team = NoTeam /\ ~ Gated
  BY DEF DetectOrgModeEarly, EntryAt, EntryInv, EntryTypes, Admitted, ToTeams
<1>2. /\ run' \in EntryRun /\ run'.pc = "build" /\ run'.team = run.team
      /\ run'.probed = run.probed
  <2>1. CASE EntryTo("build")
    BY <1>1, <2>1, EntryToFields DEF ToTeams
  <2>2. CASE run' = [run EXCEPT !.pc = "build", !.org = TeamsOf # {}]
    BY <1>1, <2>2 DEF EntryRun, ToTeams
  <2> QED
    BY <2>1, <2>2 DEF DetectOrgModeEarly
<1> QED
  BY <1>1, <1>2, EntryGoesOn DEF ToTeams, Placing

\* The first scope of the clients is not yet that of any write.
LEMMA DependenciesKeep == ASSUME EntryInv, CreateBootstrapDependencies PROVE EntryInv'
<1>1. /\ run.pc = "build" /\ Outside /\ UNCHANGED <<identity, sent>> /\ run \in EntryRun
      /\ account.link = "invisible" => ~ (run.probed = TRUE)
      /\ run.team = NoTeam /\ ~ Gated
  BY DEF CreateBootstrapDependencies, EntryAt, EntryInv, EntryTypes, Admitted, ToTeams
<1>2. /\ run'.pc = "probe" /\ run'.team = run.team /\ run'.org = run.org /\ run' \in EntryRun
      /\ run'.workspace = run.workspace /\ run'.probed = run.probed
  <2>1. EntryTo("probe")
    BY DEF CreateBootstrapDependencies
  <2> QED
    BY <1>1, <2>1, EntryToFields DEF ToTeams
<1>3. \A s \in sent' : s.what \notin {"create", "assets"}
  BY <1>1 DEF EntryInv, Written, EntryWrites, ToTeams
<1>4. Written' /\ EntryWrites' = {}
  BY <1>2, <1>3, NoWritesYet
<1>5. EntryTypes'
  BY <1>1, <1>2 DEF EntryInv, EntryTypes, Outside
<1>6. Admitted'
  BY <1>1, <1>2, <1>4 DEF EntryInv, Admitted, Outside, Gated, ToTeams, Placing
<1> QED
  BY <1>4, <1>5, <1>6 DEF EntryInv

LEMMA LinkKeeps == ASSUME EntryInv, ProbeRepositoryLink PROVE EntryInv'
<1>1. /\ run.pc = "probe" /\ NothingSent /\ run \in EntryRun
      /\ account.link = "invisible" => ~ (run.probed = TRUE)
      /\ run.team = NoTeam /\ ~ Gated
      /\ input \in Inputs
  BY DEF ProbeRepositoryLink, EntryAt, EntryInv, EntryTypes, Admitted, ToTeams
<1>2. /\ run' \in EntryRun /\ run'.pc \in {"select", "failed"} /\ run'.team = run.team
      /\ account.link = "invisible" => run'.pc = "failed" \/ run'.probed = run.probed
  <2>1. CASE run' = [run EXCEPT !.pc = IF account.link = "invisible" THEN "failed" ELSE "select",
                                !.workspace = input.workspaceId \/ account.link = "visible",
                                !.probed = TRUE]
    <3>1. (input.workspaceId \/ account.link = "visible") \in BOOLEAN
      OBVIOUS
    <3> QED
      BY <1>1, <2>1, <3>1 DEF EntryRun, ToTeams
  <2>2. CASE run' = [run EXCEPT !.pc = "select", !.workspace = input.workspaceId]
    BY <1>1, <2>2 DEF EntryRun, ToTeams, Inputs
  <2> QED
    BY <2>1, <2>2 DEF ProbeRepositoryLink
<1> QED
  BY <1>1, <1>2, EntryGoesOn DEF ToTeams, Placing

LEMMA SelectKeeps == ASSUME EntryInv, SelectCanonicalWorkspace PROVE EntryInv'
<1>1. /\ run.pc = "select" /\ NothingSent /\ run \in EntryRun
      /\ account.link = "invisible" => ~ (run.probed = TRUE)
      /\ run.team = NoTeam /\ ~ Gated
  BY DEF SelectCanonicalWorkspace, EntryAt, EntryInv, EntryTypes, Admitted, ToTeams
<1>2. /\ run' \in EntryRun /\ run'.pc \in {"teams", "failed"} /\ run'.team = run.team
      /\ run'.probed = run.probed
  <2>1. CASE EntryTo("teams") \/ EntryTo("failed")
    BY <1>1, <2>1, EntryToFields DEF ToTeams
  <2>2. ASSUME NEW found \in BOOLEAN, run' = [run EXCEPT !.pc = "teams", !.workspace = found]
        PROVE  /\ run' \in EntryRun /\ run'.pc = "teams" /\ run'.team = run.team
               /\ run'.probed = run.probed
    BY <1>1, <2>2 DEF EntryRun, ToTeams
  <2> QED
    BY <2>1, <2>2 DEF SelectCanonicalWorkspace
<1> QED
  BY <1>1, <1>2, EntryGoesOn DEF ToTeams, Placing

LEMMA GivenSquadIsOne ==
    ASSUME EntryTypes
    PROVE  GivenSquad \in Squads /\ (account.squads # {} => GivenSquad \in account.squads)
<1>1. account.squads \subseteq Squads
  BY DEF EntryTypes, Accounts
<1>2. \E s \in Squads : account.squads # {} => s \in account.squads
  BY <1>1, EntryAssumption
<1> QED
  BY <1>2 DEF GivenSquad

\* A run that is to make a workspace in an organisation has a sub-team of it.
LEMMA TeamsResolve ==
    ASSUME EntryInv, ResolveTeams
    PROVE  /\ run' \in EntryRun /\ run'.pc \in {"configure", "failed"} /\ run'.probed = run.probed
           /\ run'.team # NoTeam => run'.org = TRUE
           /\ run'.pc = "configure" => InSquad'
<1>1. /\ run.pc = "teams" /\ run \in EntryRun /\ run.team = NoTeam /\ EntryTypes
      /\ UNCHANGED <<account, identity>> /\ NoTeam \notin Squads
  BY EntryAssumption
     DEF ResolveTeams, EntryAt, EntryInv, EntryTypes, Admitted, ToTeams, NothingSent, Outside, NoTeam
<1>2. CASE run' = [run EXCEPT !.pc = "configure", !.team = GivenSquad, !.org = TRUE]
  <2>1. /\ run' \in EntryRun /\ run'.pc = "configure" /\ run'.team = GivenSquad
        /\ run'.org = TRUE /\ run'.probed = run.probed
    BY <1>1, <1>2, GivenSquadIsOne DEF EntryRun, Placing
  <2>2. InSquad'
    BY <1>1, <2>1, GivenSquadIsOne DEF InSquad
  <2> QED
    BY <2>1, <2>2
<1>3. CASE /\ run.workspace \/ TeamsOf = {}
           /\ run' = [run EXCEPT !.pc = "configure", !.org = FALSE]
  <2>1. /\ run' \in EntryRun /\ run'.pc = "configure" /\ run'.team = run.team
        /\ run'.workspace = run.workspace /\ run'.probed = run.probed
    BY <1>1, <1>3 DEF EntryRun, Placing
  <2>2. InSquad'
    BY <1>1, <1>3, <2>1 DEF InSquad, TeamsOf
  <2> QED
    BY <1>1, <2>1, <2>2
<1>4. CASE /\ Cardinality(TeamsOf) = 1 /\ TeamsOf # {}
           /\ run' = [run EXCEPT !.pc = "configure", !.org = TRUE, !.team = CHOOSE s \in TeamsOf : TRUE]
  <2> DEFINE found == CHOOSE s \in TeamsOf : TRUE
  <2>1. found \in TeamsOf
    BY <1>4
  <2>2. found \in Squads /\ found \in account.squads
    BY <1>1, <2>1 DEF TeamsOf, EntryTypes, Accounts
  <2>3. run' = [run EXCEPT !.pc = "configure", !.org = TRUE, !.team = found]
    BY <1>4
  <2> HIDE DEF found
  <2>4. /\ run' \in EntryRun /\ run'.pc = "configure" /\ run'.team = found
        /\ run'.org = TRUE /\ run'.probed = run.probed
    BY <1>1, <2>2, <2>3 DEF EntryRun, Placing
  <2>5. InSquad'
    BY <1>1, <2>2, <2>4 DEF InSquad
  <2> QED
    BY <2>4, <2>5
<1>5. CASE EntryTo("failed")
  BY <1>1, <1>5, EntryToFields
<1> QED
  BY <1>2, <1>3, <1>4, <1>5 DEF ResolveTeams

LEMMA TeamsKeep == ASSUME EntryInv, ResolveTeams PROVE EntryInv'
<1>1. /\ run.pc = "teams" /\ NothingSent /\ ~ Gated
      /\ account.link = "invisible" => ~ (run.probed = TRUE)
  BY DEF ResolveTeams, EntryAt, EntryInv, Admitted, ToTeams
<1> QED
  BY <1>1, TeamsResolve, EntryGoesOn DEF ToTeams, Placing

LEMMA ConfigureKeeps == ASSUME EntryInv, ConfigureTeamContext PROVE EntryInv'
<1>1. /\ run.pc = "configure" /\ Outside /\ UNCHANGED <<identity, sent>> /\ run \in EntryRun
      /\ account.link = "invisible" => ~ (run.probed = TRUE)
      /\ ~ Gated /\ InSquad /\ EntryWrites = {}
  BY DEF ConfigureTeamContext, EntryAt, EntryInv, EntryTypes, Admitted, Written, ToTeams, Placing
<1>2. PICK pc \in {"assets", "create"} : EntryTo(pc) /\ (pc = "create" => run.workspace = FALSE)
  <2>1. run.workspace \in BOOLEAN
    BY <1>1 DEF EntryRun
  <2> QED
    BY <2>1 DEF ConfigureTeamContext
<1>3. /\ run'.pc = pc /\ run'.team = run.team /\ run'.org = run.org /\ run' \in EntryRun
      /\ run'.workspace = run.workspace /\ run'.probed = run.probed
  BY <1>1, <1>2, EntryToFields DEF Placing
<1>4. InSquad' /\ ToScope' = ToScope
  BY <1>1, <1>3 DEF InSquad, Outside, ToScope, TeamId, SessionTeam
<1>5. EntryTypes'
  BY <1>1, <1>3 DEF EntryInv, EntryTypes, Outside
<1>6. EntryWrites' = {}
  BY <1>1 DEF EntryWrites
<1>7. Admitted'
  BY <1>1, <1>3, <1>4, <1>6 DEF EntryInv, Admitted, Outside, Gated, ToTeams, Placing
<1>8. scope' = [c \in Clients |-> ToScope']
  BY <1>4 DEF ConfigureTeamContext, ToScope, Rescoped
<1>9. Written'
  BY <1>2, <1>3, <1>6, <1>8 DEF Written
<1> QED
  BY <1>5, <1>7, <1>9 DEF EntryInv

\* A write goes out from every client under the scope of them all.
LEMMA WritesKeep ==
    ASSUME EntryInv, run.pc \in {"create", "assets"}, Outside, UNCHANGED identity,
           NEW what \in {"create", "assets"}, Sends(what), what = run.pc,
           NEW pc \in {"assets", "result", "done", "failed"}, EntryTo(pc),
           pc = "assets" => scope' = [c \in Clients |-> ToScope]
    PROVE  EntryInv'
<1>1. /\ account.link = "invisible" => ~ (run.probed = TRUE)
      /\ ~ Gated /\ InSquad /\ run \in EntryRun
      /\ scope = [c \in Clients |-> ToScope]
      /\ input.preflight = "enforce" => identity # "none"
      /\ what = "create" => run.workspace = FALSE
  BY DEF EntryInv, EntryTypes, Admitted, Written, Placing
<1>2. /\ run'.pc = pc /\ run'.team = run.team /\ run'.org = run.org /\ run' \in EntryRun
      /\ run'.workspace = run.workspace /\ run'.probed = run.probed
  BY <1>1, EntryToFields DEF Placing
<1>3. InSquad' /\ ToScope' = ToScope
  BY <1>1, <1>2 DEF InSquad, Outside, ToScope, TeamId, SessionTeam
<1>4. EntryTypes'
  BY <1>2 DEF EntryInv, EntryTypes, Outside
<1>5. Admitted'
  BY <1>1, <1>2, <1>3 DEF EntryInv, Admitted, Outside, Gated, ToTeams, Placing
<1>6. \A s \in EntryWrites' : s \in EntryWrites
                               \/ s = [what |-> what, scope |-> scope, known |-> identity # "none"]
  BY DEF EntryWrites, Sends
<1>7. ASSUME NEW s \in EntryWrites'
      PROVE  /\ \A c \in Clients : s.scope[c] = ToScope'
             /\ input'.preflight = "enforce" => s.known
             /\ InSquad' /\ (s.what = "create" => run'.workspace = FALSE)
  <2>1. CASE s \in EntryWrites
    <3>1. /\ \A c \in Clients : s.scope[c] = ToScope
          /\ input.preflight = "enforce" => s.known
          /\ s.what = "create" => run.workspace = FALSE
      BY <2>1 DEF EntryInv, Written
    <3> QED
      BY <3>1, <1>2, <1>3 DEF Outside
  <2>2. CASE s = [what |-> what, scope |-> scope, known |-> identity # "none"]
    <3>1. s.scope = scope /\ s.what = what
      BY <2>2
    <3>2. input.preflight = "enforce" => s.known
      BY <1>1, <2>2
    <3> QED
      BY <3>1, <3>2, <1>1, <1>2, <1>3 DEF Outside
  <2> QED
    BY <1>6, <2>1, <2>2
<1>8. Written'
  BY <1>2, <1>3, <1>7 DEF Written, ToTeams
<1> QED
  BY <1>4, <1>5, <1>8 DEF EntryInv

LEMMA CreateKeeps == ASSUME EntryInv, CreateWorkspaceIn PROVE EntryInv'
<1>1. /\ run.pc = "create" /\ Outside /\ UNCHANGED identity /\ Sends("create")
      /\ scope = [c \in Clients |-> ToScope] /\ (run.team # NoTeam => run.org = TRUE)
  BY DEF CreateWorkspaceIn, EntryAt, EntryInv, Admitted, Written
<1>2. scope' = [c \in Clients |-> ToScope]
  <2>1. CASE run.team = NoTeam
    BY <1>1, <2>1 DEF CreateWorkspaceIn
  <2>2. CASE run.team # NoTeam
    <3>1. ToScope = [team |-> run.team, org |-> TRUE]
      BY <1>1, <2>2 DEF ToScope
    <3>2. scope' = [scope EXCEPT !["assets"] = ToScope]
      BY <2>2, <3>1 DEF CreateWorkspaceIn
    <3> HIDE DEF ToScope
    <3> QED
      BY <1>1, <3>2
  <2> QED
    BY <2>1, <2>2
<1>3. PICK pc \in {"assets", "failed"} : EntryTo(pc)
  BY DEF CreateWorkspaceIn
<1> QED
  BY <1>1, <1>2, <1>3, WritesKeep

LEMMA AssetsKeep == ASSUME EntryInv, WriteAssets PROVE EntryInv'
<1>1. /\ run.pc = "assets" /\ Outside /\ UNCHANGED identity /\ Sends("assets")
  BY DEF WriteAssets, EntryAt
<1>2. PICK pc \in {"result", "done", "failed"} : EntryTo(pc)
  BY DEF WriteAssets
<1> QED
  BY <1>1, <1>2, WritesKeep

LEMMA ResultKeeps == ASSUME EntryInv, WriteResult PROVE EntryInv'
<1>1. /\ run.pc = "result" /\ Outside /\ UNCHANGED <<identity, scope>> /\ run \in EntryRun
      /\ account.link = "invisible" => ~ (run.probed = TRUE)
      /\ ~ Gated
  BY DEF WriteResult, EntryAt, EntryInv, EntryTypes, Admitted
<1>2. PICK pc \in {"done", "failed"} : EntryTo(pc)
  BY DEF WriteResult
<1>3. /\ run'.pc = pc /\ run'.team = run.team /\ run'.org = run.org /\ run' \in EntryRun
      /\ run'.workspace = run.workspace /\ run'.probed = run.probed
  BY <1>1, <1>2, EntryToFields DEF Placing
<1>4. EntryWrites' = EntryWrites
  BY DEF WriteResult, Sends, EntryWrites
<1>5. InSquad' = InSquad /\ ToScope' = ToScope
  BY <1>1, <1>3 DEF InSquad, Outside, ToScope, TeamId, SessionTeam
<1>6. EntryTypes'
  BY <1>1, <1>3 DEF EntryInv, EntryTypes, Outside
<1>7. Admitted'
  BY <1>1, <1>3, <1>4 DEF EntryInv, Admitted, Outside, Gated, ToTeams, Placing
<1>8. Written'
  BY <1>1, <1>3, <1>4, <1>5 DEF EntryInv, Written, ToTeams, Outside
<1> QED
  BY <1>6, <1>7, <1>8 DEF EntryInv

LEMMA EntryKeeps == ASSUME EntryInv, [EntryNext]_entryVars PROVE EntryInv'
<1>1. CASE UNCHANGED entryVars
  BY <1>1 DEF EntryInv, EntryTypes, Admitted, Written, InSquad, ToScope, TeamId, SessionTeam,
              EntryWrites, Gated, entryVars
<1> QED
  BY <1>1, ReadInputsKeeps, GatedKeeps, MintKeeps, ProbeKeeps, DetectKeeps, DependenciesKeep,
     LinkKeeps, SelectKeeps, TeamsKeep, ConfigureKeeps, CreateKeeps, AssetsKeep, ResultKeeps
     DEF EntryNext

LEMMA EntryInvImplies == ASSUME EntryInv PROVE RunEntryIsSafe
<1>1. GatedSendsNothing
  BY DEF EntryInv, Admitted, GatedSendsNothing
<1>2. EnforcedIdentity
  BY DEF EntryInv, Written, EnforcedIdentity
<1>3. OneScope
  <2>1. \A s, t \in EntryWrites, c, d \in Clients : s.scope[c] = t.scope[d]
    BY DEF EntryInv, Written
  <2>2. ASSUME NEW s \in EntryWrites, s.what = "create", account.squads # {}, identity = "team"
        PROVE  s.scope["assets"].org /\ s.scope["assets"].team \in account.squads
    <3>1. /\ s.scope["assets"] = ToScope
          /\ run.org = TRUE /\ run.team \in account.squads
      BY <2>2 DEF EntryInv, Written, InSquad, Clients
    <3>2. run.team # NoTeam
      BY <3>1, EntryAssumption DEF EntryInv, EntryTypes, Accounts, NoTeam
    <3> QED
      BY <3>1, <3>2 DEF ToScope
  <2> QED
    BY <2>1, <2>2 DEF OneScope
<1>4. InvisibleOwnerUntouched
  BY DEF EntryInv, EntryTypes, EntryRun, Admitted, InvisibleOwnerUntouched
<1> QED
  BY <1>1, <1>2, <1>3, <1>4 DEF RunEntryIsSafe

\* However a run is started, whatever it is given and whatever the account and
\* the calls answer: a gated run sends nothing but its result file; under
\* enforce no write goes out without an identity; all clients write under one
\* scope, in a sub-team where an organisation's workspace is made; and an owner
\* that was seen to be invisible leaves no write behind.  (runAction, runCli,
\* runBootstrap and createBootstrapDependencies.)
THEOREM EntrySafe == EntrySpec => []RunEntryIsSafe
<1>1. EntryInit => EntryInv
  <2> SUFFICES ASSUME EntryInit PROVE EntryInv
    OBVIOUS
  <2>1. /\ run.pc = "inputs" /\ run.team = NoTeam /\ run.probed = FALSE /\ sent = {}
        /\ identity = "none" /\ input \in Inputs /\ account \in Accounts
    BY DEF EntryInit
  <2>2. (input.credential = "token") \in BOOLEAN
    OBVIOUS
  <2>3. run \in EntryRun
    BY <2>2 DEF EntryInit, EntryRun, ToTeams, NoTeam
  <2>4. EntryWrites = {}
    BY <2>1 DEF EntryWrites
  <2> QED
    BY <2>1, <2>3, <2>4 DEF EntryInv, EntryTypes, Admitted, Written, Placing
<1>2. EntryInv /\ [EntryNext]_entryVars => EntryInv'
  BY EntryKeeps
<1>3. EntryInv => RunEntryIsSafe
  BY EntryInvImplies
<1> QED
  BY <1>1, <1>2, <1>3, PTL DEF EntrySpec

-----------------------------------------------------------------------------
(* The evidence behind the multi-file sync                                 *)

LegFields == {"pc", "mode", "commit", "journaled", "passed", "bulk", "atomic", "root", "truth", "blind",
              "residue", "unanswered", "legs", "faults"}
RowPcs == {"P02", "P03", "P04", "P05", "P06", "P07", "P08", "P09", "P10"}
Texts == {"root", "v1", "v2", "error", "seed", "new", "deep"}
MemberType == [path : {"root", "pet", "error", "seed", "new", "deep"}, role : {"ROOT", "DEFAULT"}, text : Texts]

\* The file that the rows work on is there until the last comparison, and no
\* file reads as an unread or a changed one would.
PetThere(files) == files \subseteq MemberType /\ \E f \in files : f.path = "pet"

\* What the service must have done for a row to pass.
Backs == {<<"P01", "multiFileCreate">>, <<"P02", "multiFileRead">>, <<"P04", "openapiGeneration">>,
          <<"P05", "perFileCreate">>, <<"P06", "perFileDelete">>, <<"P07", "bulkModify">>,
          <<"P11", "protobufGeneration">>}
RowsBacked ==
    /\ \A b \in Backs : b[1] \in probe.passed => b[2] \in probe.truth
    /\ probe.root = TRUE => "rootPathChange" \in probe.truth
    /\ probe.atomic = TRUE => "atomicBulk" \in probe.truth \/ probe.blind = TRUE

LegAtWork ==
    /\ DOMAIN probe = LegFields /\ DOMAIN probeSpace = {"ws", "files"}
    /\ RowsBacked
    /\ probe.pc \in RowPcs => PetThere(probeSpace.files)
    /\ probe.pc = "write" /\ probeSpace.ws = TRUE => probe.residue = TRUE \/ probe.unanswered = TRUE

\* A committed leg: its claims, its leftovers, its source.
LegFact(l, r) ==
    /\ \A c \in l.caps \ {"perFilePatch"} : c \in l.truth \/ (c = "atomicBulk" /\ l.blind = TRUE)
    /\ l.left = TRUE => l.residue = TRUE \/ l.unanswered = TRUE
    /\ r.caps \subseteq l.caps
    /\ l.rebound = TRUE \/ l.ranAt = r.commit
Committed(r) == \A l \in r.legs : LegFact(l, r)

CommittedFields == {"mode", "caps", "atomic", "residue", "truth", "blind", "left", "unanswered", "ranAt", "rebound"}
ReceiptShape(r) ==
    DOMAIN r = {"commit", "legs", "caps"} /\ \A l \in r.legs : DOMAIN l = CommittedFields

ProbeInv == LegAtWork /\ Committed(receipt)
EvidenceInv == ProbeInv /\ ReceiptShape(receipt)

LEMMA FiveAreFinite == ASSUME NEW a, NEW b, NEW c, NEW d, NEW e PROVE IsFiniteSet({a, b, c, d, e})
<1>1. IsFiniteSet({})
  BY FS_EmptySet
<1>2. IsFiniteSet({} \cup {a})
  BY <1>1, FS_AddElement
<1>3. IsFiniteSet(({} \cup {a}) \cup {b})
  BY <1>2, FS_AddElement
<1>4. IsFiniteSet((({} \cup {a}) \cup {b}) \cup {c})
  BY <1>3, FS_AddElement
<1>5. IsFiniteSet(((({} \cup {a}) \cup {b}) \cup {c}) \cup {d})
  BY <1>4, FS_AddElement
<1>6. IsFiniteSet((((({} \cup {a}) \cup {b}) \cup {c}) \cup {d}) \cup {e})
  BY <1>5, FS_AddElement
<1>7. (((({} \cup {a}) \cup {b}) \cup {c}) \cup {d}) \cup {e} = {a, b, c, d, e}
  OBVIOUS
<1> QED
  BY <1>6, <1>7

\* No bad answer: every request of the row was answered well.
LEMMA NoneBad ==
    ASSUME NEW requests, IsFiniteSet(requests), NEW o \in RowAnswers(requests), Bad(o) = 0
    PROVE  \A r \in requests : o[r] = "ok"
<1> DEFINE bad == {r \in DOMAIN o : o[r] # "ok"}
<1>1. DOMAIN o = requests
  BY DEF RowAnswers
<1>2. IsFiniteSet(bad)
  BY <1>1, FS_Subset
<1>3. bad = {}
  BY <1>2, FS_EmptySet DEF Bad
<1> QED
  BY <1>1, <1>3

LEMMA ThrowKeeps ==
    ASSUME ProbeInv, NEW o, Throw(o), SameRepo
    PROVE  ProbeInv'
<1>1. /\ DOMAIN probe' = LegFields /\ DOMAIN probeSpace' = {"ws", "files"}
      /\ probe'.pc = "cleanup" /\ probe'.passed = probe.passed /\ probe'.truth = probe.truth
      /\ probe'.root = probe.root /\ probe'.atomic = probe.atomic /\ probe'.blind = probe.blind
  BY DEF Throw, ProbeInv, LegAtWork, LegFields
<1>2. LegAtWork'
  BY <1>1 DEF ProbeInv, LegAtWork, RowsBacked, RowPcs
<1> QED
  BY <1>2 DEF ProbeInv, Committed, SameRepo

\* A row that passes has what backs it.
LEMMA RecordKeeps ==
    ASSUME ProbeInv, SameRepo, NEW o, NEW id, NEW passes \in BOOLEAN, NEW truth, NEW next,
           RecordRow(o, id, passes, truth, next),
           passes => \A b \in Backs : b[1] = id => b[2] \in truth,
           UNCHANGED probeSpace \/ (\E files : SetFiles(files)),
           next # "write", next \in RowPcs => PetThere(probeSpace'.files)
    PROVE  ProbeInv'
<1>1. /\ DOMAIN probe' = LegFields
      /\ probe'.pc = next /\ probe'.truth = probe.truth \cup truth
      /\ probe'.passed = (IF passes THEN probe.passed \cup {id} ELSE probe.passed)
      /\ probe'.root = probe.root /\ probe'.atomic = probe.atomic /\ probe'.blind = probe.blind
  BY DEF RecordRow, ProbeInv, LegAtWork, LegFields
<1>2. DOMAIN probeSpace' = {"ws", "files"}
  BY DEF ProbeInv, LegAtWork, SetFiles
<1>3. RowsBacked'
  BY <1>1 DEF ProbeInv, LegAtWork, RowsBacked
<1>4. LegAtWork'
  BY <1>1, <1>2, <1>3 DEF LegAtWork
<1> QED
  BY <1>4 DEF ProbeInv, Committed, SameRepo

LEMMA WithPet ==
    ASSUME NEW files, PetThere(files), NEW path \in {"root", "pet", "error", "seed", "new", "deep"},
           NEW role \in {"ROOT", "DEFAULT"}, NEW text \in Texts
    PROVE  PetThere(With(files, Member(path, role, text)))
<1> DEFINE m == Member(path, role, text)
<1>1. m \in MemberType /\ m.path = path
  BY DEF Member, MemberType
<1> HIDE DEF m
<1>2. With(files, m) \subseteq MemberType
  BY <1>1 DEF With, PetThere
<1>3. m \in With(files, m)
  BY DEF With
<1>4. \E f \in With(files, m) : f.path = "pet"
  <2>1. PICK f \in files : f.path = "pet"
    BY DEF PetThere
  <2>2. CASE path = "pet"
    BY <1>1, <1>3, <2>2
  <2>3. CASE path # "pet"
    BY <1>1, <2>1, <2>3 DEF With
  <2> QED
    BY <2>2, <2>3
<1> QED
  BY <1>2, <1>4 DEF PetThere, m

LEMMA WithoutOther ==
    ASSUME NEW files, PetThere(files), NEW path, path # "pet"
    PROVE  PetThere({f \in files : f.path # path})
BY DEF PetThere

LEMMA SetRolePet ==
    ASSUME NEW files, PetThere(files), NEW path, NEW role \in {"ROOT", "DEFAULT"}
    PROVE  PetThere(SetRole(files, path, role))
<1>1. ASSUME NEW f \in files
      PROVE  /\ [f EXCEPT !.role = role] \in MemberType /\ [f EXCEPT !.role = role].path = f.path
             /\ f \in MemberType
  BY DEF PetThere, MemberType
<1>2. SetRole(files, path, role) \subseteq MemberType
  BY <1>1 DEF SetRole
<1>3. PICK f \in files : f.path = "pet"
  BY DEF PetThere
<1>4. (IF f.path = path THEN [f EXCEPT !.role = role] ELSE f) \in SetRole(files, path, role)
  BY DEF SetRole
<1>5. (IF f.path = path THEN [f EXCEPT !.role = role] ELSE f).path = "pet"
  BY <1>1, <1>3
<1> QED
  BY <1>2, <1>4, <1>5 DEF PetThere

LEMMA CreateBundleKeeps == ASSUME ProbeInv, CreateBundle PROVE ProbeInv'
<1>1. PICK o : Throw(o) \/ (/\ SetFiles({Member("root", "ROOT", "root"), Member("pet", "DEFAULT", "v1")})
                            /\ RecordRow(o, "P01", TRUE, {"multiFileCreate"}, "P02"))
  BY DEF CreateBundle
<1>2. SameRepo
  BY DEF CreateBundle
<1>3. CASE Throw(o)
  BY <1>2, <1>3, ThrowKeeps
<1>4. CASE /\ SetFiles({Member("root", "ROOT", "root"), Member("pet", "DEFAULT", "v1")})
           /\ RecordRow(o, "P01", TRUE, {"multiFileCreate"}, "P02")
  <2>1. probeSpace'.files = {Member("root", "ROOT", "root"), Member("pet", "DEFAULT", "v1")}
    BY <1>4 DEF SetFiles, ProbeInv, LegAtWork
  <2>2. PetThere(probeSpace'.files)
    BY <2>1 DEF PetThere, Member, MemberType, Texts
  <2>3. \A b \in Backs : b[1] = "P01" => b[2] \in {"multiFileCreate"}
    BY DEF Backs
  <2> QED
    BY <1>2, <1>4, <2>2, <2>3, RecordKeeps DEF RowPcs
<1> QED
  BY <1>1, <1>3, <1>4

LEMMA ReadMembersKeeps == ASSUME ProbeInv, ReadMembers PROVE ProbeInv'
<1>1. PICK o \in RowAnswers({"list", "root", "pet"}) :
        IF Unanswered(o) THEN Throw(o)
        ELSE UNCHANGED probeSpace /\ RecordRow(o, "P02", Bad(o) = 0, {"multiFileRead"}, "P03")
  BY DEF ReadMembers
<1>2. SameRepo /\ PetThere(probeSpace.files)
  BY DEF ReadMembers, ProbeInv, LegAtWork, RowPcs
<1>3. CASE Throw(o)
  BY <1>2, <1>3, ThrowKeeps
<1>4. CASE UNCHANGED probeSpace /\ RecordRow(o, "P02", Bad(o) = 0, {"multiFileRead"}, "P03")
  <2>1. \A b \in Backs : b[1] = "P02" => b[2] \in {"multiFileRead"}
    BY DEF Backs
  <2> QED
    BY <1>2, <1>4, <2>1, RecordKeeps
<1> QED
  BY <1>1, <1>3, <1>4

LEMMA GenerateFirstKeeps == ASSUME ProbeInv, GenerateFirst PROVE ProbeInv'
<1>1. PICK o : \/ Throw(o)
               \/ UNCHANGED probeSpace /\ RecordRow(o, "P03", Bad(o) = 0 /\ TextOf("pet") = "v1", {}, "P04")
  BY DEF GenerateFirst
<1>2. SameRepo /\ PetThere(probeSpace.files)
  BY DEF GenerateFirst, ProbeInv, LegAtWork, RowPcs
<1>3. CASE Throw(o)
  BY <1>2, <1>3, ThrowKeeps
<1>4. CASE UNCHANGED probeSpace /\ RecordRow(o, "P03", Bad(o) = 0 /\ TextOf("pet") = "v1", {}, "P04")
  <2>1. \A b \in Backs : b[1] = "P03" => b[2] \in {}
    BY DEF Backs
  <2>2. (Bad(o) = 0 /\ TextOf("pet") = "v1") \in BOOLEAN
    OBVIOUS
  <2> QED
    BY <1>2, <1>4, <2>1, <2>2, RecordKeeps
<1> QED
  BY <1>1, <1>3, <1>4

LEMMA PatchKeeps == ASSUME ProbeInv, PatchCompanion PROVE ProbeInv'
<1> DEFINE requests == {"list", "patch", "readback", "generate", "read"}
           TextAfter(o) == IF o.patch = "ok" THEN "v2" ELSE "v1"
           TruthOf(o) == IF TextAfter(o) = "v2" THEN {"openapiGeneration"} ELSE {}
           Found(o, stale) == IF stale THEN "v1" ELSE TextAfter(o)
<1>1. SameRepo /\ PetThere(probeSpace.files)
  BY DEF PatchCompanion, ProbeInv, LegAtWork, RowPcs
<1>2. PICK o \in RowAnswers(requests), stale \in BOOLEAN :
        \/ Throw(o)
        \/ /\ SetFiles(With(probeSpace.files, Member("pet", "DEFAULT", TextAfter(o))))
           /\ RecordRow(o, "P04", Bad(o) = 0 /\ Found(o, stale) = "v2", TruthOf(o), "P05")
  BY DEF PatchCompanion
<1>3. CASE Throw(o)
  BY <1>1, <1>3, ThrowKeeps
<1>4. CASE /\ SetFiles(With(probeSpace.files, Member("pet", "DEFAULT", TextAfter(o))))
           /\ RecordRow(o, "P04", Bad(o) = 0 /\ Found(o, stale) = "v2", TruthOf(o), "P05")
  <2>1. TextAfter(o) \in Texts
    BY DEF Texts
  <2>2. PetThere(With(probeSpace.files, Member("pet", "DEFAULT", TextAfter(o))))
    BY <1>1, <2>1, WithPet
  <2>3. probeSpace'.files = With(probeSpace.files, Member("pet", "DEFAULT", TextAfter(o)))
    BY <1>4 DEF SetFiles, ProbeInv, LegAtWork
  <2>4. ASSUME Bad(o) = 0 /\ Found(o, stale) = "v2"
        PROVE  \A b \in Backs : b[1] = "P04" => b[2] \in TruthOf(o)
    <3>1. \A r \in requests : o[r] = "ok"
      <4>1. IsFiniteSet(requests)
        BY FiveAreFinite
      <4> HIDE DEF requests
      <4> QED
        BY <1>2, <2>4, <4>1, NoneBad
    <3>2. TextAfter(o) = "v2"
      BY <3>1
    <3> QED
      BY <3>2 DEF Backs
  <2>5. (Bad(o) = 0 /\ Found(o, stale) = "v2") \in BOOLEAN
    OBVIOUS
  <2>6. \E files : SetFiles(files)
    BY <1>4
  <2> HIDE DEF TextAfter, TruthOf, Found
  <2> QED
    BY <1>1, <1>4, <2>2, <2>3, <2>4, <2>5, <2>6, RecordKeeps
<1> QED
  BY <1>2, <1>3, <1>4

LEMMA AddFileKeeps == ASSUME ProbeInv, AddFile PROVE ProbeInv'
<1> DEFINE requests == {"list", "create", "relist", "read"}
           Done(o) == o.list = "ok" /\ o.create = "ok"
           FilesOf(o) == IF Done(o) THEN With(probeSpace.files, Member("error", "DEFAULT", "error"))
                         ELSE probeSpace.files
           TruthOf(o) == IF Done(o) THEN {"perFileCreate"} ELSE {}
<1>1. SameRepo /\ PetThere(probeSpace.files)
  BY DEF AddFile, ProbeInv, LegAtWork, RowPcs
<1>2. PICK o \in RowAnswers(requests) :
        IF Unanswered(o) THEN Throw(o)
        ELSE SetFiles(FilesOf(o)) /\ RecordRow(o, "P05", Bad(o) = 0, TruthOf(o), "P06")
  BY DEF AddFile
<1>3. CASE Throw(o)
  BY <1>1, <1>3, ThrowKeeps
<1>4. CASE SetFiles(FilesOf(o)) /\ RecordRow(o, "P05", Bad(o) = 0, TruthOf(o), "P06")
  <2>1. PetThere(FilesOf(o))
    BY <1>1, WithPet DEF Texts
  <2>2. probeSpace'.files = FilesOf(o) /\ \E files : SetFiles(files)
    BY <1>4 DEF SetFiles, ProbeInv, LegAtWork
  <2>3. ASSUME Bad(o) = 0
        PROVE  \A b \in Backs : b[1] = "P05" => b[2] \in TruthOf(o)
    <3>1. IsFiniteSet({"list", "create", "relist", "read", "read"})
      BY FiveAreFinite
    <3>2. {"list", "create", "relist", "read", "read"} = requests
      OBVIOUS
    <3>3. \A r \in requests : o[r] = "ok"
      <4>1. IsFiniteSet(requests)
        BY <3>1, <3>2
      <4> HIDE DEF requests, Done
      <4> QED
        BY <1>2, <2>3, <4>1, NoneBad
    <3>4. Done(o)
      BY <3>3
    <3> QED
      BY <3>4 DEF Backs
  <2> HIDE DEF TruthOf, FilesOf
  <2> QED
    BY <1>1, <1>4, <2>1, <2>2, <2>3, RecordKeeps
<1> QED
  BY <1>2, <1>3, <1>4

LEMMA DeleteFileKeeps == ASSUME ProbeInv, DeleteFile PROVE ProbeInv'
<1> DEFINE Done(o) == o.list = "ok" /\ (\E f \in probeSpace.files : f.path = "error") /\ o.delete = "ok"
           FilesOf(o) == IF Done(o) THEN {f \in probeSpace.files : f.path # "error"} ELSE probeSpace.files
           TruthOf(o) == IF Done(o) THEN {"perFileDelete"} ELSE {}
<1>1. SameRepo /\ PetThere(probeSpace.files)
  BY DEF DeleteFile, ProbeInv, LegAtWork, RowPcs
<1>2. PICK o \in RowAnswers({"list", "delete", "relist"}) :
        IF Unanswered(o) THEN Throw(o)
        ELSE SetFiles(FilesOf(o)) /\ RecordRow(o, "P06", Done(o), TruthOf(o), "P07")
  BY DEF DeleteFile
<1>3. CASE Throw(o)
  BY <1>1, <1>3, ThrowKeeps
<1>4. CASE SetFiles(FilesOf(o)) /\ RecordRow(o, "P06", Done(o), TruthOf(o), "P07")
  <2>1. PetThere(FilesOf(o))
    BY <1>1, WithoutOther
  <2>2. probeSpace'.files = FilesOf(o) /\ \E files : SetFiles(files)
    BY <1>4 DEF SetFiles, ProbeInv, LegAtWork
  <2>3. ASSUME Done(o)
        PROVE  \A b \in Backs : b[1] = "P06" => b[2] \in TruthOf(o)
    <3>1. TruthOf(o) = {"perFileDelete"}
      BY <2>3
    <3> QED
      BY <3>1 DEF Backs
  <2>4. Done(o) \in BOOLEAN
    OBVIOUS
  <2> HIDE DEF Done, TruthOf, FilesOf
  <2> QED
    BY <1>1, <1>4, <2>1, <2>2, <2>3, <2>4, RecordKeeps
<1> QED
  BY <1>2, <1>3, <1>4

LEMMA BulkModifyKeeps == ASSUME ProbeInv, BulkModify PROVE ProbeInv'
<1> DEFINE Seeded(o) == IF o.seed = "ok" THEN With(probeSpace.files, Member("seed", "DEFAULT", "seed"))
                        ELSE probeSpace.files
           Written1(o) == With(Seeded(o), Member("new", "DEFAULT", "new"))
           Written2(o) == With(Written1(o), Member("pet", "DEFAULT", "v2"))
           FilesOf(o) == IF o.bulk = "ok" THEN {f \in Written2(o) : f.path # "seed"} ELSE Seeded(o)
           TruthOf(o) == IF o.bulk = "ok" THEN {"bulkModify"} ELSE {}
           Passes(o) == o.seed = "ok" /\ o.bulk = "ok" /\ o.last = "ok"
<1>1. SameRepo /\ PetThere(probeSpace.files)
  BY DEF BulkModify, ProbeInv, LegAtWork, RowPcs
<1>2. PICK o \in RowAnswers({"list", "seed", "relist", "bulk", "last"}) :
        IF Unanswered(o) \/ o.relist # "ok" THEN Throw(o)
        ELSE SetFiles(FilesOf(o)) /\ RecordRow(o, "P07", Passes(o), TruthOf(o), "P08")
  BY DEF BulkModify
<1>3. CASE Throw(o)
  BY <1>1, <1>3, ThrowKeeps
<1>4. CASE SetFiles(FilesOf(o)) /\ RecordRow(o, "P07", Passes(o), TruthOf(o), "P08")
  <2>1. PetThere(FilesOf(o))
    <3>1. PetThere(Seeded(o))
      BY <1>1, WithPet DEF Texts
    <3> HIDE DEF Seeded
    <3>2. PetThere(Written1(o))
      BY <3>1, WithPet DEF Texts
    <3> HIDE DEF Written1
    <3>3. PetThere(Written2(o))
      BY <3>2, WithPet DEF Texts
    <3> HIDE DEF Written2
    <3>4. PetThere({f \in Written2(o) : f.path # "seed"})
      BY <3>3, WithoutOther
    <3> QED
      BY <3>1, <3>4
  <2>2. probeSpace'.files = FilesOf(o) /\ \E files : SetFiles(files)
    BY <1>4 DEF SetFiles, ProbeInv, LegAtWork
  <2>3. ASSUME Passes(o)
        PROVE  \A b \in Backs : b[1] = "P07" => b[2] \in TruthOf(o)
    <3>1. TruthOf(o) = {"bulkModify"}
      BY <2>3
    <3> QED
      BY <3>1 DEF Backs
  <2>4. Passes(o) \in BOOLEAN
    OBVIOUS
  <2> HIDE DEF Passes, TruthOf, FilesOf
  <2> QED
    BY <1>1, <1>4, <2>1, <2>2, <2>3, <2>4, RecordKeeps
<1> QED
  BY <1>2, <1>3, <1>4

LEMMA NestedKeeps == ASSUME ProbeInv, NestedPath PROVE ProbeInv'
<1> DEFINE FilesOf(o) == IF o.bulk = "ok" THEN With(probeSpace.files, Member("deep", "DEFAULT", "deep"))
                         ELSE probeSpace.files
           Passes(o) == o.bulk = "ok" /\ o.last = "ok"
<1>1. SameRepo /\ PetThere(probeSpace.files)
  BY DEF NestedPath, ProbeInv, LegAtWork, RowPcs
<1>2. PICK o \in RowAnswers({"bulk", "list", "names", "last"}) :
        IF Unanswered(o) THEN Throw(o)
        ELSE SetFiles(FilesOf(o)) /\ RecordRow(o, "P09", Passes(o), {}, "P10")
  BY DEF NestedPath
<1>3. CASE Throw(o)
  BY <1>1, <1>3, ThrowKeeps
<1>4. CASE SetFiles(FilesOf(o)) /\ RecordRow(o, "P09", Passes(o), {}, "P10")
  <2>1. PetThere(FilesOf(o))
    BY <1>1, WithPet DEF Texts
  <2>2. probeSpace'.files = FilesOf(o) /\ \E files : SetFiles(files)
    BY <1>4 DEF SetFiles, ProbeInv, LegAtWork
  <2>3. \A b \in Backs : b[1] = "P09" => b[2] \in {}
    BY DEF Backs
  <2>4. Passes(o) \in BOOLEAN
    OBVIOUS
  <2> HIDE DEF Passes, FilesOf
  <2> QED
    BY <1>1, <1>4, <2>1, <2>2, <2>3, <2>4, RecordKeeps
<1> QED
  BY <1>2, <1>3, <1>4

LEMMA ProtobufKeeps == ASSUME ProbeInv, ProtobufSpec PROVE ProbeInv'
<1>1. SameRepo
  BY DEF ProtobufSpec
<1>2. PICK o \in RowAnswers({"create", "list", "generate"}) :
        \/ Throw(o)
        \/ UNCHANGED probeSpace /\ RecordRow(o, "P11", Bad(o) = 0, {"protobufGeneration"}, "cleanup")
  BY DEF ProtobufSpec
<1>3. CASE Throw(o)
  BY <1>1, <1>3, ThrowKeeps
<1>4. CASE UNCHANGED probeSpace /\ RecordRow(o, "P11", Bad(o) = 0, {"protobufGeneration"}, "cleanup")
  <2>1. \A b \in Backs : b[1] = "P11" => b[2] \in {"protobufGeneration"}
    BY DEF Backs
  <2> QED
    BY <1>1, <1>4, <2>1, RecordKeeps DEF RowPcs
<1> QED
  BY <1>2, <1>3, <1>4

\* The root was moved when the list that was read says so: a list that could not
\* be read shows no root at all.
LEMMA ChangeRootKeeps == ASSUME ProbeInv, ChangeRoot PROVE ProbeInv'
<1> DEFINE promoted(o) == IF o.promote = "ok" THEN SetRole(probeSpace.files, "pet", "ROOT") ELSE probeSpace.files
           changed(o) == IF o.demote = "ok" THEN SetRole(promoted(o), "root", "DEFAULT") ELSE promoted(o)
           listed(o) == IF o.relist = "ok" THEN changed(o) ELSE {}
           moved(o) == o.promote = "ok" /\ o.demote = "ok" /\ RootsOf(listed(o)) = {"pet"}
           rooted(o) == IF o.root = "ok" THEN SetRole(changed(o), "root", "ROOT") ELSE changed(o)
           restored(o) == IF o.pet = "ok" THEN SetRole(rooted(o), "pet", "DEFAULT") ELSE rooted(o)
           final(o) == IF moved(o) \/ RootsOf(listed(o)) # {"root"} THEN restored(o) ELSE changed(o)
           Went(o) ==
             /\ SetFiles(final(o))
             /\ probe' = [probe EXCEPT !.pc = "P09", !.faults = @ + Bad(o), !.root = moved(o),
                    !.truth = IF RootsOf(changed(o)) = {"pet"} THEN @ \cup {"rootPathChange"} ELSE @,
                    !.passed = IF o.last = "ok" /\ Cardinality(RootsOf(final(o))) = 1 THEN @ \cup {"P08"} ELSE @]
<1>1. SameRepo /\ PetThere(probeSpace.files)
  BY DEF ChangeRoot, ProbeInv, LegAtWork, RowPcs
<1>2. PICK o \in RowAnswers({"list", "promote", "demote", "relist", "root", "pet", "last"}) :
        IF o.list = "refused" THEN UNCHANGED probeSpace /\ RecordRow(o, "P08", FALSE, {}, "P09")
        ELSE IF (\E r \in {"list", "promote", "demote", "relist", "last"} : o[r] = "lost")
                \/ (moved(o) /\ "lost" \in {o.root, o.pet})
        THEN Throw(o)
        ELSE Went(o)
  BY DEF ChangeRoot
<1>3. CASE Throw(o)
  BY <1>1, <1>3, ThrowKeeps
<1>4. CASE UNCHANGED probeSpace /\ RecordRow(o, "P08", FALSE, {}, "P09")
  BY <1>1, <1>4, RecordKeeps
<1>5. CASE Went(o)
  <2>1. PetThere(changed(o))
    <3>1. PetThere(promoted(o))
      BY <1>1, SetRolePet
    <3> HIDE DEF promoted
    <3> QED
      BY <3>1, SetRolePet
  <2>2. PetThere(final(o))
    <3> HIDE DEF changed
    <3>1. PetThere(rooted(o))
      BY <2>1, SetRolePet
    <3> HIDE DEF rooted
    <3>2. PetThere(restored(o))
      BY <3>1, SetRolePet
    <3> HIDE DEF restored, listed, moved
    <3> QED
      BY <2>1, <3>2
  <2>3. moved(o) => RootsOf(changed(o)) = {"pet"}
    <3>1. RootsOf({}) = {}
      BY DEF RootsOf
    <3> HIDE DEF changed
    <3> QED
      BY <3>1
  <2>4. moved(o) \in BOOLEAN
    OBVIOUS
  <2> HIDE DEF promoted, changed, listed, moved, rooted, restored, final
  <2>5. /\ DOMAIN probe' = LegFields /\ probe'.pc = "P09"
        /\ probe'.root = moved(o) /\ probe'.atomic = probe.atomic /\ probe'.blind = probe.blind
        /\ probe'.truth = (IF RootsOf(changed(o)) = {"pet"} THEN probe.truth \cup {"rootPathChange"}
                           ELSE probe.truth)
        /\ probe'.passed = probe.passed \/ probe'.passed = probe.passed \cup {"P08"}
    BY <1>5 DEF ProbeInv, LegAtWork, LegFields
  <2>6. DOMAIN probeSpace' = {"ws", "files"} /\ probeSpace'.files = final(o)
    BY <1>5 DEF ProbeInv, LegAtWork, SetFiles
  <2>7. \A b \in Backs : b[1] # "P08"
    BY DEF Backs
  <2>8. \A b \in Backs : b[1] \in probe'.passed => b[2] \in probe'.truth
    BY <2>5, <2>7 DEF ProbeInv, LegAtWork, RowsBacked
  <2>9. probe'.root = TRUE => "rootPathChange" \in probe'.truth
    BY <2>3, <2>5
  <2>10. probe'.atomic = TRUE => "atomicBulk" \in probe'.truth \/ probe'.blind = TRUE
    BY <2>5 DEF ProbeInv, LegAtWork, RowsBacked
  <2>11. RowsBacked'
    BY <2>8, <2>9, <2>10 DEF RowsBacked
  <2>12. LegAtWork'
    BY <2>2, <2>5, <2>6, <2>11 DEF LegAtWork
  <2> QED
    BY <1>1, <2>12 DEF ProbeInv, Committed, SameRepo
<1> QED
  BY <1>2, <1>3, <1>4, <1>5

\* Of two snapshots that are equal, both could not be read, or nothing landed in
\* between: whatever was read shows the change that landed.
LEMMA EqualSnapshots ==
    ASSUME NEW files, PetThere(files),
           NEW first \in {"read", "unlisted", "unread"}, NEW second \in {"read", "unlisted", "unread"},
           Snapshot(files, first) =
             Snapshot({IF f.path = "pet" THEN [f EXCEPT !.text = "marker"] ELSE f : f \in files}, second)
    PROVE  "read" \notin {first, second}
<1> DEFINE Marked(f) == IF f.path = "pet" THEN [f EXCEPT !.text = "marker"] ELSE f
           marked == {Marked(f) : f \in files}
<1>1. PICK pet \in files : pet.path = "pet"
  BY DEF PetThere
<1>2. \A f \in files : f.text \notin {"marker", "empty"}
  BY DEF PetThere, MemberType, Texts
<1>3. \A f \in marked : f.path = "pet" => f.text = "marker"
  <2>1. ASSUME NEW f \in files PROVE Marked(f).path = "pet" => Marked(f).text = "marker"
    BY DEF PetThere, MemberType
  <2> HIDE DEF Marked
  <2> QED
    BY <2>1
<1>4. Marked(pet) \in marked /\ Marked(pet).text = "marker" /\ Marked(pet).path = "pet"
  <2>1. pet \in MemberType
    BY <1>1 DEF PetThere
  <2>2. Marked(pet) = [pet EXCEPT !.text = "marker"]
    BY <1>1
  <2>3. Marked(pet).text = "marker" /\ Marked(pet).path = "pet"
    BY <1>1, <2>1, <2>2 DEF MemberType
  <2> HIDE DEF Marked
  <2> QED
    BY <1>1, <2>3
<1>5. ASSUME NEW g, DOMAIN g = {"path", "role", "text"}
      PROVE  [g EXCEPT !.text = "empty"].text = "empty"
  BY <1>5
<1>6. \A f \in files : DOMAIN f = {"path", "role", "text"}
  BY DEF PetThere, MemberType
<1>7. \A f \in files : DOMAIN Marked(f) = {"path", "role", "text"}
  BY <1>6
<1> HIDE DEF Marked
<1>8. \A f \in marked : DOMAIN f = {"path", "role", "text"}
  BY <1>7
<1> DEFINE emptied == {[f EXCEPT !.text = "empty"] : f \in files}
           emptiedMarked == {[f EXCEPT !.text = "empty"] : f \in marked}
<1>9. \A f \in emptied : f.text = "empty"
  BY <1>5, <1>6
<1>10. \A f \in emptiedMarked : f.text = "empty"
  BY <1>5, <1>8
<1>11. Snapshot(files, first) \in {{}, emptied, files} /\ (first = "read" => Snapshot(files, first) = files)
  BY DEF Snapshot
<1>12. /\ Snapshot(marked, second) \in {{}, emptiedMarked, marked}
       /\ second = "read" => Snapshot(marked, second) = marked
  BY DEF Snapshot
<1>13. Snapshot(files, first) = Snapshot(marked, second)
  BY DEF Marked
<1> HIDE DEF emptied, emptiedMarked, marked
<1>14. CASE first = "read"
  <2>1. pet \in Snapshot(marked, second)
    BY <1>1, <1>11, <1>13, <1>14
  <2> QED
    BY <1>1, <1>2, <1>3, <1>10, <1>12, <2>1
<1>15. CASE second = "read"
  <2>1. Marked(pet) \in Snapshot(files, first)
    BY <1>4, <1>12, <1>13, <1>15
  <2> QED
    BY <1>2, <1>4, <1>9, <1>11, <2>1
<1> QED
  BY <1>14, <1>15

LEMMA FailBulkKeeps == ASSUME ProbeInv, FailBulk PROVE ProbeInv'
<1> DEFINE marked == {IF f.path = "pet" THEN [f EXCEPT !.text = "marker"] ELSE f : f \in probeSpace.files}
           changed(landed) == IF landed THEN marked ELSE probeSpace.files
           same(first, second, landed) ==
             SanitizedSnapshotsEqual(Snapshot(probeSpace.files, first), Snapshot(changed(landed), second))
           Went(o, rejected, landed, first, second, passed) ==
             /\ SetFiles({})
             /\ probe' = [probe EXCEPT !.pc = "P11", !.faults = @ + Bad(o),
                    !.atomic = rejected /\ same(first, second, landed),
                    !.blind = "read" \notin {first, second},
                    !.truth = IF rejected /\ ~landed THEN @ \cup {"atomicBulk"} ELSE @,
                    !.passed = IF passed THEN @ \cup {"P10"} ELSE @]
<1>1. SameRepo /\ PetThere(probeSpace.files)
  BY DEF FailBulk, ProbeInv, LegAtWork, RowPcs
<1>2. PICK o \in RowAnswers({"list", "snapshots", "bulk", "restore"}), rejected \in BOOLEAN, landed \in BOOLEAN,
           first \in {"read", "unlisted", "unread"}, second \in {"read", "unlisted", "unread"} :
        /\ (~rejected => landed) /\ o.bulk # "refused" /\ (o.snapshots = "ok" => {first, second} = {"read"})
        /\ IF Unanswered(o) \/ o.list # "ok" THEN Throw(o)
           ELSE Went(o, rejected, landed, first, second,
                     Snapshot(probeSpace.files, first) # {} /\ Snapshot(changed(landed), second) # {})
  BY DEF FailBulk
<1>3. CASE Throw(o)
  BY <1>1, <1>3, ThrowKeeps
<1>4. ASSUME NEW passed \in BOOLEAN, Went(o, rejected, landed, first, second, passed)
      PROVE  ProbeInv'
  <2>1. same(first, second, landed) /\ landed => "read" \notin {first, second}
    BY <1>1, EqualSnapshots DEF SanitizedSnapshotsEqual
  <2>2. same(first, second, landed) \in BOOLEAN
    BY DEF SanitizedSnapshotsEqual
  <2> HIDE DEF same, changed, marked
  <2>3. (rejected /\ same(first, second, landed)) \in BOOLEAN /\ ("read" \notin {first, second}) \in BOOLEAN
    OBVIOUS
  <2>4. /\ DOMAIN probe' = LegFields /\ probe'.pc = "P11" /\ probe'.root = probe.root
        /\ probe'.atomic = (rejected /\ same(first, second, landed))
        /\ probe'.blind = ("read" \notin {first, second})
        /\ probe'.truth = (IF rejected /\ ~landed THEN probe.truth \cup {"atomicBulk"} ELSE probe.truth)
        /\ probe'.passed = probe.passed \/ probe'.passed = probe.passed \cup {"P10"}
    BY <1>4 DEF ProbeInv, LegAtWork, LegFields
  <2>5. DOMAIN probeSpace' = {"ws", "files"}
    BY <1>4 DEF ProbeInv, LegAtWork, SetFiles
  <2>6. \A b \in Backs : b[1] # "P10"
    BY DEF Backs
  <2>7. \A b \in Backs : b[1] \in probe'.passed => b[2] \in probe'.truth
    BY <2>4, <2>6 DEF ProbeInv, LegAtWork, RowsBacked
  <2>8. probe'.root = TRUE => "rootPathChange" \in probe'.truth
    BY <2>4 DEF ProbeInv, LegAtWork, RowsBacked
  <2>9. probe'.atomic = TRUE => "atomicBulk" \in probe'.truth \/ probe'.blind = TRUE
    BY <2>1, <2>2, <2>4
  <2>10. RowsBacked'
    BY <2>7, <2>8, <2>9 DEF RowsBacked
  <2>11. LegAtWork'
    BY <2>4, <2>5, <2>10 DEF LegAtWork, RowPcs
  <2> QED
    BY <1>1, <2>11 DEF ProbeInv, Committed, SameRepo
<1>5. (Snapshot(probeSpace.files, first) # {} /\ Snapshot(changed(landed), second) # {}) \in BOOLEAN
  OBVIOUS
<1> HIDE DEF Went, changed
<1> QED
  BY <1>2, <1>3, <1>4, <1>5

\* A leg that starts has claimed and left nothing yet.
LEMMA MintLegKeeps == ASSUME ProbeInv, NEW mode \in LegModes, MintAccessToken(mode) PROVE ProbeInv'
<1>1. PICK o : probe' = [IdleLeg EXCEPT !.pc = IF o.mint = "ok" THEN "workspace" ELSE "write", !.mode = mode,
                    !.commit = HeadCommit, !.legs = probe.legs + 1, !.faults = probe.faults + Bad(o)]
  BY DEF MintAccessToken
<1>2. probeSpace' = [ws |-> FALSE, files |-> {}] /\ SameRepo
  BY DEF MintAccessToken
<1>3. /\ DOMAIN probe' = LegFields /\ probe'.pc \in {"workspace", "write"} /\ probe'.passed = {}
      /\ probe'.root = FALSE /\ probe'.atomic = FALSE
  BY <1>1 DEF IdleLeg, LegFields
<1>4. LegAtWork'
  BY <1>2, <1>3 DEF LegAtWork, RowsBacked, RowPcs
<1> QED
  BY <1>2, <1>4 DEF ProbeInv, Committed, SameRepo

LEMMA CreateLegKeeps == ASSUME ProbeInv, CreateWorkspace PROVE ProbeInv'
<1>1. SameRepo
  BY DEF CreateWorkspace
<1>2. /\ DOMAIN probe' = LegFields /\ DOMAIN probeSpace' = {"ws", "files"}
      /\ probe'.pc \in {"P01", "cleanup"} /\ probe'.passed = probe.passed /\ probe'.truth = probe.truth
      /\ probe'.root = probe.root /\ probe'.atomic = probe.atomic /\ probe'.blind = probe.blind
  <2>1. PICK o \in RowAnswers({"create", "flip"}) :
          probe' = [probe EXCEPT !.faults = @ + Bad(o), !.journaled = o.create = "ok" /\ o.flip # "lost",
                                 !.pc = IF Bad(o) = 0 THEN "P01" ELSE "cleanup"]
    BY DEF CreateWorkspace
  <2>2. DOMAIN probeSpace' = {"ws", "files"}
    BY DEF CreateWorkspace, ProbeInv, LegAtWork
  <2> QED
    BY <2>1, <2>2 DEF ProbeInv, LegAtWork, LegFields
<1>3. LegAtWork'
  BY <1>2 DEF ProbeInv, LegAtWork, RowsBacked, RowPcs
<1> QED
  BY <1>1, <1>3 DEF ProbeInv, Committed, SameRepo

\* What is left after the clean-up was seen, or could not be.
LEMMA CleanupKeeps == ASSUME ProbeInv, CleanupJournaledResources PROVE ProbeInv'
<1>1. SameRepo
  BY DEF CleanupJournaledResources
<1>2. PICK o \in RowAnswers({"delete", "readback"}), gone \in BOOLEAN :
        /\ probeSpace' = [probeSpace EXCEPT !.ws = @ /\ ~gone]
        /\ probe' = [probe EXCEPT !.pc = "write", !.faults = @ + Bad(o),
                                  !.unanswered = ~probe.journaled \/ o.readback # "ok",
                                  !.residue = probe.journaled /\ o.readback = "ok" /\ probeSpace'.ws]
  BY DEF CleanupJournaledResources
<1> DEFINE unanswered == ~probe.journaled \/ o.readback # "ok"
           residue == probe.journaled /\ o.readback = "ok" /\ probeSpace'.ws
<1>3. unanswered \in BOOLEAN /\ residue \in BOOLEAN
  OBVIOUS
<1>4. probeSpace'.ws = TRUE => (residue = TRUE \/ unanswered = TRUE)
  OBVIOUS
<1>5. probe' = [probe EXCEPT !.pc = "write", !.faults = @ + Bad(o), !.unanswered = unanswered,
                             !.residue = residue]
  BY <1>2
<1> HIDE DEF unanswered, residue
<1>6. /\ DOMAIN probe' = LegFields
      /\ probe'.pc = "write" /\ probe'.passed = probe.passed /\ probe'.truth = probe.truth
      /\ probe'.root = probe.root /\ probe'.atomic = probe.atomic /\ probe'.blind = probe.blind
      /\ probe'.residue = residue /\ probe'.unanswered = unanswered
  BY <1>5 DEF ProbeInv, LegAtWork, LegFields
<1>7. DOMAIN probeSpace' = {"ws", "files"}
  BY <1>2 DEF ProbeInv, LegAtWork
<1>8. RowsBacked'
  BY <1>6 DEF ProbeInv, LegAtWork, RowsBacked
<1>9. LegAtWork'
  BY <1>4, <1>6, <1>7, <1>8 DEF LegAtWork, RowPcs
<1> QED
  BY <1>1, <1>9 DEF ProbeInv, Committed, SameRepo

\* The rows that a capability stands for.
LEMMA CapabilitiesBacked ==
    ASSUME LegAtWork, NEW c \in Capabilities(probe), c # "perFilePatch"
    PROVE  c \in probe.truth \/ (c = "atomicBulk" /\ probe.blind = TRUE)
<1>1. \A b \in Backs : b[1] \in probe.passed => b[2] \in probe.truth
  BY DEF LegAtWork, RowsBacked
<1>2. /\ "P01" \in probe.passed => "multiFileCreate" \in probe.truth
      /\ "P02" \in probe.passed => "multiFileRead" \in probe.truth
      /\ "P04" \in probe.passed => "openapiGeneration" \in probe.truth
      /\ "P05" \in probe.passed => "perFileCreate" \in probe.truth
      /\ "P06" \in probe.passed => "perFileDelete" \in probe.truth
      /\ "P07" \in probe.passed => "bulkModify" \in probe.truth
      /\ "P11" \in probe.passed => "protobufGeneration" \in probe.truth
  BY <1>1 DEF Backs
<1>3. /\ probe.root = TRUE => "rootPathChange" \in probe.truth
      /\ probe.atomic = TRUE => "atomicBulk" \in probe.truth \/ probe.blind = TRUE
  BY DEF LegAtWork, RowsBacked
<1>4. /\ c = "multiFileCreate" => "P01" \in probe.passed
      /\ c = "multiFileRead" => "P02" \in probe.passed
      /\ c = "perFileCreate" => "P05" \in probe.passed
      /\ c = "perFileDelete" => "P06" \in probe.passed
      /\ c = "bulkModify" => "P07" \in probe.passed
      /\ c = "openapiGeneration" => "P04" \in probe.passed
      /\ c = "protobufGeneration" => "P11" \in probe.passed
  BY DEF Capabilities
<1>5. (c = "atomicBulk" => probe.atomic) /\ (c = "rootPathChange" => probe.root)
  BY DEF Capabilities
<1>6. c \in {"multiFileCreate", "multiFileRead", "perFileCreate", "perFilePatch", "perFileDelete", "bulkModify",
             "atomicBulk", "rootPathChange", "openapiGeneration", "protobufGeneration"}
  BY DEF Capabilities
<1> QED
  BY <1>2, <1>3, <1>4, <1>5, <1>6

\* The new leg's claims are among its own, and the kept one is of its commit.
LEMMA WriteReceiptKeeps == ASSUME ProbeInv, WriteReceipt PROVE ProbeInv'
<1> DEFINE legs == OtherLegs \cup {ThisLeg}
           caps == {c \in ThisLeg.caps : \A l \in legs : c \in l.caps}
<1>1. receipt' = [commit |-> probe.commit, legs |-> legs, caps |-> caps]
  BY DEF WriteReceipt
<1>2. /\ DOMAIN probe' = LegFields /\ probe'.pc \in {"passed", "failed"} /\ probe'.passed = {}
      /\ probe'.root = FALSE /\ probe'.atomic = FALSE /\ DOMAIN probeSpace' = {"ws", "files"}
  BY DEF WriteReceipt, IdleLeg, LegFields, ProbeInv, LegAtWork
<1>3. LegAtWork'
  BY <1>2 DEF LegAtWork, RowsBacked, RowPcs
<1>4. LegFact(ThisLeg, receipt')
  <2>1. \A c \in ThisLeg.caps \ {"perFilePatch"} :
           c \in ThisLeg.truth \/ (c = "atomicBulk" /\ ThisLeg.blind = TRUE)
    <3>1. ThisLeg.caps = Capabilities(probe) /\ ThisLeg.truth = probe.truth /\ ThisLeg.blind = probe.blind
      BY DEF ThisLeg
    <3> QED
      BY <3>1, CapabilitiesBacked DEF ProbeInv
  <2>2. ThisLeg.left = TRUE => ThisLeg.residue = TRUE \/ ThisLeg.unanswered = TRUE
    <3>1. /\ ThisLeg.left = probeSpace.ws /\ ThisLeg.residue = probe.residue
          /\ ThisLeg.unanswered = probe.unanswered
      BY DEF ThisLeg
    <3>2. probe.pc = "write"
      BY DEF WriteReceipt
    <3> QED
      BY <3>1, <3>2 DEF ProbeInv, LegAtWork
  <2>3. receipt'.caps \subseteq ThisLeg.caps
    BY <1>1
  <2>4. ThisLeg.ranAt = receipt'.commit
    BY <1>1 DEF ThisLeg
  <2> QED
    BY <2>1, <2>2, <2>3, <2>4 DEF LegFact
<1>5. ASSUME NEW l \in OtherLegs PROVE LegFact(l, receipt')
  <2>1. LegFact(l, receipt) /\ receipt.commit = probe.commit
    BY <1>5 DEF OtherLegs, ProbeInv, Committed
  <2>2. receipt'.commit = receipt.commit /\ receipt'.caps \subseteq l.caps
    BY <1>1, <2>1, <1>5
  <2> QED
    BY <2>1, <2>2 DEF LegFact
<1>6. receipt'.legs = legs
  BY <1>1
<1>7. Committed(receipt')
  BY <1>4, <1>5, <1>6 DEF Committed
<1> QED
  BY <1>3, <1>7 DEF ProbeInv, Committed

\* Taking the evidence over marks every leg of it.
LEMMA RebindKeeps == ASSUME ProbeInv, ReceiptShape(receipt), RebindReceipt PROVE ProbeInv'
<1>1. receipt'.caps = receipt.caps /\ receipt'.legs = {[l EXCEPT !.rebound = TRUE] : l \in receipt.legs}
  BY DEF RebindReceipt, ReceiptShape
<1>2. ASSUME NEW l \in receipt.legs PROVE LegFact([l EXCEPT !.rebound = TRUE], receipt')
  <2> DEFINE m == [l EXCEPT !.rebound = TRUE]
  <2>1. /\ m.caps = l.caps /\ m.truth = l.truth /\ m.blind = l.blind /\ m.left = l.left
        /\ m.residue = l.residue /\ m.unanswered = l.unanswered /\ m.rebound = TRUE
    BY DEF ReceiptShape, CommittedFields
  <2>2. LegFact(l, receipt)
    BY DEF ProbeInv, Committed
  <2> HIDE DEF m
  <2>3. LegFact(m, receipt')
    BY <1>1, <2>1, <2>2 DEF LegFact
  <2> QED
    BY <2>3 DEF m
<1>3. Committed(receipt')
  BY <1>1, <1>2 DEF Committed
<1>4. LegAtWork'
  BY DEF RebindReceipt, ProbeInv, LegAtWork, RowsBacked
<1> QED
  BY <1>3, <1>4 DEF ProbeInv, Committed

LEMMA ShapeKeeps ==
    ASSUME ReceiptShape(receipt), [ProbeNext]_probeVars
    PROVE  ReceiptShape(receipt')
<1>1. CASE UNCHANGED receipt
  BY <1>1
<1>2. CASE WriteReceipt
  <2>1. receipt'.legs = OtherLegs \cup {ThisLeg} /\ DOMAIN receipt' = {"commit", "legs", "caps"}
    BY <1>2 DEF WriteReceipt
  <2>2. DOMAIN ThisLeg = CommittedFields
    BY DEF ThisLeg, CommittedFields
  <2>3. \A l \in OtherLegs : DOMAIN l = CommittedFields
    BY DEF OtherLegs, ReceiptShape
  <2> QED
    BY <2>1, <2>2, <2>3 DEF ReceiptShape
<1>3. CASE RebindReceipt
  <2>1. /\ DOMAIN receipt' = {"commit", "legs", "caps"}
        /\ receipt'.legs = {[l EXCEPT !.rebound = TRUE] : l \in receipt.legs}
    BY <1>3 DEF RebindReceipt, ReceiptShape
  <2>2. \A l \in receipt.legs : DOMAIN [l EXCEPT !.rebound = TRUE] = CommittedFields
    BY DEF ReceiptShape, CommittedFields
  <2> QED
    BY <2>1, <2>2 DEF ReceiptShape
<1>4. CASE MintAccessToken("nonorg") \/ MintAccessToken("org")
  BY <1>1, <1>4 DEF MintAccessToken, SameRepo
<1>5. CASE CreateWorkspace \/ CreateBundle \/ ReadMembers \/ GenerateFirst \/ PatchCompanion \/ AddFile
  BY <1>1, <1>5 DEF CreateWorkspace, CreateBundle, ReadMembers, GenerateFirst, PatchCompanion, AddFile, SameRepo
<1>6. CASE DeleteFile \/ BulkModify \/ ChangeRoot \/ NestedPath \/ FailBulk \/ ProtobufSpec
  BY <1>1, <1>6 DEF DeleteFile, BulkModify, ChangeRoot, NestedPath, FailBulk, ProtobufSpec, SameRepo
<1>7. CASE CleanupJournaledResources \/ CommitSource
  BY <1>1, <1>7 DEF CleanupJournaledResources, CommitSource, SameRepo
<1> QED
  BY <1>1, <1>2, <1>3, <1>4, <1>5, <1>6, <1>7 DEF ProbeNext, probeVars, LegModes

LEMMA ProbeStepKeeps == ASSUME EvidenceInv, [ProbeNext]_probeVars PROVE EvidenceInv'
<1>1. ReceiptShape(receipt')
  BY ShapeKeeps DEF EvidenceInv
<1>2. CASE UNCHANGED probeVars \/ CommitSource
  <2>1. UNCHANGED <<receipt, probeSpace, probe>>
    BY <1>2 DEF probeVars, CommitSource
  <2> QED
    BY <1>1, <2>1 DEF EvidenceInv, ProbeInv, LegAtWork, RowsBacked
<1>3. CASE RebindReceipt
  BY <1>1, <1>3, RebindKeeps DEF EvidenceInv
<1>4. CASE WriteReceipt \/ \E mode \in LegModes : MintAccessToken(mode)
  BY <1>1, <1>4, WriteReceiptKeeps, MintLegKeeps DEF EvidenceInv
<1> QED
  BY <1>1, <1>2, <1>3, <1>4, CreateLegKeeps, CreateBundleKeeps, ReadMembersKeeps, GenerateFirstKeeps, PatchKeeps,
     AddFileKeeps, DeleteFileKeeps, BulkModifyKeeps, ChangeRootKeeps, NestedKeeps, FailBulkKeeps, ProtobufKeeps,
     CleanupKeeps
     DEF ProbeNext, EvidenceInv

\* However the service answers the requests of the probe's rows, whatever is
\* committed and rebound in between: a capability that a leg of the committed
\* receipt claims was observed (or inferred from two unreadable snapshots), a
\* leg without residue left nothing behind that it could have seen, and a
\* receipt that a release accepts is about its source.
\* (probe-multifile-spec-sync.mjs, rebind-multifile-receipt.mjs.)
THEOREM ProbeHonest == ProbeSpec => []ProbeIsHonest
<1>1. ProbeInit => EvidenceInv
  BY DEF ProbeInit, EvidenceInv, ProbeInv, ReceiptShape, LegAtWork, RowsBacked, RowPcs, Committed, NoLegs,
         IdleLeg, LegFields
<1>2. EvidenceInv /\ [ProbeNext]_probeVars => EvidenceInv'
  BY ProbeStepKeeps
<1>3. EvidenceInv => ProbeIsHonest
  <2> SUFFICES ASSUME EvidenceInv PROVE ProbeIsHonest
    OBVIOUS
  <2>1. \A l \in receipt.legs : LegFact(l, receipt)
    BY DEF EvidenceInv, ProbeInv, Committed
  <2>2. ClaimsObserved
    BY <2>1 DEF LegFact, ClaimsObserved
  <2>3. ResidueKnown
    BY <2>1 DEF LegFact, ResidueKnown
  <2>4. LegsOfThisSource
    BY <2>1 DEF LegFact, LegsOfThisSource, SourceBinding, ReleaseOnlyDrift
  <2> QED
    BY <2>2, <2>3, <2>4 DEF ProbeIsHonest
<1> QED
  BY <1>1, <1>2, <1>3, PTL DEF ProbeSpec

-----------------------------------------------------------------------------
(* The release train                                                       *)

Kinds == DOMAIN BumpKinds
Versions == Nat \X Nat \X Nat
VersionTag == [v : Versions, pkg : Versions, src : Nat]
Tarballs == {"x", "y"}
CutRun ==
    [pc : {"idle", "reconcile", "execute", "push", "start"}, head : Nat, previous : VersionTag,
     planned : Versions, local : Versions, started : BOOLEAN]
ReleaseRun ==
    [pc : {"idle", "verify", "publish", "npm", "e2e", "alias"}, tag : VersionTag, tgz : Tarballs, onNpm : BOOLEAN]

TrainTypes ==
    /\ mainline \in Seq(Kinds)
    /\ vTags \subseteq VersionTag /\ IsFiniteSet(vTags)
    /\ \A t \in vTags : t.v # NoVersion /\ t.src <= Len(mainline)
TrainRuns ==
    /\ majorAliases \subseteq VersionTag
    /\ cut \in CutRun /\ release \in ReleaseRun /\ queued \in VersionTag

NewestIn(tags, t) == t \in tags /\ \A u \in tags : ~ Older(t.v, u.v)

\* A tag that is not older than one of the train is not of an earlier commit; the
\* train's tag that is not released is its newest.
TrainInOrder ==
    /\ \E t \in vTags : NewestIn(vTags, t)
    /\ \A t \in vTags, u \in CutTags : Older(t.v, u.v) \/ u.src <= t.src
    /\ VersionsFollowCommits /\ BreakingIsMajor
    /\ \A t, u \in CutTags : Released(t.v) \/ ~ Older(t.v, u.v)

\* A planned version is somebody's tag by now, or it is still newer than all tags, of a
\* later commit and of a new major version if that breaks; what a cut executes
\* follows only released tags.
Ahead ==
    /\ \A t \in vTags : Older(t.v, cut.planned)
    /\ \A t \in CutTags : t.src < cut.head
    /\ vTags = CutTags =>
         \A t \in vTags : (\E k \in (t.src + 1)..cut.head : mainline[k] = "breaking") => t.v[1] < cut.planned[1]
    /\ cut.pc # "reconcile" => \A t \in CutTags : Released(t.v)
CutKnows ==
    /\ cut.head <= Len(mainline)
    /\ cut.pc \in {"reconcile", "execute", "push"} =>
         cut.planned = NoVersion \/ (\E t \in vTags : t.v = cut.planned) \/ Ahead
    /\ cut.pc \in {"execute", "push"} => cut.planned # NoVersion
    /\ cut.pc = "start" => cut.planned = NoVersion \/ \E t \in vTags : t.v = cut.planned

\* What a release run has published at each of its steps.
RunPublished ==
    /\ release.pc \in {"publish", "npm", "e2e", "alias"} => release.tag.pkg = release.tag.v
    /\ release.pc \in {"npm", "e2e", "alias"} => Released(release.tag.v)
    /\ release.pc = "npm" => TarballOf(release.tag.v, ghReleases) = {release.tgz}
    /\ release.pc \notin {"e2e", "alias"} => release.onNpm = FALSE
    /\ OneTarball /\ AliasesPublished

TrainInv == TrainTypes /\ TrainRuns /\ TrainInOrder /\ CutKnows /\ RunPublished

\* compareReleaseVersions is a total order.
LEMMA OlderIsOrder ==
    /\ \A a \in Versions : ~ Older(a, a)
    /\ \A a, b \in Versions : Older(a, b) => ~ Older(b, a)
    /\ \A a, b, c \in Versions : Older(a, b) /\ Older(b, c) => Older(a, c)
    /\ \A a, b \in Versions : a = b \/ Older(a, b) \/ Older(b, a)
    /\ \A a, b \in Versions : ~ Older(a, b) => b[1] <= a[1]
<1>1. \A a \in Versions : a[1] \in Nat /\ a[2] \in Nat /\ a[3] \in Nat /\ a = <<a[1], a[2], a[3]>>
  BY DEF Versions
<1>2. \A a, b \in Versions : a[1] = b[1] /\ a[2] = b[2] /\ a[3] = b[3] => a = b
  BY <1>1
<1>3. \A a \in Versions : ~ Older(a, a)
  BY <1>1, SMT DEF Older
<1>4. \A a, b \in Versions : Older(a, b) => ~ Older(b, a)
  BY <1>1, SMT DEF Older
<1>5. \A a, b, c \in Versions : Older(a, b) /\ Older(b, c) => Older(a, c)
  BY <1>1, SMT DEF Older
<1>6. \A a, b \in Versions : a = b \/ Older(a, b) \/ Older(b, a)
  <2> SUFFICES ASSUME NEW a \in Versions, NEW b \in Versions, ~ Older(a, b), ~ Older(b, a)
               PROVE  a = b
    OBVIOUS
  <2>1. a[1] = b[1] /\ a[2] = b[2] /\ a[3] = b[3]
    BY <1>1, SMT DEF Older
  <2> QED
    BY <1>2, <2>1
<1>7. \A a, b \in Versions : ~ Older(a, b) => b[1] <= a[1]
  BY <1>1, SMT DEF Older
<1> QED
  BY <1>3, <1>4, <1>5, <1>6, <1>7

\* The order carries over from a version that is not older.
LEMMA OlderThanNewest ==
    ASSUME NEW a \in Versions, NEW b \in Versions, NEW c \in Versions, ~ Older(a, b), Older(a, c)
    PROVE  Older(b, c)
<1>1. CASE a = b
  BY <1>1
<1>2. CASE Older(b, a)
  BY <1>2, OlderIsOrder
<1> QED
  BY <1>1, <1>2, OlderIsOrder

LEMMA NewestIsIn ==
    ASSUME NEW S, \E t \in S : NewestIn(S, t)
    PROVE  NewestIn(S, Newest(S))
BY DEF Newest, NewestIn

\* The train's tags have a newest one, that of the latest commit.
LEMMA LatestIsNewest ==
    ASSUME TrainTypes, VersionsFollowCommits, CutTags # {}
    PROVE  NewestIn(CutTags, Latest)
<1> DEFINE R == OpToRel(<, Nat)
           left == {Len(mainline) - t.src : t \in CutTags}
<1>1. CutTags \subseteq vTags /\ Len(mainline) \in Nat /\ \A t \in CutTags : t.src \in Nat /\ t.src <= Len(mainline)
  BY DEF TrainTypes, CutTags, VersionTag
<1>2. left \subseteq Nat /\ left # {}
  BY <1>1, SMT
<1>3. IsWellFoundedOn(R, Nat)
  BY NatLessThanWellFounded
<1>4. \A x, y \in Nat : <<y, x>> \in R <=> y < x
  BY DEF OpToRel
<1> HIDE DEF R
<1>5. PICK x \in left : \A y \in left : ~ (<<y, x>> \in R)
  BY <1>2, <1>3, WFMin
<1>6. \A y \in left : ~ (y < x)
  BY <1>2, <1>4, <1>5
<1>7. PICK t \in CutTags : x = Len(mainline) - t.src
  BY <1>5
<1>8. \A u \in CutTags : ~ (t.src < u.src)
  <2> SUFFICES ASSUME NEW u \in CutTags, t.src < u.src PROVE FALSE
    OBVIOUS
  <2>1. Len(mainline) - u.src \in left
    OBVIOUS
  <2>2. ~ (Len(mainline) - u.src < Len(mainline) - t.src)
    BY <1>6, <1>7, <2>1
  <2>3. t.src \in Nat /\ u.src \in Nat
    BY <1>1
  <2> HIDE DEF left
  <2> QED
    BY <1>1, <2>2, <2>3, SMT
<1> HIDE DEF left
<1>9. NewestIn(CutTags, t)
  BY <1>8 DEF NewestIn, VersionsFollowCommits
<1> QED
  BY <1>9, NewestIsIn DEF Latest

\* What a bump makes of a version.
LEMMA BumpIsNewer ==
    ASSUME NEW v \in Versions, NEW rank \in 1..3
    PROVE  LET b == ApplyBump(v, rank) IN
           /\ b \in Versions /\ Older(v, b) /\ b # NoVersion
           /\ v[1] <= b[1] /\ (rank = 3 => v[1] < b[1])
<1>1. v[1] \in Nat /\ v[2] \in Nat /\ v[3] \in Nat
  BY DEF Versions
<1>2. CASE rank = 3
  <2>1. ApplyBump(v, rank) = <<v[1] + 1, 0, 0>>
    BY <1>2 DEF ApplyBump
  <2> QED
    BY <1>1, <1>2, <2>1 DEF Older, NoVersion, Versions
<1>3. CASE rank = 2
  <2>1. ApplyBump(v, rank) = <<v[1], v[2] + 1, 0>>
    BY <1>3 DEF ApplyBump
  <2> QED
    BY <1>1, <1>3, <2>1 DEF Older, NoVersion, Versions
<1>4. CASE rank = 1
  <2>1. ApplyBump(v, rank) = <<v[1], v[2], v[3] + 1>>
    BY <1>4 DEF ApplyBump
  <2> QED
    BY <1>1, <1>4, <2>1 DEF Older, NoVersion, Versions
<1>5. rank = 1 \/ rank = 2 \/ rank = 3
  BY SMT
<1> QED
  BY <1>2, <1>3, <1>4, <1>5

\* From the newest tag no version is passed over.
LEMMA NextIsBump ==
    ASSUME TrainTypes, NEW n, NewestIn(vTags, n), NEW rank \in 1..3
    PROVE  /\ NextVersion(n.v, rank) = ApplyBump(n.v, rank)
           /\ \A t \in vTags : Older(t.v, ApplyBump(n.v, rank))
<1> DEFINE f == ApplyBump(n.v, rank)
           ahead == {<<f[1], f[2], f[3] + k>> : k \in 0..Cardinality(vTags)}
           free == {w \in ahead : \A t \in vTags : t.v # w}
<1>1. \A t \in vTags : t.v \in Versions
  BY DEF TrainTypes, VersionTag
<1>2. n \in vTags /\ n.v \in Versions
  BY <1>1 DEF NewestIn
<1>3. f \in Versions /\ Older(n.v, f)
  BY <1>2, BumpIsNewer
<1>4. NextVersion(n.v, rank) = CHOOSE w \in free : \A u \in free : ~Older(u, w)
  BY DEF NextVersion
<1> HIDE DEF f
<1>5. \A t \in vTags : Older(t.v, f)
  BY <1>1, <1>2, <1>3, OlderThanNewest DEF NewestIn
<1>6. \A t \in vTags : t.v # f
  BY <1>3, <1>5, OlderIsOrder
<1>7. Cardinality(vTags) \in Nat
  BY FS_CardinalityType DEF TrainTypes
<1>8. f[1] \in Nat /\ f[2] \in Nat /\ f[3] \in Nat /\ f = <<f[1], f[2], f[3]>>
  BY <1>3 DEF Versions
<1>9. f \in ahead
  <2>1. 0 \in 0..Cardinality(vTags) /\ f[3] + 0 = f[3]
    BY <1>7, <1>8, SMT
  <2>2. <<f[1], f[2], f[3] + 0>> \in ahead
    BY <2>1
  <2> HIDE DEF ahead
  <2> QED
    BY <1>8, <2>1, <2>2
<1>10. ASSUME NEW w \in ahead PROVE w \in Versions /\ (w = f \/ Older(f, w))
  <2>1. PICK k \in 0..Cardinality(vTags) : w = <<f[1], f[2], f[3] + k>>
    OBVIOUS
  <2>2. k \in Nat /\ f[3] + k \in Nat /\ (k = 0 \/ f[3] < f[3] + k) /\ (k = 0 => f[3] + k = f[3])
    BY <1>7, <1>8, SMT
  <2>3. w \in Versions /\ w[1] = f[1] /\ w[2] = f[2] /\ w[3] = f[3] + k
    BY <1>8, <2>1, <2>2 DEF Versions
  <2>4. CASE k = 0
    <3>1. w = <<f[1], f[2], f[3]>>
      BY <2>1, <2>2, <2>4
    <3> QED
      BY <1>8, <2>3, <3>1
  <2>5. CASE k # 0
    BY <2>2, <2>3, <2>5 DEF Older
  <2> QED
    BY <2>3, <2>4, <2>5
<1> HIDE DEF ahead
<1>11. f \in free /\ free \subseteq ahead
  BY <1>6, <1>9
<1> HIDE DEF free
<1>12. \A u \in free : ~Older(u, f)
  <2> SUFFICES ASSUME NEW u \in free PROVE ~ Older(u, f)
    OBVIOUS
  <2>1. u \in Versions /\ (u = f \/ Older(f, u))
    BY <1>10, <1>11
  <2> QED
    BY <1>3, <2>1, OlderIsOrder
<1>13. PICK w \in free : w = NextVersion(n.v, rank) /\ \A u \in free : ~Older(u, w)
  BY <1>4, <1>11, <1>12
<1>14. w = f
  BY <1>10, <1>11, <1>13
<1> QED
  BY <1>5, <1>13, <1>14 DEF f

LEMMA KindRanks ==
    /\ "breaking" \in Kinds /\ BumpKinds["breaking"] = 3
    /\ \A kind \in Kinds : BumpKinds[kind] \in 0..3
BY DEF Kinds, BumpKinds

\* parseConventionalBump finds no more than the commits say, and no less.
LEMMA BumpOfCommits ==
    ASSUME mainline \in Seq(Kinds), NEW previous \in VersionTag, NEW head \in Nat, head <= Len(mainline)
    PROVE  LET rank == ConventionalBump(previous, head) IN
           /\ rank \in 0..3
           /\ rank # 0 => previous.src < head
           /\ \A k \in (previous.src + 1)..head : mainline[k] = "breaking" => rank = 3
<1> DEFINE ranks == {0} \cup {BumpKinds[mainline[k]] : k \in (previous.src + 1)..head}
           rank == ConventionalBump(previous, head)
<1>1. previous.src \in Nat /\ Len(mainline) \in Nat
  BY DEF VersionTag
<1>2. \A k \in (previous.src + 1)..head : k \in 1..Len(mainline) /\ previous.src < head
  BY <1>1, SMT
<1>3. \A k \in (previous.src + 1)..head : BumpKinds[mainline[k]] \in 0..3
  BY <1>2, KindRanks
<1>4. ranks \subseteq 0..3 /\ 0 \in ranks
  <2>1. 0 \in 0..3
    BY SMT
  <2> QED
    BY <1>3, <2>1
<1>5. rank = CHOOSE r \in ranks : \A q \in ranks : q <= r
  BY DEF ConventionalBump
<1> HIDE DEF rank
<1>6. \A r \in ranks : r = 0 \/ previous.src < head
  BY <1>2
<1>7. \A k \in (previous.src + 1)..head : mainline[k] = "breaking" => 3 \in ranks
  BY KindRanks
<1> HIDE DEF ranks
<1>8. \E r \in ranks : \A q \in ranks : q <= r
  <2>1. CASE 3 \in ranks
    BY <1>4, <2>1, SMT
  <2>2. CASE 3 \notin ranks /\ 2 \in ranks
    BY <1>4, <2>2, SMT
  <2>3. CASE 3 \notin ranks /\ 2 \notin ranks /\ 1 \in ranks
    <3>1. \A q \in ranks : q \in 0..1
      BY <1>4, <2>3, SMT
    <3>2. \A q \in 0..1 : q <= 1
      BY SMT
    <3> QED
      BY <2>3, <3>1, <3>2
  <2>4. CASE 3 \notin ranks /\ 2 \notin ranks /\ 1 \notin ranks
    <3>1. \A q \in ranks : q = 0
      BY <1>4, <2>4, SMT
    <3> QED
      BY <1>4, <3>1
  <2> QED
    BY <2>1, <2>2, <2>3, <2>4
<1>9. rank \in ranks /\ \A q \in ranks : q <= rank
  BY <1>5, <1>8
<1>10. rank \in 0..3 /\ (3 \in ranks => rank = 3)
  BY <1>4, <1>9, SMT
<1> QED
  BY <1>6, <1>7, <1>9, <1>10 DEF rank

\* What is planned from the newest tag.
LEMMA PlannedVersion ==
    ASSUME TrainTypes, \E t \in vTags : NewestIn(vTags, t), NEW head \in Nat, head <= Len(mainline)
    PROVE  LET p == Newest(vTags)  w == PlanVersion(head) IN
           /\ p \in vTags /\ p \in VersionTag /\ w \in Versions
           /\ w # NoVersion =>
                /\ \A t \in vTags : Older(t.v, w) /\ ~ Older(p.v, t.v)
                /\ p.src < head /\ p.v[1] <= w[1]
                /\ \A k \in (p.src + 1)..head : mainline[k] = "breaking" => p.v[1] < w[1]
<1> DEFINE p == Newest(vTags)
           w == PlanVersion(head)
           rank == ConventionalBump(p, head)
<1>1. NewestIn(vTags, p)
  BY NewestIsIn
<1>2. p \in vTags /\ p \in VersionTag /\ p.v \in Versions /\ \A t \in vTags : ~ Older(p.v, t.v)
  BY <1>1 DEF NewestIn, TrainTypes, VersionTag
<1>3. w = IF rank = 0 THEN NoVersion ELSE NextVersion(p.v, rank)
  BY DEF PlanVersion
<1> HIDE DEF w, p
<1>4. /\ rank \in 0..3
      /\ rank # 0 => p.src < head
      /\ \A k \in (p.src + 1)..head : mainline[k] = "breaking" => rank = 3
  BY <1>2, BumpOfCommits DEF TrainTypes
<1> HIDE DEF rank
<1>5. NoVersion \in Versions
  BY DEF NoVersion, Versions
<1>6. CASE rank = 0
  BY <1>2, <1>3, <1>5, <1>6 DEF p, w
<1>7. CASE rank # 0
  <2>1. rank \in 1..3
    BY <1>4, <1>7, SMT
  <2>2. w = ApplyBump(p.v, rank) /\ \A t \in vTags : Older(t.v, w)
    BY <1>1, <1>3, <1>7, <2>1, NextIsBump
  <2>3. w \in Versions /\ p.v[1] <= w[1] /\ (rank = 3 => p.v[1] < w[1])
    BY <1>2, <2>1, <2>2, BumpIsNewer
  <2> QED
    BY <1>2, <1>4, <1>7, <2>2, <2>3 DEF p, w
<1> QED
  BY <1>6, <1>7

\* What the invariant says of the types, field by field.
LEMMA TrainFields ==
    ASSUME TrainInv
    PROVE  /\ mainline \in Seq(Kinds) /\ Len(mainline) \in Nat
           /\ \A t \in vTags : /\ t \in VersionTag /\ t.v \in Versions /\ t.pkg \in Versions /\ t.src \in Nat
                               /\ t.src <= Len(mainline) /\ t.v # NoVersion
           /\ CutTags \subseteq vTags
           /\ cut.head \in Nat /\ cut.head <= Len(mainline) /\ cut.planned \in Versions
           /\ cut.previous \in VersionTag /\ cut.local \in Versions
           /\ release.tag \in VersionTag /\ release.tag.v \in Versions /\ release.tgz \in Tarballs
BY DEF TrainInv, TrainTypes, TrainRuns, CutKnows, VersionTag, CutTags, CutRun, ReleaseRun

LEMMA IdleTypes ==
    /\ NoVersion \in Versions /\ NoTag \in VersionTag
    /\ IdleCut \in CutRun /\ IdleCut.pc = "idle" /\ IdleCut.head = 0
    /\ IdleRelease \in ReleaseRun /\ IdleRelease.pc = "idle" /\ IdleRelease.onNpm = FALSE
<1>1. NoVersion \in Versions
  BY DEF NoVersion, Versions
<1>2. NoTag \in VersionTag
  BY <1>1 DEF NoTag, VersionTag
<1> QED
  BY <1>1, <1>2 DEF IdleCut, CutRun, IdleRelease, ReleaseRun, Tarballs

StaysReleased == \A v \in Versions : Released(v) => Released(v)'

\* Without a tag or a commit, the tags stay in order.
LEMMA TrainStands ==
    ASSUME TrainInv, UNCHANGED <<vTags, mainline>>, StaysReleased
    PROVE  TrainTypes' /\ TrainInOrder'
<1>1. CutTags' = CutTags
  BY DEF CutTags
<1>2. TrainTypes'
  BY DEF TrainInv, TrainTypes
<1>3. VersionsFollowCommits' /\ BreakingIsMajor'
  BY <1>1 DEF TrainInv, TrainInOrder, VersionsFollowCommits, BreakingIsMajor
<1>4. \A t, u \in CutTags : Released(t.v)' \/ ~ Older(t.v, u.v)
  BY TrainFields DEF TrainInv, TrainInOrder, StaysReleased
<1> QED
  BY <1>1, <1>2, <1>3, <1>4 DEF TrainInv, TrainInOrder

LEMMA CutStands ==
    ASSUME TrainInv, UNCHANGED <<vTags, mainline>>, StaysReleased, UNCHANGED cut
    PROVE  CutKnows'
<1>1. CutTags' = CutTags
  BY DEF CutTags
<1>2. Ahead => Ahead'
  BY <1>1, TrainFields DEF Ahead, StaysReleased
<1> QED
  BY <1>2 DEF TrainInv, CutKnows

LEMMA CutEnds ==
    ASSUME TrainInv, Len(mainline') \in Nat, cut' = IdleCut
    PROVE  cut' \in CutRun /\ CutKnows'
<1>1. 0 <= Len(mainline')
  BY SMT
<1> QED
  BY <1>1, IdleTypes DEF CutKnows

\* A release run that is queued or dispatched has published nothing.
LEMMA Queues ==
    ASSUME TrainInv, SamePublic, Quiet \/ \E t \in VersionTag : Enqueue(t)
    PROVE  /\ release' \in ReleaseRun /\ queued' \in VersionTag /\ majorAliases' \subseteq VersionTag
           /\ RunPublished' /\ StaysReleased /\ AliasesAdvance /\ PublicForGood
<1>1. StaysReleased
  BY DEF SamePublic, StaysReleased, Released
<1>2. /\ release' \in ReleaseRun /\ queued' \in VersionTag
      /\ release' = release \/ (release'.pc = "verify" /\ release'.onNpm = FALSE)
  <2>1. CASE Quiet
    BY <2>1 DEF Quiet, TrainInv, TrainRuns
  <2>2. ASSUME NEW t \in VersionTag, Enqueue(t) PROVE <1>2!1 /\ <1>2!2
    <3>1. /\ [IdleRelease EXCEPT !.pc = "verify", !.tag = t] \in ReleaseRun
          /\ [IdleRelease EXCEPT !.pc = "verify", !.tag = t].pc = "verify"
          /\ [IdleRelease EXCEPT !.pc = "verify", !.tag = t].onNpm = FALSE
      BY IdleTypes, <2>2 DEF IdleRelease, ReleaseRun, Tarballs
    <3> QED
      BY <2>2, <3>1 DEF Enqueue, TrainInv, TrainRuns
  <2> QED
    BY <2>1, <2>2
<1>3. AliasesPublished'
  BY DEF TrainInv, RunPublished, AliasesPublished, SamePublic, Released
<1>4. ASSUME release' = release PROVE RunPublished'
  <2>1. OneTarball'
    BY <1>4 DEF TrainInv, RunPublished, OneTarball, SamePublic, TarballOf
  <2>2. Released(release.tag.v)' <=> Released(release.tag.v)
    BY <1>4 DEF SamePublic, Released
  <2>3. TarballOf(release.tag.v, ghReleases)' = TarballOf(release.tag.v, ghReleases)
    BY <1>4 DEF SamePublic, TarballOf
  <2> QED
    BY <1>3, <1>4, <2>1, <2>2, <2>3 DEF TrainInv, RunPublished
<1>5. ASSUME release'.pc = "verify", release'.onNpm = FALSE PROVE RunPublished'
  <2>1. OneTarball'
    BY <1>5 DEF OneTarball
  <2> QED
    BY <1>3, <1>5, <2>1 DEF RunPublished
<1>6. AliasesAdvance /\ PublicForGood
  <2>1. \A t \in majorAliases : t.v \in Versions
    BY DEF TrainInv, TrainRuns, VersionTag
  <2> QED
    BY <2>1, OlderIsOrder DEF AliasesAdvance, PublicForGood, SamePublic
<1> QED
  BY <1>1, <1>2, <1>4, <1>5, <1>6 DEF SamePublic, TrainInv, TrainRuns

LEMMA MergeKeeps == ASSUME TrainInv, NEW kind \in Kinds, MergeToMain(kind) PROVE TrainInv'
<1>1. /\ mainline' = Append(mainline, kind) /\ UNCHANGED <<vTags, cut>> /\ SamePublic /\ Quiet
  BY DEF MergeToMain
<1>2. /\ mainline' \in Seq(Kinds) /\ Len(mainline') = Len(mainline) + 1
      /\ \A k \in 1..Len(mainline) : mainline'[k] = mainline[k]
  BY <1>1, TrainFields
<1>3. \A n \in Nat : n <= Len(mainline) => n <= Len(mainline')
  BY <1>2, TrainFields, SMT
<1>4. CutTags' = CutTags
  BY <1>1 DEF CutTags
<1>5. \A m, n \in Nat : n <= Len(mainline) => \A k \in (m + 1)..n : mainline'[k] = mainline[k]
  <2>1. \A m, n \in Nat : n <= Len(mainline) => \A k \in (m + 1)..n : k \in 1..Len(mainline)
    BY TrainFields, SMT
  <2> QED
    BY <1>2, <2>1
<1>6. /\ release' \in ReleaseRun /\ queued' \in VersionTag /\ majorAliases' \subseteq VersionTag
      /\ RunPublished' /\ StaysReleased
  BY <1>1, Queues
<1>7. TrainTypes'
  BY <1>1, <1>2, <1>3, TrainFields DEF TrainInv, TrainTypes
<1>8. TrainInOrder'
  <2>1. BreakingIsMajor'
    BY <1>1, <1>4, <1>5, TrainFields DEF TrainInv, TrainInOrder, BreakingIsMajor
  <2>2. \A t, u \in CutTags : Released(t.v)' \/ ~ Older(t.v, u.v)
    BY <1>6, TrainFields DEF TrainInv, TrainInOrder, StaysReleased
  <2>3. VersionsFollowCommits'
    BY <1>4 DEF TrainInv, TrainInOrder, VersionsFollowCommits
  <2> QED
    BY <1>1, <1>4, <2>1, <2>2, <2>3 DEF TrainInv, TrainInOrder
<1>9. CutKnows'
  <2>1. Ahead => Ahead'
    BY <1>1, <1>4, <1>5, <1>6, TrainFields DEF Ahead, StaysReleased
  <2> QED
    BY <1>1, <1>3, <2>1, TrainFields DEF TrainInv, CutKnows
<1> QED
  BY <1>1, <1>6, <1>7, <1>8, <1>9 DEF TrainInv, TrainRuns

\* A step of the cut that neither tags nor merges.
LEMMA CutMoves ==
    ASSUME TrainInv, SameTrain, SamePublic, Quiet \/ \E t \in VersionTag : Enqueue(t),
           cut' \in CutRun, CutKnows'
    PROVE  TrainInv'
BY Queues, TrainStands DEF SameTrain, TrainInv, TrainRuns

LEMMA CutStops ==
    ASSUME TrainInv, SameTrain, SamePublic, Quiet \/ \E t \in VersionTag : Enqueue(t), EndCut
    PROVE  TrainInv'
<1>1. Len(mainline') \in Nat
  BY TrainFields DEF SameTrain
<1> QED
  BY <1>1, CutEnds, CutMoves DEF EndCut

LEMMA PlanKeeps == ASSUME TrainInv, PlanRelease PROVE TrainInv'
<1> DEFINE p == Newest(vTags)
           w == PlanVersion(Len(mainline))
<1>1. SameTrain /\ SamePublic /\ Quiet
  BY DEF PlanRelease
<1>2. CASE cut' = IdleCut
  BY <1>1, <1>2, CutStops DEF EndCut
<1>3. CASE cut' = [IdleCut EXCEPT !.pc = "reconcile", !.head = Len(mainline), !.previous = p, !.planned = w]
  <2>1. /\ p \in vTags /\ p \in VersionTag /\ w \in Versions
        /\ w # NoVersion =>
             /\ \A t \in vTags : Older(t.v, w) /\ ~ Older(p.v, t.v)
             /\ p.src < Len(mainline) /\ p.v[1] <= w[1]
             /\ \A k \in (p.src + 1)..Len(mainline) : mainline[k] = "breaking" => p.v[1] < w[1]
    <3>1. Len(mainline) \in Nat /\ Len(mainline) <= Len(mainline)
      BY TrainFields, SMT
    <3> QED
      BY <3>1, PlannedVersion DEF TrainInv, TrainInOrder
  <2> HIDE DEF p, w
  <2>2. /\ cut' \in CutRun /\ cut'.pc = "reconcile" /\ cut'.head = Len(mainline) /\ cut'.planned = w
    BY <1>3, <2>1, TrainFields, IdleTypes DEF IdleCut, CutRun
  <2>3. ASSUME w # NoVersion PROVE Ahead'
    <3>1. CutTags' = CutTags /\ vTags' = vTags /\ mainline' = mainline
      BY <1>1 DEF SameTrain, CutTags
    <3>2. \A t \in CutTags : t.src <= p.src
      BY <2>1, <2>3, TrainFields DEF TrainInv, TrainInOrder
    <3>3. \A t \in CutTags : t.src < Len(mainline)
      <4>1. p.src \in Nat
        BY <2>1, TrainFields
      <4> QED
        BY <2>1, <2>3, <3>2, <4>1, TrainFields, SMT
    <3>4. ASSUME vTags = CutTags, NEW t \in vTags, NEW k \in (t.src + 1)..Len(mainline), mainline[k] = "breaking"
          PROVE  t.v[1] < w[1]
      <4>1. t.v[1] \in Nat /\ p.v[1] \in Nat /\ w[1] \in Nat /\ t.v[1] <= p.v[1]
        <5>1. t.v \in Versions /\ p.v \in Versions
          BY <2>1, TrainFields
        <5> QED
          BY <2>1, <2>3, <5>1, OlderIsOrder DEF Versions
      <4>2. CASE k \in (p.src + 1)..Len(mainline)
        <5>1. p.v[1] < w[1]
          BY <2>1, <2>3, <3>4, <4>2
        <5> QED
          BY <4>1, <5>1, SMT
      <4>3. CASE k \notin (p.src + 1)..Len(mainline)
        <5>1. t.src \in Nat /\ p.src \in Nat /\ Len(mainline) \in Nat
          BY <2>1, TrainFields
        <5>2. k \in (t.src + 1)..p.src
          BY <4>3, <5>1, SMT
        <5>3. t.v[1] < p.v[1]
          BY <2>1, <3>4, <5>2 DEF TrainInv, TrainInOrder, BreakingIsMajor
        <5>4. p.v[1] <= w[1]
          BY <2>1, <2>3
        <5> QED
          BY <4>1, <5>3, <5>4, SMT
      <4> QED
        BY <4>2, <4>3
    <3>5. vTags = CutTags =>
            \A t \in vTags : (\E k \in (t.src + 1)..Len(mainline) : mainline[k] = "breaking") => t.v[1] < w[1]
      BY <3>4
    <3> QED
      BY <2>1, <2>2, <2>3, <3>1, <3>3, <3>5 DEF Ahead
  <2>4. CutKnows'
    <3>1. Len(mainline) <= Len(mainline)
      BY TrainFields, SMT
    <3> QED
      BY <1>1, <2>2, <2>3, <3>1 DEF CutKnows, SameTrain
  <2> QED
    BY <1>1, <2>2, <2>4, CutMoves
<1> QED
  BY <1>2, <1>3 DEF PlanRelease

LEMMA CutToFields ==
    ASSUME TrainInv, NEW pc \in {"idle", "reconcile", "execute", "push", "start"}, CutTo(pc)
    PROVE  cut' \in CutRun /\ cut'.pc = pc /\ cut'.head = cut.head /\ cut'.planned = cut.planned
BY DEF TrainInv, TrainRuns, CutRun, CutTo

\* No cut goes on while the train's latest tag is not released.
LEMMA ReconcileKeeps == ASSUME TrainInv, ReconcilePrior PROVE TrainInv'
<1>1. SameTrain /\ SamePublic /\ cut.pc = "reconcile"
  BY DEF ReconcilePrior
<1>2. \/ EndCut /\ Quiet
      \/ CutTags # {} /\ EndCut /\ (Quiet \/ Enqueue(Latest))
      \/ /\ CutTags = {} \/ Released(Latest.v)
         /\ CutTo(IF cut.planned # NoVersion THEN "execute" ELSE "start") /\ Quiet
  BY DEF ReconcilePrior
<1>3. CutTags # {} => NewestIn(CutTags, Latest)
  BY LatestIsNewest DEF TrainInv, TrainInOrder
<1>4. CutTags # {} => Latest \in CutTags /\ Latest \in VersionTag
  BY <1>3, TrainFields DEF NewestIn
<1>5. CASE EndCut /\ Quiet
  BY <1>1, <1>5, CutStops
<1>6. CASE CutTags # {} /\ EndCut /\ (Quiet \/ Enqueue(Latest))
  BY <1>1, <1>4, <1>6, CutStops
<1>7. CASE /\ CutTags = {} \/ Released(Latest.v)
           /\ CutTo(IF cut.planned # NoVersion THEN "execute" ELSE "start") /\ Quiet
  <2>1. \A t \in CutTags : Released(t.v)
    <3> SUFFICES ASSUME NEW t \in CutTags, ~ Released(t.v) PROVE FALSE
      OBVIOUS
    <3>1. Latest \in CutTags /\ ~ Older(Latest.v, t.v) /\ Released(Latest.v)
      BY <1>3, <1>4, <1>7 DEF NewestIn
    <3>2. ~ Older(t.v, Latest.v)
      BY <3>1 DEF TrainInv, TrainInOrder
    <3>3. t.v = Latest.v
      BY <3>1, <3>2, OlderIsOrder, TrainFields
    <3> QED
      BY <3>1, <3>3
  <2>2. /\ cut' \in CutRun /\ cut'.head = cut.head /\ cut'.planned = cut.planned
        /\ cut'.pc = IF cut.planned # NoVersion THEN "execute" ELSE "start"
    BY <1>7, CutToFields
  <2>3. CutTags' = CutTags /\ vTags' = vTags /\ mainline' = mainline
    BY <1>1 DEF SameTrain, CutTags
  <2>4. \A t \in CutTags : Released(t.v)'
    BY <1>1, <2>1 DEF SamePublic, Released
  <2>5. Ahead => Ahead'
    BY <2>2, <2>3, <2>4 DEF Ahead
  <2>6. CutKnows'
    BY <1>1, <2>2, <2>3, <2>5 DEF TrainInv, CutKnows
  <2> QED
    BY <1>1, <1>7, <2>2, <2>6, CutMoves
<1> QED
  BY <1>2, <1>5, <1>6, <1>7

LEMMA ExecuteKeeps == ASSUME TrainInv, ExecuteRelease PROVE TrainInv'
<1>1. SameTrain /\ SamePublic /\ Quiet /\ cut.pc = "execute"
  BY DEF ExecuteRelease
<1>2. CASE EndCut
  BY <1>1, <1>2, CutStops
<1>3. ASSUME cut' \in CutRun, cut'.pc = "push", cut'.head = cut.head, cut'.planned = cut.planned PROVE TrainInv'
  <2>1. CutTags' = CutTags /\ vTags' = vTags /\ mainline' = mainline
    BY <1>1 DEF SameTrain, CutTags
  <2>2. Ahead => Ahead'
    BY <1>1, <1>3, <2>1 DEF Ahead, SamePublic, Released
  <2>3. CutKnows'
    BY <1>1, <1>3, <2>1, <2>2 DEF TrainInv, CutKnows
  <2> QED
    BY <1>1, <1>3, <2>3, CutMoves
<1>4. CASE CutTo("push")
  BY <1>3, <1>4, CutToFields
<1>5. CASE cut' = [cut EXCEPT !.pc = "push", !.local = PlanVersion(cut.head)]
  <2>1. PlanVersion(cut.head) \in Versions
    BY PlannedVersion, TrainFields DEF TrainInv, TrainInOrder
  <2>2. cut' \in CutRun /\ cut'.pc = "push" /\ cut'.head = cut.head /\ cut'.planned = cut.planned
    BY <1>5, <2>1 DEF TrainInv, TrainRuns, CutRun
  <2> QED
    BY <1>3, <2>2
<1> QED
  BY <1>2, <1>4, <1>5 DEF ExecuteRelease

LEMMA StartKeeps == ASSUME TrainInv, StartRelease PROVE TrainInv'
<1> DEFINE t == IF cut.planned # NoVersion THEN CHOOSE u \in vTags : u.v = cut.planned ELSE cut.previous
<1>1. SameTrain /\ SamePublic /\ EndCut /\ cut.pc = "start" /\ (Quiet \/ Enqueue(t))
  BY DEF StartRelease
<1>2. t \in VersionTag
  <2>1. cut.planned = NoVersion \/ \E u \in vTags : u.v = cut.planned
    BY <1>1 DEF TrainInv, CutKnows
  <2> QED
    BY <2>1, TrainFields
<1> HIDE DEF t
<1> QED
  BY <1>1, <1>2, CutStops

\* The tag that the cut pushes is the newest, of the latest commit, and alone unreleased.
LEMMA PushedTag ==
    ASSUME TrainInv, UNCHANGED mainline, SamePublic, NEW t \in VersionTag,
           t.v = cut.planned, t.pkg = cut.planned, t.src = cut.head, t.v # NoVersion,
           cut.pc = "push", Ahead, vTags' = vTags \cup {t}
    PROVE  TrainTypes' /\ TrainInOrder'
<1>1. /\ \A u \in vTags : Older(u.v, t.v)
      /\ \A u \in CutTags : u.src < t.src /\ Released(u.v)
      /\ vTags = CutTags =>
           \A u \in vTags : (\E k \in (u.src + 1)..t.src : mainline[k] = "breaking") => u.v[1] < t.v[1]
  BY DEF Ahead
<1>2. /\ t.v \in Versions /\ t.src \in Nat /\ t.src <= Len(mainline)
  BY TrainFields DEF VersionTag
<1>3. TrainTypes'
  <2>1. IsFiniteSet(vTags')
    BY FS_AddElement DEF TrainInv, TrainTypes
  <2> QED
    BY <1>2, <2>1 DEF TrainInv, TrainTypes
<1>4. CutTags' = CutTags \cup {t}
  BY DEF CutTags
<1>5. \A u \in vTags : /\ u.v \in Versions /\ u.src \in Nat /\ Older(u.v, t.v) /\ ~ Older(t.v, u.v)
  BY <1>1, <1>2, TrainFields, OlderIsOrder
<1>6. ~ Older(t.v, t.v) /\ t.src <= t.src /\ ~ (t.src < t.src)
  BY <1>2, OlderIsOrder, SMT
<1>7. NewestIn(vTags', t)
  BY <1>5, <1>6 DEF NewestIn
<1>8. \A u \in CutTags : u.src <= t.src /\ u.src < t.src /\ ~ (t.src < u.src)
  <2>1. \A u \in CutTags : u.src \in Nat /\ u.src < t.src
    BY <1>1, TrainFields
  <2> QED
    BY <1>2, <2>1, SMT
<1>9. \A a \in vTags', u \in CutTags' : Older(a.v, u.v) \/ u.src <= a.src
  BY <1>4, <1>5, <1>6, <1>8 DEF TrainInv, TrainInOrder
<1>10. VersionsFollowCommits'
  <2>1. CutTags \subseteq vTags
    BY TrainFields
  <2> QED
    BY <1>4, <1>5, <1>6, <1>8, <2>1 DEF TrainInv, TrainInOrder, VersionsFollowCommits
<1>11. \A a, u \in CutTags' : Released(a.v)' \/ ~ Older(a.v, u.v)
  <2>1. \A u \in CutTags : Released(u.v)'
    BY <1>1 DEF SamePublic, Released
  <2>2. CutTags \subseteq vTags
    BY TrainFields
  <2> QED
    BY <1>4, <1>5, <1>6, <2>1, <2>2
<1>12. BreakingIsMajor'
  <2> SUFFICES ASSUME vTags' = CutTags', NEW a \in vTags', NEW u \in vTags',
                      NEW k \in (a.src + 1)..u.src, mainline[k] = "breaking"
               PROVE  a.v[1] < u.v[1]
    BY DEF BreakingIsMajor
  <2>1. CASE t \in vTags
    <3>1. Older(t.v, t.v)
      BY <1>1, <2>1
    <3> QED
      BY <1>6, <3>1
  <2>2. CASE t \notin vTags
    <3>1. vTags = CutTags
      BY <1>4, <2>2, TrainFields
    <3>2. a \in CutTags \cup {t} /\ u \in CutTags \cup {t}
      BY <1>4
    <3>3. CASE a \in CutTags /\ u \in CutTags
      BY <3>1, <3>3 DEF TrainInv, TrainInOrder, BreakingIsMajor
    <3>4. CASE a \in CutTags /\ u = t
      BY <1>1, <3>1, <3>4
    <3>5. CASE a = t
      <4>1. a.src \in Nat /\ u.src \in Nat /\ u.src <= a.src
        BY <1>2, <1>6, <1>8, <3>2, <3>5, TrainFields
      <4>2. k \notin (a.src + 1)..u.src
        BY <4>1, SMT
      <4> QED
        BY <4>2
    <3> QED
      BY <3>2, <3>3, <3>4, <3>5
  <2> QED
    BY <2>1, <2>2
<1> QED
  BY <1>3, <1>7, <1>9, <1>10, <1>11, <1>12 DEF TrainInOrder

LEMMA PushKeeps == ASSUME TrainInv, PushTag PROVE TrainInv'
<1> DEFINE t == [v |-> cut.planned, pkg |-> cut.planned, src |-> cut.head]
<1>1. UNCHANGED mainline /\ SamePublic /\ cut.pc = "push" /\ cut.planned # NoVersion
  BY DEF PushTag, TrainInv, CutKnows
<1>2. CASE EndCut /\ Quiet /\ UNCHANGED vTags
  BY <1>1, <1>2, CutStops DEF SameTrain
<1>3. t \in VersionTag /\ t.v = cut.planned /\ t.pkg = cut.planned /\ t.src = cut.head
  BY TrainFields DEF VersionTag
<1> HIDE DEF t
<1>4. ASSUME ~ \E u \in vTags : u.v = cut.planned,
             NEW pushed \in BOOLEAN, NEW ok \in BOOLEAN, NEW starts \in BOOLEAN, ok => pushed,
             vTags' = IF pushed THEN vTags \cup {t} ELSE vTags,
             IF pushed /\ starts THEN Enqueue(t) ELSE Quiet,
             cut' = IF ok THEN [cut EXCEPT !.pc = "start", !.started = starts] ELSE IdleCut
      PROVE  TrainInv'
  <2>1. Quiet \/ \E u \in VersionTag : Enqueue(u)
    BY <1>3, <1>4
  <2>2. CASE pushed = FALSE
    <3>1. cut' = IdleCut /\ vTags' = vTags
      BY <1>4, <2>2
    <3> QED
      BY <1>1, <2>1, <3>1, CutStops DEF SameTrain, EndCut
  <2>3. CASE pushed = TRUE
    <3>1. vTags' = vTags \cup {t}
      BY <1>4, <2>3
    <3>2. Ahead
      BY <1>1, <1>4 DEF TrainInv, CutKnows
    <3>3. TrainTypes' /\ TrainInOrder'
      BY <1>1, <1>3, <3>1, <3>2, PushedTag
    <3>4. CASE cut' = IdleCut
      <4>1. cut' \in CutRun /\ CutKnows'
        BY <1>1, <3>4, CutEnds, TrainFields
      <4> QED
        BY <1>1, <2>1, <3>3, <4>1, Queues DEF TrainInv, TrainRuns
    <3>5. CASE cut' = [cut EXCEPT !.pc = "start", !.started = starts]
      <4>1. cut' \in CutRun /\ cut'.pc = "start" /\ cut'.planned = cut.planned /\ cut'.head = cut.head
        BY <3>5 DEF TrainInv, TrainRuns, CutRun
      <4>2. CutKnows'
        BY <1>1, <1>3, <3>1, <4>1, TrainFields DEF CutKnows
      <4> QED
        BY <1>1, <2>1, <3>3, <4>1, <4>2, Queues DEF TrainInv, TrainRuns
    <3> QED
      BY <1>4, <3>4, <3>5
  <2> QED
    BY <2>2, <2>3
<1>5. CASE cut.local # cut.planned \/ \E u \in vTags : u.v = cut.planned
  BY <1>2, <1>5 DEF PushTag
<1>6. CASE ~ (cut.local # cut.planned \/ \E u \in vTags : u.v = cut.planned)
  <2>1. PICK pushed \in BOOLEAN, ok \in BOOLEAN, starts \in BOOLEAN :
            /\ ok => pushed
            /\ vTags' = IF pushed THEN vTags \cup {t} ELSE vTags
            /\ IF pushed /\ starts THEN Enqueue(t) ELSE Quiet
            /\ cut' = IF ok THEN [cut EXCEPT !.pc = "start", !.started = starts] ELSE IdleCut
    BY <1>6 DEF PushTag, t
  <2> QED
    BY <1>4, <1>6, <2>1
<1> QED
  BY <1>5, <1>6

\* A tag by hand is none of the train's, and of main's last commit.
LEMMA TaggedByHand ==
    ASSUME TrainInv, UNCHANGED <<mainline, cut>>, SamePublic, Quiet,
           NEW t \in VersionTag, t.pkg = NoVersion, t.v # NoVersion, t.src = Len(mainline),
           t \in vTags', vTags' \subseteq vTags \cup {t}, \A u \in vTags : u.v = t.v \/ u \in vTags', IsFiniteSet(vTags'),
           \E n \in vTags' : NewestIn(vTags', n),
           Ahead => t.v = cut.planned \/ Older(t.v, cut.planned)
    PROVE  TrainInv'
<1>1. TrainTypes'
  <2>1. t.src <= Len(mainline)
    BY TrainFields, SMT
  <2> QED
    BY <2>1 DEF TrainInv, TrainTypes
<1>2. CutTags' \subseteq CutTags /\ t \notin CutTags' /\ vTags' # CutTags'
  BY DEF CutTags
<1>3. CutTags' \subseteq CutTags /\ \A u \in CutTags' : u \in CutTags /\ u.src <= t.src
  BY <1>2, TrainFields
<1>4. \A a \in vTags', u \in CutTags' : Older(a.v, u.v) \/ u.src <= a.src
  BY <1>3 DEF TrainInv, TrainInOrder
<1>5. VersionsFollowCommits' /\ BreakingIsMajor'
  BY <1>2, <1>3 DEF TrainInv, TrainInOrder, VersionsFollowCommits, BreakingIsMajor
<1>6. StaysReleased
  BY Queues
<1>7. \A a, u \in CutTags' : Released(a.v)' \/ ~ Older(a.v, u.v)
  BY <1>3, <1>6, TrainFields DEF TrainInv, TrainInOrder, StaysReleased
<1>8. TrainInOrder'
  BY <1>4, <1>5, <1>7 DEF TrainInOrder
<1>9. CutKnows'
  <2>1. \A v : (\E u \in vTags : u.v = v) => \E u \in vTags' : u.v = v
    OBVIOUS
  <2>2. Ahead => Ahead' \/ \E u \in vTags' : u.v = cut.planned
    <3> SUFFICES ASSUME Ahead, ~ \E u \in vTags' : u.v = cut.planned PROVE Ahead'
      OBVIOUS
    <3>1. Older(t.v, cut.planned)
      OBVIOUS
    <3> QED
      BY <1>2, <1>3, <1>6, <3>1, TrainFields DEF Ahead, StaysReleased
  <2> QED
    BY <2>1, <2>2 DEF TrainInv, CutKnows
<1> QED
  BY <1>1, <1>8, <1>9, Queues DEF TrainInv, TrainRuns

LEMMA BurnKeeps == ASSUME TrainInv, BurnTag PROVE TrainInv'
<1> DEFINE n == Newest(vTags)
           v == NextVersion(n.v, 1)
           t == [v |-> v, pkg |-> NoVersion, src |-> Len(mainline)]
<1>1. UNCHANGED <<mainline, cut>> /\ SamePublic /\ Quiet /\ vTags' = vTags \cup {t}
  BY DEF BurnTag
<1>2. NewestIn(vTags, n)
  BY NewestIsIn DEF TrainInv, TrainInOrder
<1> HIDE DEF n
<1>3. n \in vTags /\ n.v \in Versions
  BY <1>2, TrainFields DEF NewestIn
<1>4. 1 \in 1..3
  BY SMT
<1>5. v = ApplyBump(n.v, 1) /\ \A u \in vTags : Older(u.v, v)
  BY <1>2, <1>4, NextIsBump DEF TrainInv
<1> HIDE DEF v
<1>6. v \in Versions /\ v # NoVersion
  BY <1>3, <1>4, <1>5, BumpIsNewer
<1>7. v = <<n.v[1], n.v[2], n.v[3] + 1>>
  BY <1>5 DEF ApplyBump
<1>8. t \in VersionTag /\ t.v = v /\ t.pkg = NoVersion /\ t.src = Len(mainline)
  BY <1>6, IdleTypes, TrainFields DEF VersionTag
<1> HIDE DEF t
<1>9. IsFiniteSet(vTags')
  BY <1>1, FS_AddElement DEF TrainInv, TrainTypes
<1>10. NewestIn(vTags', t)
  <2>1. \A u \in vTags : ~ Older(v, u.v)
    BY <1>5, <1>6, OlderIsOrder, TrainFields
  <2>2. ~ Older(v, v)
    BY <1>6, OlderIsOrder
  <2> QED
    BY <1>1, <1>8, <2>1, <2>2 DEF NewestIn
<1>11. Ahead => v = cut.planned \/ Older(v, cut.planned)
  <2> SUFFICES ASSUME Ahead PROVE v = cut.planned \/ Older(v, cut.planned)
    OBVIOUS
  <2> DEFINE w == cut.planned
  <2>1. Older(n.v, w) /\ w \in Versions
    BY <1>3, TrainFields DEF Ahead
  <2>2. ~ Older(w, v)
    <3> HIDE DEF w
    <3>1. n.v[1] \in Nat /\ n.v[2] \in Nat /\ n.v[3] \in Nat /\ w[1] \in Nat /\ w[2] \in Nat /\ w[3] \in Nat
      BY <1>3, <2>1 DEF Versions
    <3>2. v[1] = n.v[1] /\ v[2] = n.v[2] /\ v[3] = n.v[3] + 1
      BY <1>7
    <3> QED
      BY <2>1, <3>1, <3>2, SMT DEF Older
  <2> QED
    BY <1>6, <2>1, <2>2, OlderIsOrder
<1> QED
  <2>1. \E u \in vTags' : NewestIn(vTags', u)
    BY <1>10 DEF NewestIn
  <2>3. Ahead => t.v = cut.planned \/ Older(t.v, cut.planned)
    BY <1>8, <1>11
  <2>4. t.v # NoVersion
    BY <1>6, <1>8
  <2> QED
    BY <1>1, <1>8, <1>9, <2>1, <2>3, <2>4, TaggedByHand

LEMMA MoveVersionKeeps == ASSUME TrainInv, NEW t \in vTags, MoveVersionTag(t) PROVE TrainInv'
<1> DEFINE m == [t EXCEPT !.src = Len(mainline), !.pkg = NoVersion]
<1>1. UNCHANGED <<mainline, cut>> /\ SamePublic /\ Quiet /\ vTags' = (vTags \ {t}) \cup {m}
  BY DEF MoveVersionTag
<1>2. t \in VersionTag /\ t.v # NoVersion
  BY TrainFields
<1>3. m \in VersionTag /\ m.v = t.v /\ m.pkg = NoVersion /\ m.src = Len(mainline)
  BY <1>2, IdleTypes, TrainFields DEF VersionTag
<1> HIDE DEF m
<1>4. IsFiniteSet(vTags')
  BY <1>1, FS_AddElement, FS_RemoveElement DEF TrainInv, TrainTypes
<1>5. \E n \in vTags' : NewestIn(vTags', n)
  <2>1. PICK n \in vTags : NewestIn(vTags, n)
    BY DEF TrainInv, TrainInOrder
  <2>2. \A u \in vTags' : ~ Older(n.v, u.v)
    BY <1>1, <1>3, <2>1 DEF NewestIn
  <2>3. \E k \in vTags' : k.v = n.v
    BY <1>1, <1>3
  <2> QED
    BY <2>2, <2>3 DEF NewestIn
<1>6. Ahead => Older(m.v, cut.planned)
  BY <1>3 DEF Ahead
<1> QED
  BY <1>1, <1>2, <1>3, <1>4, <1>5, <1>6, TaggedByHand

LEMMA DispatchTagKeeps == ASSUME TrainInv, NEW t \in vTags, DispatchRelease(t) PROVE TrainInv'
<1>1. SameTrain /\ SamePublic /\ UNCHANGED cut /\ Enqueue(t) /\ t \in VersionTag
  BY TrainFields DEF DispatchRelease
<1>2. StaysReleased
  BY <1>1, Queues
<1>3. cut' \in CutRun /\ CutKnows'
  BY <1>1, <1>2, CutStands DEF SameTrain, TrainInv, TrainRuns
<1> QED
  BY <1>1, <1>3, CutMoves

\* A step of a release run leaves the tags, the commits and the cut.
LEMMA RunMoves ==
    ASSUME TrainInv, SameTrain, UNCHANGED cut, StaysReleased, majorAliases' \subseteq VersionTag,
           release' \in ReleaseRun, queued' \in VersionTag, RunPublished'
    PROVE  TrainInv'
BY TrainStands, CutStands DEF SameTrain, TrainInv, TrainRuns

LEMMA PublicStays ==
    ASSUME TrainInv, SamePublic
    PROVE  StaysReleased /\ AliasesPublished' /\ majorAliases' \subseteq VersionTag
BY DEF SamePublic, StaysReleased, Released, TrainInv, RunPublished, AliasesPublished, TrainRuns

LEMMA NextReleaseKeeps == ASSUME TrainInv, NextRelease PROVE TrainInv'
<1>1. /\ SameTrain /\ SamePublic /\ UNCHANGED cut /\ queued' = NoTag
      /\ release' = [IdleRelease EXCEPT !.pc = "verify", !.tag = queued]
  BY DEF NextRelease
<1>2. release' \in ReleaseRun /\ release'.pc = "verify" /\ release'.onNpm = FALSE
  BY <1>1, IdleTypes DEF IdleRelease, ReleaseRun, Tarballs, TrainInv, TrainRuns
<1>3. RunPublished'
  BY <1>1, <1>2, PublicStays DEF RunPublished, OneTarball
<1> QED
  BY <1>1, <1>2, <1>3, IdleTypes, PublicStays, RunMoves

LEMMA RunEnds ==
    ASSUME TrainInv, EndRelease, AliasesPublished'
    PROVE  release' \in ReleaseRun /\ RunPublished'
BY IdleTypes DEF EndRelease, RunPublished, OneTarball

LEMMA VerifyKeeps == ASSUME TrainInv, VerifyPackage PROVE TrainInv'
<1>1. SameTrain /\ SamePublic /\ UNCHANGED <<cut, queued>> /\ release.pc = "verify"
  BY DEF VerifyPackage
<1>2. CASE EndRelease
  BY <1>1, <1>2, PublicStays, RunEnds, RunMoves DEF TrainInv, TrainRuns
<1>3. ASSUME NEW tgz \in Tarballs, release.tag.pkg = release.tag.v,
             release' = [release EXCEPT !.pc = "publish", !.tgz = tgz]
      PROVE  TrainInv'
  <2>1. /\ release' \in ReleaseRun /\ release'.pc = "publish" /\ release'.tag = release.tag
        /\ release'.onNpm = release.onNpm
    BY <1>3 DEF TrainInv, TrainRuns, ReleaseRun
  <2>2. release'.onNpm = FALSE
    BY <1>1, <2>1 DEF TrainInv, RunPublished
  <2>3. RunPublished'
    BY <1>1, <1>3, <2>1, <2>2, PublicStays DEF RunPublished, OneTarball
  <2> QED
    BY <1>1, <2>1, <2>3, PublicStays, RunMoves DEF TrainInv, TrainRuns
<1> QED
  BY <1>2, <1>3 DEF VerifyPackage, Tarballs

LEMMA ReleaseToFields ==
    ASSUME TrainInv, NEW pc \in {"idle", "verify", "publish", "npm", "e2e", "alias"}, ReleaseTo(pc)
    PROVE  /\ release' \in ReleaseRun /\ release'.pc = pc /\ release'.tag = release.tag
           /\ release'.tgz = release.tgz /\ release'.onNpm = release.onNpm
BY DEF TrainInv, TrainRuns, ReleaseRun, ReleaseTo

LEMMA PublishKeepsTrain == ASSUME TrainInv, PublishGitHub PROVE TrainInv' /\ PublicForGood
<1>1. /\ SameTrain /\ UNCHANGED <<cut, queued, npm, majorAliases>> /\ release.pc = "publish"
      /\ release.tag.pkg = release.tag.v /\ release.onNpm = FALSE
  BY DEF PublishGitHub, TrainInv, RunPublished
<1>2. CASE EndRelease /\ UNCHANGED ghReleases
  <2>1. SamePublic
    BY <1>1, <1>2 DEF SamePublic
  <2> QED
    BY <1>1, <1>2, <2>1, PublicStays, RunEnds, RunMoves DEF TrainInv, TrainRuns, PublicForGood
<1>3. CASE /\ ghReleases' = {r \in ghReleases : r[1] # release.tag.v} \cup {<<release.tag.v, release.tgz>>}
           /\ ReleaseTo("npm")
  <2>1. \A v : Released(v) => Released(v)'
    <3>1. \A r \in ghReleases : \E q \in ghReleases' : q[1] = r[1]
      <4> SUFFICES ASSUME NEW r \in ghReleases PROVE \E q \in ghReleases' : q[1] = r[1]
        OBVIOUS
      <4> DEFINE p == <<release.tag.v, release.tgz>>
      <4>0. p[1] = release.tag.v
        OBVIOUS
      <4> HIDE DEF p
      <4>1. CASE r[1] = release.tag.v
        <5>1. p \in ghReleases'
          BY <1>3 DEF p
        <5> QED
          BY <4>0, <4>1, <5>1
      <4>2. CASE r[1] # release.tag.v
        BY <1>3, <4>2
      <4> QED
        BY <4>1, <4>2
    <3> QED
      BY <3>1 DEF Released
  <2>2. (\E r \in ghReleases' : r[1] = release.tag.v) /\ TarballOf(release.tag.v, ghReleases') = {release.tgz}
    <3> DEFINE p == <<release.tag.v, release.tgz>>
    <3>1. p[1] = release.tag.v /\ p[2] = release.tgz
      OBVIOUS
    <3> HIDE DEF p
    <3>2. p \in ghReleases' /\ \A r \in ghReleases' : r[1] = release.tag.v => r = p
      BY <1>3 DEF p
    <3> QED
      BY <3>1, <3>2 DEF TarballOf
  <2>3. PublicForGood
    <3>1. \A r \in ghReleases : Released(r[1])
      BY DEF Released
    <3> QED
      BY <1>1, <2>1, <3>1 DEF PublicForGood, Released
  <2>4. AliasesPublished'
    BY <1>1, <2>1 DEF TrainInv, RunPublished, AliasesPublished
  <2>5. /\ release' \in ReleaseRun /\ release'.pc = "npm" /\ release'.tag = release.tag
        /\ release'.tgz = release.tgz /\ release'.onNpm = FALSE
    BY <1>1, <1>3, ReleaseToFields
  <2>6. Released(release.tag.v)' /\ TarballOf(release'.tag.v, ghReleases') = {release'.tgz}
    BY <2>2, <2>5 DEF Released
  <2>7. RunPublished'
    BY <1>1, <2>4, <2>5, <2>6 DEF RunPublished, OneTarball
  <2> QED
    BY <1>1, <2>1, <2>3, <2>5, <2>7, RunMoves DEF TrainInv, TrainRuns, StaysReleased
<1> QED
  BY <1>2, <1>3 DEF PublishGitHub

LEMMA NpmKeepsTrain == ASSUME TrainInv, PublishNpm PROVE TrainInv' /\ PublicForGood
<1> DEFINE v == release.tag.v
<1>1. /\ SameTrain /\ UNCHANGED <<cut, queued, ghReleases, majorAliases>> /\ release.pc = "npm"
      /\ release.tag.pkg = release.tag.v /\ release.onNpm = FALSE /\ Released(v)
      /\ TarballOf(v, ghReleases) = {release.tgz}
  BY DEF PublishNpm, TrainInv, RunPublished
<1>2. /\ npm' = npm \/ npm' = npm \cup {<<v, release.tgz>>}
      /\ \/ ReleaseTo("e2e")
         \/ TarballOf(v, npm') = {release.tgz} /\ release' = [release EXCEPT !.pc = "e2e", !.onNpm = TRUE]
         \/ EndRelease
  BY DEF PublishNpm
<1>3. PublicForGood /\ StaysReleased /\ AliasesPublished' /\ majorAliases' \subseteq VersionTag
  BY <1>1, <1>2 DEF PublicForGood, StaysReleased, Released, TrainInv, RunPublished, AliasesPublished, TrainRuns
<1>4. (\E r \in ghReleases' : r[1] = v) /\ TarballOf(v, ghReleases') = {release.tgz}
  BY <1>1 DEF Released
<1>5. CASE EndRelease
  BY <1>1, <1>3, <1>5, RunEnds, RunMoves DEF TrainInv, TrainRuns
<1>6. CASE ReleaseTo("e2e")
  <2>1. /\ release' \in ReleaseRun /\ release'.pc = "e2e" /\ release'.tag = release.tag
        /\ release'.onNpm = FALSE
    BY <1>1, <1>6, ReleaseToFields
  <2>2. RunPublished'
    BY <1>1, <1>3, <1>4, <2>1 DEF RunPublished, OneTarball, Released
  <2> QED
    BY <1>1, <1>3, <2>1, <2>2, RunMoves DEF TrainInv, TrainRuns
<1>7. CASE TarballOf(v, npm') = {release.tgz} /\ release' = [release EXCEPT !.pc = "e2e", !.onNpm = TRUE]
  <2>1. /\ release' \in ReleaseRun /\ release'.pc = "e2e" /\ release'.tag = release.tag
        /\ release'.tgz = release.tgz
    BY <1>7 DEF TrainInv, TrainRuns, ReleaseRun
  <2>2. /\ TarballOf(release'.tag.v, npm') = {release'.tgz} /\ TarballOf(release'.tag.v, ghReleases') = {release'.tgz}
        /\ Released(release.tag.v)' /\ release'.tag.pkg = release'.tag.v
    BY <1>1, <1>4, <1>7, <2>1 DEF Released
  <2>3. RunPublished'
    BY <1>3, <2>1, <2>2 DEF RunPublished, OneTarball
  <2> QED
    BY <1>1, <1>3, <2>1, <2>3, RunMoves DEF TrainInv, TrainRuns
<1> QED
  BY <1>2, <1>5, <1>6, <1>7

LEMMA E2eKeepsTrain == ASSUME TrainInv, VerifyReleaseE2e PROVE TrainInv'
<1>1. SameTrain /\ SamePublic /\ UNCHANGED <<cut, queued>> /\ release.pc = "e2e"
  BY DEF VerifyReleaseE2e
<1>2. CASE EndRelease
  BY <1>1, <1>2, PublicStays, RunEnds, RunMoves DEF TrainInv, TrainRuns
<1>3. CASE ReleaseTo("alias")
  <2>1. /\ release' \in ReleaseRun /\ release'.pc = "alias" /\ release'.tag = release.tag
        /\ release'.tgz = release.tgz /\ release'.onNpm = release.onNpm
    BY <1>3, ReleaseToFields
  <2>2. RunPublished'
    <3>1. Released(release.tag.v)'
      BY <1>1, <2>1 DEF TrainInv, RunPublished, Released, SamePublic
    <3>2. OneTarball'
      BY <1>1, <2>1 DEF TrainInv, RunPublished, OneTarball, SamePublic
    <3> QED
      BY <1>1, <2>1, <3>1, <3>2, PublicStays DEF TrainInv, RunPublished
  <2> QED
    BY <1>1, <2>1, <2>2, PublicStays, RunMoves DEF TrainInv, TrainRuns
<1> QED
  BY <1>2, <1>3 DEF VerifyReleaseE2e

LEMMA AliasKeepsTrain == ASSUME TrainInv, AdvanceMajorAlias PROVE TrainInv' /\ AliasesAdvance /\ PublicForGood
<1> DEFINE v == release.tag.v
<1>1. /\ SameTrain /\ UNCHANGED <<cut, queued, ghReleases, npm>> /\ EndRelease /\ release.pc = "alias"
      /\ release.tag.pkg = release.tag.v /\ Released(v) /\ release.tag \in VersionTag
  BY TrainFields DEF AdvanceMajorAlias, TrainInv, RunPublished
<1>2. \/ UNCHANGED majorAliases
      \/ /\ \A t \in AliasOf(v) : ~Older(v, t.v)
         /\ majorAliases' = (majorAliases \ AliasOf(v)) \cup {release.tag}
  BY DEF AdvanceMajorAlias
<1>3. \A t \in majorAliases : t.v \in Versions /\ ~ Older(t.v, t.v) /\ Released(t.v) /\ t.pkg = t.v
  BY OlderIsOrder DEF TrainInv, TrainRuns, VersionTag, RunPublished, AliasesPublished
<1>4. AliasesAdvance
  <2>1. CASE UNCHANGED majorAliases
    BY <1>3, <2>1 DEF AliasesAdvance
  <2>2. CASE /\ \A t \in AliasOf(v) : ~Older(v, t.v)
             /\ majorAliases' = (majorAliases \ AliasOf(v)) \cup {release.tag}
    <3> SUFFICES ASSUME NEW t \in majorAliases PROVE \E u \in majorAliases' : u.v[1] = t.v[1] /\ ~Older(u.v, t.v)
      BY DEF AliasesAdvance
    <3>1. CASE t \in AliasOf(v)
      BY <2>2, <3>1 DEF AliasOf
    <3>2. CASE t \notin AliasOf(v)
      BY <1>3, <2>2, <3>2
    <3> QED
      BY <3>1, <3>2
  <2> QED
    BY <1>2, <2>1, <2>2
<1>5. PublicForGood /\ StaysReleased
  BY <1>1 DEF PublicForGood, StaysReleased, Released
<1>6. AliasesPublished' /\ majorAliases' \subseteq VersionTag
  <2>1. \A t \in majorAliases' : t \in majorAliases \/ t = release.tag
    BY <1>2
  <2>2. \A w : Released(w)' <=> Released(w)
    BY <1>1 DEF Released
  <2> QED
    BY <1>1, <1>3, <2>1, <2>2 DEF AliasesPublished, TrainInv, TrainRuns
<1> QED
  BY <1>1, <1>4, <1>5, <1>6, RunEnds, RunMoves DEF TrainInv, TrainRuns

LEMMA TrainStarts == ReleaseInit => TrainInv
<1> SUFFICES ASSUME ReleaseInit PROVE TrainInv
  OBVIOUS
<1> DEFINE first == [v |-> FirstVersion, pkg |-> FirstVersion, src |-> 1]
<1>1. /\ mainline = <<"fix">> /\ vTags = {first} /\ majorAliases = {first}
      /\ ghReleases = {<<FirstVersion, "x">>}
      /\ cut = IdleCut /\ release = IdleRelease /\ queued = NoTag
  BY DEF ReleaseInit
<1>2. FirstVersion \in Versions /\ FirstVersion # NoVersion
  BY DEF FirstVersion, NoVersion, Versions
<1>3. first \in VersionTag /\ first.v = FirstVersion /\ first.pkg = FirstVersion /\ first.src = 1
  BY <1>2 DEF VersionTag
<1> HIDE DEF first
<1>4. mainline \in Seq(Kinds) /\ Len(mainline) = 1
  <2>1. "fix" \in Kinds
    BY DEF Kinds, BumpKinds
  <2> QED
    BY <1>1, <2>1
<1>5. TrainTypes
  <2>1. IsFiniteSet({first})
    BY FS_Singleton
  <2>2. 1 <= 1
    BY SMT
  <2> QED
    BY <1>1, <1>2, <1>3, <1>4, <2>1, <2>2 DEF TrainTypes
<1>6. TrainRuns
  BY <1>1, <1>3, IdleTypes DEF TrainRuns
<1>7. CutTags = {first}
  BY <1>1, <1>3 DEF CutTags
<1>8. Released(FirstVersion)
  BY <1>1 DEF Released
<1>9. ~ Older(FirstVersion, FirstVersion) /\ 1 <= 1 /\ ~ (1 < 1) /\ 1 \notin 2..1
  BY <1>2, OlderIsOrder, SMT
<1>10. BreakingIsMajor
  <2>1. (1 + 1)..1 = {}
    BY SMT
  <2> QED
    BY <1>1, <1>3, <2>1 DEF BreakingIsMajor
<1>11. TrainInOrder
  BY <1>1, <1>3, <1>7, <1>8, <1>9, <1>10 DEF TrainInOrder, NewestIn, VersionsFollowCommits
<1>12. CutKnows
  BY <1>1, <1>4, IdleTypes DEF CutKnows
<1>13. RunPublished
  BY <1>1, <1>3, <1>8, IdleTypes DEF RunPublished, OneTarball, AliasesPublished
<1> QED
  BY <1>5, <1>6, <1>11, <1>12, <1>13 DEF TrainInv

LEMMA TrainKeeps ==
    ASSUME TrainInv, [ReleaseNext]_releaseVars
    PROVE  TrainInv' /\ AliasesAdvance /\ PublicForGood
<1>1. ASSUME TrainInv', SamePublic PROVE TrainInv' /\ AliasesAdvance /\ PublicForGood
  <2>1. \A t \in majorAliases : t.v \in Versions
    BY DEF TrainInv, TrainRuns, VersionTag
  <2> QED
    BY <1>1, <2>1, OlderIsOrder DEF AliasesAdvance, PublicForGood, SamePublic
<1>2. CASE UNCHANGED releaseVars
  <2>1. SameTrain /\ SamePublic /\ Quiet /\ UNCHANGED cut
    BY <1>2 DEF releaseVars, SameTrain, SamePublic, Quiet
  <2>2. StaysReleased
    BY <2>1, Queues
  <2>3. cut' \in CutRun /\ CutKnows'
    BY <2>1, <2>2, CutStands DEF SameTrain, TrainInv, TrainRuns
  <2> QED
    BY <1>1, <2>1, <2>3, CutMoves
<1>3. CASE \E kind \in DOMAIN BumpKinds : MergeToMain(kind)
  <2>1. PICK kind \in Kinds : MergeToMain(kind)
    BY <1>3 DEF Kinds
  <2> QED
    BY <1>1, <2>1, MergeKeeps DEF MergeToMain
<1>4. CASE PlanRelease \/ ReconcilePrior \/ ExecuteRelease \/ PushTag \/ StartRelease \/ BurnTag
  <2>1. SamePublic
    BY <1>4 DEF PlanRelease, ReconcilePrior, ExecuteRelease, PushTag, StartRelease, BurnTag
  <2> QED
    BY <1>1, <1>4, <2>1, PlanKeeps, ReconcileKeeps, ExecuteKeeps, PushKeeps, StartKeeps, BurnKeeps
<1>5. ASSUME NEW t \in vTags, MoveVersionTag(t) \/ DispatchRelease(t) PROVE TrainInv' /\ AliasesAdvance /\ PublicForGood
  <2>1. SamePublic
    BY <1>5 DEF MoveVersionTag, DispatchRelease
  <2> QED
    BY <1>1, <1>5, <2>1, MoveVersionKeeps, DispatchTagKeeps
<1>6. CASE NextRelease \/ VerifyPackage \/ VerifyReleaseE2e
  <2>1. SamePublic
    BY <1>6 DEF NextRelease, VerifyPackage, VerifyReleaseE2e
  <2> QED
    BY <1>1, <1>6, <2>1, NextReleaseKeeps, VerifyKeeps, E2eKeepsTrain
<1>7. CASE PublishGitHub \/ PublishNpm
  <2>1. UNCHANGED majorAliases
    BY <1>7 DEF PublishGitHub, PublishNpm
  <2>2. \A t \in majorAliases : t.v \in Versions
    BY DEF TrainInv, TrainRuns, VersionTag
  <2>3. AliasesAdvance
    BY <2>1, <2>2, OlderIsOrder DEF AliasesAdvance
  <2> QED
    BY <1>7, <2>3, PublishKeepsTrain, NpmKeepsTrain
<1> QED
  BY <1>2, <1>3, <1>4, <1>5, <1>6, <1>7, AliasKeepsTrain DEF ReleaseNext

\* At most one tag of the train waits for its release.
LEMMA OneWaits == ASSUME TrainInv PROVE OneUnpublished
<1> DEFINE waiting == {t \in CutTags : ~ Released(t.v)}
<1>1. ASSUME NEW t \in waiting, NEW u \in waiting PROVE t = u
  <2>1. /\ t \in CutTags /\ u \in CutTags /\ ~ Older(t.v, u.v) /\ ~ Older(u.v, t.v)
    BY DEF TrainInv, TrainInOrder
  <2>2. t.v = u.v
    BY <2>1, OlderIsOrder, TrainFields
  <2>3. ~ (t.src < u.src) /\ ~ (u.src < t.src)
    BY <2>1 DEF TrainInv, TrainInOrder, VersionsFollowCommits
  <2>4. t.src = u.src
    <3>1. t.src \in Nat /\ u.src \in Nat
      BY <2>1, TrainFields
    <3> QED
      BY <2>3, <3>1, SMT
  <2>5. t.pkg = u.pkg /\ t \in VersionTag /\ u \in VersionTag
    BY <2>1, <2>2, TrainFields DEF CutTags
  <2> QED
    BY <2>2, <2>4, <2>5 DEF VersionTag
<1>2. CASE waiting = {}
  <2>1. Cardinality(waiting) = 0
    BY <1>2, FS_EmptySet
  <2> QED
    BY <2>1 DEF OneUnpublished
<1>3. CASE waiting # {}
  <2>1. PICK t : waiting = {t}
    BY <1>1, <1>3
  <2>2. Cardinality(waiting) = 1
    BY <2>1, FS_Singleton
  <2> QED
    BY <2>2 DEF OneUnpublished
<1> QED
  BY <1>2, <1>3

\* The release train (auto-release.yml, release.yml and their scripts) publishes in
\* order, once, and what it verified, whatever is merged, tagged, moved or dispatched
\* by hand and whichever calls fail: for any number of commits and faults.
THEOREM ReleaseTrainSafe == ReleaseSpec => ReleaseCutIsSafe
<1>1. TrainInv => OneUnpublished /\ VersionsFollowCommits /\ BreakingIsMajor /\ OneTarball /\ AliasesPublished
  BY OneWaits DEF TrainInv, TrainInOrder, RunPublished
<1>2. TrainInv /\ [ReleaseNext]_releaseVars => TrainInv' /\ AliasesAdvance /\ PublicForGood
  BY TrainKeeps
<1>3. TrainInv /\ [ReleaseNext]_releaseVars =>
        [/\ (OneUnpublished /\ VersionsFollowCommits /\ BreakingIsMajor /\ OneTarball /\ AliasesPublished)'
         /\ AliasesAdvance /\ PublicForGood]_releaseVars
  BY <1>1, <1>2, PTL
<1> QED
  BY <1>2, <1>3, TrainStarts, PTL DEF ReleaseSpec, ReleaseCutIsSafe

=============================================================================
