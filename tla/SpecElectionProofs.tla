------------------------- MODULE SpecElectionProofs -------------------------
(***************************************************************************)
(* Proofs about SpecElection, for every number of runs, every set of ids   *)
(* and every value of the polling constants; and what two runs that upload *)
(* under one name agree on.  The polling makes agreement a question of     *)
(* time, so those theorems state the timing they need: the ids, the order  *)
(* in which Spec Hub gives them out, its lag and the waits are arbitrary.  *)
(***************************************************************************)
EXTENDS SpecElection, FiniteSetTheorems, WellFoundedInduction, TLAPS

-----------------------------------------------------------------------------
(* Least elements.  The election compares ids with Min, so the facts below *)
(* are what it means for the lowest id to win.                             *)

\* A non-empty set of naturals has a least element, and Min denotes it.
LEMMA MinInNat ==
  ASSUME NEW S \in SUBSET Nat, S # {}
  PROVE  Min(S) \in S /\ \A y \in S : Min(S) <= y
<1> DEFINE R == OpToRel(<, Nat)
<1>1. IsWellFoundedOn(R, Nat)
  BY NatLessThanWellFounded
<1>2. \A x, y \in Nat : <<y, x>> \in R <=> y < x
  BY DEF OpToRel
<1> HIDE DEF R
<1>3. PICK x \in S : \A y \in S : ~ (<<y, x>> \in R)
  BY <1>1, WFMin
<1>4. \A y \in S : ~ (y < x)
  BY <1>2, <1>3
<1>5. \A y \in S : x <= y
  BY <1>4
<1> QED BY <1>5 DEF Min

\* A set with one or more elements by its cardinality is not empty.
LEMMA CountedNonEmpty ==
  ASSUME NEW S, Cardinality(S) = 1 \/ Cardinality(S) > 1
  PROVE  S # {}
BY FS_EmptySet

\* A poll that is not empty has a lowest id, and it is in the poll.
LEMMA LowestListed ==
  ASSUME TypeOK, Cardinality(listed) = 1 \/ Cardinality(listed) > 1
  PROVE  /\ Min(listed) \in listed /\ Min(listed) \in Ids
         /\ \A i \in listed : Min(listed) <= i
<1>1. listed \subseteq Ids /\ listed \subseteq Nat
  BY IdsAssumption DEF TypeOK, Ever
<1>2. listed # {}
  BY CountedNonEmpty
<1> QED BY <1>1, <1>2, MinInNat

-----------------------------------------------------------------------------
(* Type correctness *)

\* The server's part of TypeOK, and a run's.
ServerOK ==
    /\ listed \subseteq alive /\ alive \subseteq Ever
    /\ creator \in [Ids -> Runners \cup {None}]
    /\ late \subseteq Runners
    /\ faults \in 0..MaxFaults
    /\ rolledBack \subseteq Ids
RunsOK == run \in [Runners -> RunState]

\* TypeOK is the two parts together.
LEMMA TypeParts == TypeOK <=> ServerOK /\ RunsOK
BY DEF TypeOK, ServerOK, RunsOK

\* A create allocates one fresh id and leaves the creators of the others.
LEMMA CreateOK ==
  ASSUME TypeOK, NEW r \in Runners, NEW i \in Ids, Create(r, i)
  PROVE  /\ listed' \subseteq alive' /\ alive' \subseteq Ever'
         /\ creator' \in [Ids -> Runners \cup {None}]
         /\ creator'[i] = r /\ i \notin Ever
         /\ \A j \in Ids \ {i} : creator'[j] = creator[j]
         /\ Ever' = Ever \cup {i} /\ alive' = alive \cup {i}
BY IdsAssumption DEF TypeOK, Create, Ever

\* A step of the form Goto changes one control point.
LEMMA GotoOK ==
  ASSUME RunsOK, NEW r \in Runners, NEW stage \in Stages, Goto(r, stage)
  PROVE  RunsOK'
BY DEF RunsOK, RunState, Goto

\* What a poll observes is bookkeeping of the type it had.
LEMMA ObservedOK ==
  ASSUME TypeOK, NEW r \in Runners
  PROVE  Observed(r, listed) \in RunState
<1>1. run \in [Runners -> RunState] /\ listed \subseteq Ids
  BY DEF TypeOK, Ever
<1>2. QuietAfter(r, listed) \in Nat
  BY <1>1 DEF QuietAfter, RunState
<1> DEFINE sh == run[r].shared \/ Cardinality(listed) > 1
<1>3. sh \in BOOLEAN
  OBVIOUS
<1>4. Observed(r, listed) = [run[r] EXCEPT !.poll = @ + 1, !.last = listed,
                                           !.streak = QuietAfter(r, listed), !.shared = sh]
  BY DEF Observed
<1>5. /\ run[r] \in RunState /\ listed \in SUBSET Ids
      /\ run[r].poll + 1 \in Nat
  BY <1>1 DEF RunState
<1> HIDE DEF sh
<1> QED BY <1>2, <1>3, <1>4, <1>5 DEF RunState

\* A settled or unsettled poll leaves a run in its type.
LEMMA PollOK ==
  ASSUME TypeOK, NEW r \in Runners, Poll(r)
  PROVE  RunsOK'
<1> DEFINE o == Observed(r, listed)
<1>1. run \in [Runners -> RunState] /\ listed \subseteq Ids
  BY DEF TypeOK, Ever
<1>2. o \in RunState
  BY ObservedOK
<1>3. CASE ~ Settles(r, listed)
  BY <1>1, <1>2, <1>3 DEF Poll, RunsOK
<1>4. CASE Settles(r, listed)
  <2>1. AfterElection(r, listed) \in Stages
    BY DEF AfterElection, Stages
  <2>2. ElectedId(r, listed) \in Ids \cup {None}
    BY <1>1, LowestListed DEF ElectedId, RunState
  <2> DEFINE m == o.mine /\ ElectedId(r, listed) = run[r].id
  <2>3. m \in BOOLEAN
    OBVIOUS
  <2> DEFINE s == [o EXCEPT !.pc = AfterElection(r, listed), !.id = ElectedId(r, listed),
                            !.mine = m, !.poll = 0, !.last = {}, !.streak = 0]
  <2>4. s \in RunState
    <3> HIDE DEF o, m
    <3> QED BY <1>2, <2>1, <2>2, <2>3 DEF RunState
  <2>5. run' = [run EXCEPT ![r] = s]
    BY <1>4 DEF Poll
  <2> QED
    <3> HIDE DEF s
    <3> QED BY <1>1, <2>4, <2>5 DEF RunsOK
<1> QED BY <1>3, <1>4

\* So does a wait that sees one id left, several, or none.
LEMMA AwaitOK ==
  ASSUME TypeOK, NEW r \in Runners, AwaitPeers(r)
  PROVE  RunsOK'
<1>1. run \in [Runners -> RunState]
  BY DEF TypeOK
<1> DEFINE m == run[r].mine /\ listed = {run[r].id}
           g == IF listed = {run[r].id} THEN "get" ELSE "push"
           f == IF run[r].tries + 1 >= MaxAwaits THEN "failed" ELSE "await"
<1>2. m \in BOOLEAN /\ g \in Stages /\ f \in Stages
  BY DEF Stages
<1>3. CASE Cardinality(listed) = 1
               /\ run' = [run EXCEPT ![r].pc = g, ![r].id = Min(listed), ![r].shared = TRUE,
                                     ![r].mine = m, ![r].tries = 0]
  <2>1. Min(listed) \in Ids
    BY <1>3, LowestListed
  <2> HIDE DEF m, g
  <2>2. [run[r] EXCEPT !.pc = g, !.id = Min(listed), !.shared = TRUE,
                       !.mine = m, !.tries = 0] \in RunState
    BY <1>1, <1>2, <2>1 DEF RunState
  <2> QED BY <1>1, <1>3, <2>2 DEF RunsOK
<1>4. CASE run' = [run EXCEPT ![r].tries = @ + 1, ![r].pc = f]
  <2> HIDE DEF f
  <2>1. run[r].tries + 1 \in Nat
    BY <1>1 DEF RunState
  <2>2. [run[r] EXCEPT !.tries = @ + 1, !.pc = f] \in RunState
    BY <1>1, <1>2, <2>1 DEF RunState
  <2> QED BY <1>1, <1>4, <2>2 DEF RunsOK
<1>5. CASE Goto(r, "failed")
  BY <1>1, <1>5, GotoOK DEF RunsOK, Stages
<1> QED BY <1>3, <1>4, <1>5 DEF AwaitPeers

\* A step of a run keeps every run in its type.
LEMMA StepRunsOK ==
  ASSUME TypeOK, NEW r \in Runners, Step(r)
  PROVE  RunsOK'
<1>1. run \in [Runners -> RunState] /\ RunsOK
  BY DEF TypeOK, RunsOK
<1>2. CASE FindBefore(r)
  <2>1. CASE Goto(r, "post") \/ Goto(r, "failed")
    BY <1>1, <2>1, GotoOK DEF Stages
  <2>2. CASE /\ Cardinality(listed) = 1
             /\ run' = [run EXCEPT ![r].pc = "adopt", ![r].id = Min(listed)]
    <3>1. Min(listed) \in Ids /\ "adopt" \in Stages
      BY <2>2, LowestListed DEF Stages
    <3> QED BY <1>1, <2>2, <3>1 DEF RunsOK, RunState
  <2> QED BY <1>2, <2>1, <2>2 DEF FindBefore
<1>3. CASE AdoptExisting(r) \/ PushToWinner(r) \/ PostAmbiguous(r) \/ DeleteLoser(r)
             \/ Publish(r) \/ FailLate(r) \/ RollBack(r)
  <2>1. \E stage \in Stages : Goto(r, stage)
    BY <1>3 DEF AdoptExisting, PushToWinner, PostAmbiguous, DeleteLoser, Publish, FailLate,
                RollBack, Stages
  <2> QED BY <1>1, <2>1, GotoOK
<1>4. CASE Post(r)
  <2>1. PICK i \in Ids : run' = [run EXCEPT ![r].pc = "poll", ![r].id = i, ![r].mine = TRUE]
    BY <1>4 DEF Post
  <2>2. "poll" \in Stages
    BY DEF Stages
  <2>3. [run[r] EXCEPT !.pc = "poll", !.id = i, !.mine = TRUE] \in RunState
    BY <1>1, <2>2 DEF RunState
  <2> QED BY <1>1, <2>1, <2>3 DEF RunsOK
<1>5. CASE Recover(r)
  <2>1. CASE Cardinality(listed) = 1
    <3>1. Min(listed) \in Ids /\ "poll" \in Stages
      BY <2>1, LowestListed DEF Stages
    <3>2. run' = [run EXCEPT ![r].pc = "poll", ![r].id = Min(listed)]
      BY <1>5, <2>1 DEF Recover
    <3> QED BY <1>1, <3>1, <3>2 DEF RunsOK, RunState
  <2>2. CASE Cardinality(listed) # 1
    BY <1>1, <1>5, <2>2, GotoOK DEF Recover, Stages
  <2> QED BY <2>1, <2>2
<1>6. CASE ReadBack(r)
  <2> DEFINE m == run[r].mine /\ ~run[r].shared
  <2>1. m \in BOOLEAN
    OBVIOUS
  <2>2. CASE run' = [run EXCEPT ![r].pc = "holding", ![r].owned = m]
    <3> HIDE DEF m
    <3>1. "holding" \in Stages
      BY DEF Stages
    <3> QED BY <1>1, <2>1, <2>2, <3>1 DEF RunsOK, RunState
  <2>3. CASE Goto(r, "failed")
    BY <1>1, <2>3, GotoOK DEF Stages
  <2> QED BY <1>6, <2>2, <2>3 DEF ReadBack
<1> QED BY <1>2, <1>3, <1>4, <1>5, <1>6, PollOK, AwaitOK DEF Step

\* The initial state is typed.
LEMMA InitOK == Init => TypeOK
<1> SUFFICES ASSUME Init PROVE TypeOK
  OBVIOUS
<1>1. [pc |-> "find", id |-> None, mine |-> FALSE, poll |-> 0, last |-> {},
       streak |-> 0, shared |-> FALSE, tries |-> 0, owned |-> FALSE] \in RunState
  BY DEF RunState, Stages
<1>2. RunsOK
  BY <1>1 DEF Init, RunsOK
<1>3. ServerOK
  BY FlagsAssumption DEF Init, ServerOK, Ever
<1> QED BY <1>2, <1>3, TypeParts

-----------------------------------------------------------------------------
(* What a step leaves alone *)

\* A step of one run changes no other run, and no step forgets who created a
\* specification.
LEMMA StepFrame ==
  ASSUME TypeOK, NEW r \in Runners, Step(r)
  PROVE  /\ \A q \in Runners \ {r} : run'[q] = run[q]
         /\ \A i \in Ever : i \in Ever' /\ creator'[i] = creator[i]
<1>1. run \in [Runners -> RunState]
  BY DEF TypeOK
<1>2. \E s : run' = [run EXCEPT ![r] = s]
  <2>1. CASE Poll(r)
    BY <2>1, Zenon DEF Poll
  <2>2. CASE FindBefore(r)
    <3>1. CASE run' = [run EXCEPT ![r].pc = "adopt", ![r].id = Min(listed)]
      BY <3>1, Zenon
    <3> QED BY <2>2, <3>1, Zenon DEF FindBefore, Goto
  <2>3. CASE AwaitPeers(r)
    BY <2>3, Zenon DEF AwaitPeers, Goto
  <2>4. CASE Post(r)
    BY <2>4, Zenon DEF Post
  <2>5. CASE Recover(r) \/ ReadBack(r)
    BY <2>5, Zenon DEF Recover, ReadBack, Goto
  <2> QED
    BY <2>1, <2>2, <2>3, <2>4, <2>5, Zenon
    DEF Step, AdoptExisting, PostAmbiguous, DeleteLoser, PushToWinner, Publish, FailLate,
        RollBack, Goto
<1>3. creator' = creator \/ \E i \in Ids : Create(r, i)
  BY DEF Step, FindBefore, AdoptExisting, Post, PostAmbiguous, Recover, Poll, DeleteLoser,
         AwaitPeers, PushToWinner, ReadBack, Publish, FailLate, RollBack, Server
<1>4. \A i \in Ever : i \in Ever' /\ creator'[i] = creator[i]
  BY <1>3, CreateOK DEF Ever
<1> QED BY <1>1, <1>2, <1>4

-----------------------------------------------------------------------------
(* Ownership.  mine and owned are local flags that were set when the id    *)
(* was created or adopted; rollback trusts them many calls later.          *)

Created(r, i) == i \in Ids /\ creator[i] = r

\* A run's claims are true, and it makes none before its create has answered.
OwnsItsClaims(r) ==
    /\ run[r].mine => Created(r, run[r].id)
    /\ run[r].owned => Created(r, run[r].id)
    /\ run[r].pc \in {"find", "adopt", "post", "recover"} => ~ run[r].mine
    /\ run[r].owned => run[r].pc \in Ended \cup {"holding", "rollback"}
    /\ run[r].pc = "rollback" => run[r].owned
Ownership == \A r \in Runners : OwnsItsClaims(r)

\* What a run created stays its own.
LEMMA CreatedStays ==
  ASSUME TypeOK, NEW r \in Runners, NEW q \in Runners, NEW i, Step(r), Created(q, i)
  PROVE  Created(q, i)'
<1>1. i \in Ever
  BY IdsAssumption DEF Created, Ever
<1> QED BY <1>1, StepFrame DEF Created

\* A step that moves a run's control point and nothing else, to a stage where its
\* flags mean the same, keeps its claims true.
LEMMA GotoOwns ==
  ASSUME TypeOK, NEW r \in Runners, Step(r), OwnsItsClaims(r),
         NEW stage, Goto(r, stage),
         stage \in {"post", "adopt", "recover"} => ~ run[r].mine,
         stage = "find" => FALSE,
         run[r].owned => stage \in Ended \cup {"holding", "rollback"},
         stage = "rollback" => run[r].owned
  PROVE  OwnsItsClaims(r)'
<1>1. run'[r] = [run[r] EXCEPT !.pc = stage] /\ run[r] \in RunState
  BY DEF Goto, TypeOK
<1>2. /\ run'[r].pc = stage /\ run'[r].id = run[r].id
      /\ run'[r].mine = run[r].mine /\ run'[r].owned = run[r].owned
  BY <1>1 DEF RunState
<1> QED BY <1>2, CreatedStays DEF OwnsItsClaims

\* A poll goes on, or settles: then the stage, the id and the claim are decided.
LEMMA PollResult ==
  ASSUME TypeOK, NEW r \in Runners, Poll(r)
  PROVE  /\ run'[r].owned = run[r].owned
         /\ \/ /\ run'[r].pc = "poll"
               /\ run'[r].id = run[r].id /\ run'[r].mine = run[r].mine
            \/ /\ run'[r].pc = AfterElection(r, listed)
               /\ run'[r].id = ElectedId(r, listed)
               /\ run'[r].mine = (run[r].mine /\ ElectedId(r, listed) = run[r].id)
<1> DEFINE o == Observed(r, listed)
           m == o.mine /\ ElectedId(r, listed) = run[r].id
<1>1. run \in [Runners -> RunState] /\ run[r] \in RunState /\ o \in RunState
  BY ObservedOK DEF TypeOK
<1>2. o.pc = "poll" /\ o.owned = run[r].owned /\ o.mine = run[r].mine /\ o.id = run[r].id
  BY <1>1 DEF Poll, At, Observed, RunState
<1>3. CASE run' = [run EXCEPT ![r] = o]
  <2> HIDE DEF o
  <2> QED BY <1>1, <1>2, <1>3
<1>4. CASE run' = [run EXCEPT ![r] =
                     [o EXCEPT !.pc = AfterElection(r, listed), !.id = ElectedId(r, listed),
                               !.mine = m, !.poll = 0, !.last = {}, !.streak = 0]]
  <2>1. /\ run'[r].owned = o.owned /\ run'[r].id = ElectedId(r, listed)
        /\ run'[r].mine = m /\ run'[r].pc = AfterElection(r, listed)
    <3> HIDE DEF o, m
    <3> QED BY <1>1, <1>4 DEF RunState
  <2> QED BY <1>2, <2>1
<1> QED BY <1>3, <1>4 DEF Poll

\* The run that makes a step keeps its claims true.
LEMMA StepOwns ==
  ASSUME TypeOK, NEW r \in Runners, Step(r), OwnsItsClaims(r)
  PROVE  OwnsItsClaims(r)'
<1>1. run \in [Runners -> RunState] /\ run[r] \in RunState
  BY DEF TypeOK
<1>2. CASE FindBefore(r)
  <2>1. CASE Goto(r, "post") \/ Goto(r, "failed")
    BY <1>2, <2>1, GotoOwns DEF FindBefore, At, OwnsItsClaims, Ended
  <2>2. CASE run' = [run EXCEPT ![r].pc = "adopt", ![r].id = Min(listed)]
    <3>1. /\ run'[r].pc = "adopt" /\ run'[r].mine = run[r].mine
          /\ run'[r].owned = run[r].owned
      BY <1>1, <2>2 DEF RunState
    <3> QED BY <1>2, <3>1 DEF FindBefore, At, OwnsItsClaims, Ended
  <2> QED BY <1>2, <2>1, <2>2 DEF FindBefore
<1>3. CASE AdoptExisting(r) \/ PushToWinner(r) \/ PostAmbiguous(r) \/ DeleteLoser(r)
             \/ Publish(r) \/ FailLate(r) \/ RollBack(r)
  BY <1>3, GotoOwns
  DEF AdoptExisting, PushToWinner, PostAmbiguous, DeleteLoser, Publish, FailLate, RollBack,
      At, OwnsItsClaims, Ended
<1>4. CASE Post(r)
  <2>1. PICK i \in Ids :
          /\ Create(r, i)
          /\ run' = [run EXCEPT ![r].pc = "poll", ![r].id = i, ![r].mine = TRUE]
    BY <1>4 DEF Post
  <2>2. Created(r, i)'
    BY <2>1, CreateOK DEF Created
  <2>3. run'[r].pc = "poll" /\ run'[r].id = i /\ run'[r].owned = run[r].owned
    BY <1>1, <2>1 DEF RunState
  <2> QED BY <1>4, <2>2, <2>3 DEF Post, At, OwnsItsClaims, Ended
<1>5. CASE Recover(r)
  <2>1. CASE run' = [run EXCEPT ![r].pc = "poll", ![r].id = Min(listed)]
    <3>1. /\ run'[r].pc = "poll" /\ run'[r].mine = run[r].mine
          /\ run'[r].owned = run[r].owned
      BY <1>1, <2>1 DEF RunState
    <3> QED BY <1>5, <3>1 DEF Recover, At, OwnsItsClaims, Ended
  <2>2. CASE Goto(r, "failed")
    BY <2>2, GotoOwns DEF Ended
  <2> QED BY <1>5, <2>1, <2>2 DEF Recover
<1>6. CASE ReadBack(r)
  <2> DEFINE m == run[r].mine /\ ~run[r].shared
  <2>1. CASE run' = [run EXCEPT ![r].pc = "holding", ![r].owned = m]
    <3>1. /\ run'[r].pc = "holding" /\ run'[r].id = run[r].id
          /\ run'[r].mine = run[r].mine /\ run'[r].owned = m
      <4> HIDE DEF m
      <4> QED BY <1>1, <2>1 DEF RunState
    <3> QED BY <1>6, <3>1, CreatedStays DEF OwnsItsClaims, Ended
  <2>2. CASE Goto(r, "failed")
    BY <2>2, GotoOwns DEF Ended
  <2> QED BY <1>6, <2>1, <2>2 DEF ReadBack
<1>7. CASE Poll(r)
  <2>1. /\ run'[r].owned = run[r].owned
        /\ run'[r].pc \in {"poll", "delete", "await", "get", "push"}
        /\ run'[r].mine => run[r].mine /\ run'[r].id = run[r].id
    BY <1>7, PollResult DEF AfterElection
  <2> QED BY <1>7, <2>1, CreatedStays DEF Poll, At, OwnsItsClaims, Ended
<1>8. CASE AwaitPeers(r)
  <2>1. CASE Cardinality(listed) = 1
             /\ run' = [run EXCEPT ![r].pc = IF listed = {run[r].id} THEN "get" ELSE "push",
                                   ![r].id = Min(listed), ![r].shared = TRUE,
                                   ![r].mine = @ /\ listed = {run[r].id}, ![r].tries = 0]
    <3>1. /\ run'[r].owned = run[r].owned /\ run'[r].pc \in {"get", "push"}
          /\ run'[r].id = Min(listed)
          /\ run'[r].mine => run[r].mine /\ listed = {run[r].id}
      BY <1>1, <2>1 DEF RunState
    <3>2. run'[r].mine => run'[r].id = run[r].id
      BY <2>1, <3>1, LowestListed
    <3> QED BY <1>8, <3>1, <3>2, CreatedStays DEF AwaitPeers, At, OwnsItsClaims, Ended
  <2>2. CASE run' = [run EXCEPT ![r].tries = @ + 1,
                                ![r].pc = IF run[r].tries + 1 >= MaxAwaits
                                          THEN "failed" ELSE "await"]
    <3>1. /\ run'[r].owned = run[r].owned /\ run'[r].mine = run[r].mine
          /\ run'[r].id = run[r].id /\ run'[r].pc \in {"failed", "await"}
      BY <1>1, <2>2 DEF RunState
    <3> QED BY <1>8, <3>1, CreatedStays DEF AwaitPeers, At, OwnsItsClaims, Ended
  <2>3. CASE Goto(r, "failed")
    BY <2>3, GotoOwns DEF Ended
  <2> QED BY <1>8, <2>1, <2>2, <2>3 DEF AwaitPeers
<1> QED BY <1>2, <1>3, <1>4, <1>5, <1>6, <1>7, <1>8 DEF Step

\* Every step keeps all claims true.
LEMMA NextOwns == TypeOK /\ Ownership /\ [Next]_vars => Ownership'
<1> SUFFICES ASSUME TypeOK, Ownership, [Next]_vars, NEW q \in Runners
             PROVE  OwnsItsClaims(q)'
  BY DEF Ownership
<1>1. OwnsItsClaims(q)
  BY DEF Ownership
<1>2. CASE \E r \in Runners : Step(r)
  <2>1. PICK r \in Runners : Step(r)
    BY <1>2
  <2>2. CASE r = q
    BY <1>1, <2>1, <2>2, StepOwns
  <2>3. CASE r # q
    <3>1. run'[q] = run[q]
      BY <2>1, <2>3, StepFrame
    <3> QED BY <1>1, <2>1, <3>1, CreatedStays DEF OwnsItsClaims
  <2> QED BY <2>2, <2>3
<1>3. CASE \E r \in Runners : LandLate(r)
  <2>1. PICK i \in Ids : run' = run /\ \E r \in Runners : Create(r, i)
    BY <1>3 DEF LandLate
  <2>2. \A j : Created(q, j) => Created(q, j)'
    BY <2>1, CreateOK, IdsAssumption DEF Created, Ever
  <2> QED BY <1>1, <2>1, <2>2 DEF OwnsItsClaims
<1>4. CASE \E r \in Runners : Fault(r)
  <2>1. PICK r \in Runners : Goto(r, "failed") /\ UNCHANGED creator
    BY <1>4 DEF Fault
  <2>2. /\ run'[q].mine = run[q].mine /\ run'[q].owned = run[q].owned
        /\ run'[q].id = run[q].id /\ run'[q].pc \in {run[q].pc, "failed"}
    BY <2>1 DEF Goto, TypeOK, RunState
  <2> QED BY <1>1, <2>1, <2>2 DEF OwnsItsClaims, Created, Ended
<1>5. CASE (\E i \in Ids : BecomeListed(i)) \/ UNCHANGED vars
  BY <1>1, <1>5 DEF BecomeListed, vars, OwnsItsClaims, Created
<1> QED BY <1>2, <1>3, <1>4, <1>5 DEF Next

-----------------------------------------------------------------------------
(* The inductive invariant.  LowestSurvives is not inductive: a loser      *)
(* deletes long after the poll that ordered it to, and in between the list *)
(* it read goes stale.  What stays true is that a lower id was created.    *)

\* A run about to delete its loser has seen a lower id.
LoserHasLower ==
    \A r \in Runners : At(r, "delete") => \E j \in Ever : j < run[r].id

IInv == TypeOK /\ Ownership /\ LoserHasLower /\ LowestSurvives

\* A run that rolls back names an existing id of its own, so the server's part
\* of TypeOK survives every step.
LEMMA StepServerOK ==
  ASSUME TypeOK, NEW r \in Runners, OwnsItsClaims(r), Step(r)
  PROVE  ServerOK'
<1>1. ServerOK
  BY TypeParts
<1>2. CASE Server
  BY <1>1, <1>2 DEF Server, ServerOK, Ever
<1>3. CASE Post(r)
  <2>1. PICK i \in Ids : Create(r, i)
    BY <1>3 DEF Post
  <2> QED BY <1>1, <1>3, <2>1, CreateOK DEF Post, ServerOK
<1>4. CASE PostAmbiguous(r)
  <2>1. late' \subseteq Runners /\ UNCHANGED <<faults, rolledBack>>
    BY <1>1, <1>4 DEF PostAmbiguous, ServerOK
  <2>2. CASE UNCHANGED <<alive, listed, creator>>
    BY <1>1, <2>1, <2>2 DEF ServerOK, Ever
  <2>3. CASE \E i \in Ids : Create(r, i)
    BY <1>1, <2>1, <2>3, CreateOK DEF ServerOK
  <2> QED BY <1>4, <2>2, <2>3 DEF PostAmbiguous
<1>5. CASE DeleteLoser(r)
  BY <1>1, <1>5 DEF DeleteLoser, DeleteSpec, ServerOK, Ever
<1>6. CASE RollBack(r)
  <2>1. run[r].id \in Ids
    BY <1>6 DEF RollBack, At, OwnsItsClaims, Created
  <2> QED BY <1>1, <1>6, <2>1 DEF RollBack, DeleteSpec, ServerOK, Ever
<1> QED
  BY <1>2, <1>3, <1>4, <1>5, <1>6
  DEF Step, FindBefore, AdoptExisting, Recover, Poll, AwaitPeers, PushToWinner, ReadBack,
      Publish, FailLate

\* Every step keeps the type invariant.
LEMMA NextOK == TypeOK /\ Ownership /\ [Next]_vars => TypeOK'
<1> SUFFICES ASSUME TypeOK, Ownership, [Next]_vars PROVE TypeOK'
  OBVIOUS
<1>1. ServerOK /\ RunsOK
  BY TypeParts
<1>2. CASE \E r \in Runners : Step(r)
  <2>1. ServerOK' /\ RunsOK'
    BY <1>2, StepServerOK, StepRunsOK DEF Ownership
  <2> QED BY <2>1 DEF TypeOK, ServerOK, RunsOK
<1>3. CASE \E r \in Runners : LandLate(r)
  <2>1. PICK r \in Runners, i \in Ids : LandLate(r) /\ Create(r, i)
    BY <1>3 DEF LandLate
  <2>2. late' \subseteq Runners /\ UNCHANGED <<faults, rolledBack, run>>
    BY <1>1, <2>1 DEF LandLate, ServerOK
  <2> QED BY <1>1, <2>1, <2>2, CreateOK DEF TypeOK, ServerOK, RunsOK
<1>4. CASE \E r \in Runners : Fault(r)
  <2>1. PICK r \in Runners : Fault(r)
    BY <1>4
  <2>2. RunsOK'
    BY <1>1, <2>1, GotoOK DEF Fault, Stages
  <2>3. faults' \in 0..MaxFaults
    BY <1>1, <2>1, FlagsAssumption DEF Fault, ServerOK
  <2> QED BY <1>1, <2>1, <2>2, <2>3 DEF Fault, TypeOK, ServerOK, RunsOK, Ever
<1>5. CASE \E i \in Ids : BecomeListed(i)
  BY <1>5 DEF BecomeListed, TypeOK, Ever
<1>6. CASE UNCHANGED vars
  BY <1>6 DEF vars, TypeOK, Ever
<1> QED BY <1>2, <1>3, <1>4, <1>5, <1>6 DEF Next

\* A poll sends a run to delete only when a lower id than its own is listed.
LEMMA PollSendsLosers ==
  ASSUME TypeOK, NEW r \in Runners, Poll(r), At(r, "delete")'
  PROVE  /\ \E j \in Ever : j < run'[r].id
         /\ run'[r].mine = run[r].mine
<1>1. Cardinality(listed) > 1 /\ run[r].id # Min(listed) /\ run[r].id \in listed
  BY PollResult DEF At, AfterElection
<1>2. ElectedId(r, listed) = run[r].id
  BY <1>1 DEF ElectedId
<1>3. run'[r].id = run[r].id /\ run'[r].mine = run[r].mine
  BY <1>2, PollResult, Zenon DEF TypeOK, RunState
<1>4. /\ Min(listed) \in Ever /\ Min(listed) <= run[r].id
      /\ Min(listed) \in Nat /\ run[r].id \in Nat
  BY <1>1, LowestListed, IdsAssumption DEF TypeOK, Ever
<1> QED BY <1>1, <1>3, <1>4

\* A wait ends in the read-back, the push, a failure or another wait.
LEMMA AwaitEnds ==
  ASSUME TypeOK, NEW r \in Runners, AwaitPeers(r)
  PROVE  run'[r].pc \in {"get", "push", "failed", "await"}
<1>1. run \in [Runners -> RunState]
  BY DEF TypeOK
<1> DEFINE m == run[r].mine /\ listed = {run[r].id}
           g == IF listed = {run[r].id} THEN "get" ELSE "push"
           f == IF run[r].tries + 1 >= MaxAwaits THEN "failed" ELSE "await"
<1>2. CASE run' = [run EXCEPT ![r].pc = g, ![r].id = Min(listed), ![r].shared = TRUE,
                              ![r].mine = m, ![r].tries = 0]
  <2>1. g \in {"get", "push"}
    OBVIOUS
  <2> HIDE DEF m, g
  <2> QED BY <1>1, <1>2, <2>1 DEF RunState
<1>3. CASE run' = [run EXCEPT ![r].tries = @ + 1, ![r].pc = f]
  <2>1. f \in {"failed", "await"}
    OBVIOUS
  <2> HIDE DEF f
  <2> QED BY <1>1, <1>3, <2>1 DEF RunState
<1>4. CASE Goto(r, "failed")
  BY <1>1, <1>4 DEF Goto, RunState
<1> QED BY <1>2, <1>3, <1>4 DEF AwaitPeers

\* The order to delete a loser comes with a lower id, and the lower id stays created.
LEMMA NextLoser == TypeOK /\ LoserHasLower /\ [Next]_vars => LoserHasLower'
<1> SUFFICES ASSUME TypeOK, LoserHasLower, [Next]_vars, NEW q \in Runners, At(q, "delete")'
             PROVE  \E j \in Ever' : j < run'[q].id
  BY DEF LoserHasLower
<1>1. run \in [Runners -> RunState]
  BY DEF TypeOK
<1>2. CASE \E r \in Runners : Step(r)
  <2>1. PICK r \in Runners : Step(r)
    BY <1>2
  <2>2. \A i \in Ever : i \in Ever'
    BY <2>1, StepFrame
  <2>3. CASE r # q
    BY <2>1, <2>2, <2>3, StepFrame DEF LoserHasLower, At
  <2>4. CASE r = q
    <3>1. \A stage : Goto(q, stage) => stage = "delete"
      BY <1>1 DEF Goto, At, RunState
    <3>2. \A i : run' # [run EXCEPT ![q].pc = "adopt", ![q].id = i]
      BY <1>1 DEF At, RunState
    <3>3. \A i : run' # [run EXCEPT ![q].pc = "poll", ![q].id = i]
      BY <1>1 DEF At, RunState
    <3>4. ~ Post(q)
      <4>1. \A i \in Ids : run' # [run EXCEPT ![q].pc = "poll", ![q].id = i, ![q].mine = TRUE]
        BY <1>1 DEF At, RunState
      <4> QED BY <4>1, Zenon DEF Post
    <3>5. ~ ReadBack(q)
      <4> DEFINE m == run[q].mine /\ ~run[q].shared
      <4>1. run' # [run EXCEPT ![q].pc = "holding", ![q].owned = m]
        <5> HIDE DEF m
        <5> QED BY <1>1 DEF At, RunState
      <4> QED BY <3>1, <4>1 DEF ReadBack
    <3>6. ~ AwaitPeers(q)
      BY <3>1, AwaitEnds DEF At
    <3>7. Poll(q)
      BY <2>1, <2>4, <3>1, <3>2, <3>3, <3>4, <3>5, <3>6
      DEF Step, FindBefore, AdoptExisting, PostAmbiguous, Recover, DeleteLoser, PushToWinner,
          Publish, FailLate, RollBack
    <3> QED BY <2>2, <3>7, PollSendsLosers
  <2> QED BY <2>3, <2>4
<1>3. CASE \E r \in Runners : LandLate(r)
  <2>1. PICK i \in Ids : run' = run /\ \E r \in Runners : Create(r, i)
    BY <1>3 DEF LandLate
  <2>2. Ever' = Ever \cup {i}
    BY <2>1, CreateOK
  <2> QED BY <2>1, <2>2 DEF LoserHasLower, At
<1>4. CASE \E r \in Runners : Fault(r)
  <2>1. PICK r \in Runners : Goto(r, "failed") /\ UNCHANGED creator
    BY <1>4 DEF Fault
  <2>2. r # q
    BY <1>1, <2>1 DEF Goto, At, RunState
  <2> QED BY <1>1, <2>1, <2>2 DEF Goto, LoserHasLower, At, Ever
<1>5. CASE (\E i \in Ids : BecomeListed(i)) \/ UNCHANGED vars
  BY <1>5 DEF BecomeListed, vars, LoserHasLower, At, Ever
<1> QED BY <1>2, <1>3, <1>4, <1>5 DEF Next

\* Creating an id keeps one at or below every id.
LEMMA CreateKeepsLowest ==
  ASSUME TypeOK, LowestSurvives, NEW r \in Runners, NEW i \in Ids, Create(r, i),
         UNCHANGED rolledBack
  PROVE  LowestSurvives'
<1>1. Ever' = Ever \cup {i} /\ alive' = alive \cup {i} /\ i <= i
  BY CreateOK, IdsAssumption
<1> QED BY <1>1 DEF LowestSurvives

\* So does deleting an id that is not the lowest.
LEMMA DeleteKeepsLowest ==
  ASSUME TypeOK, LowestSurvives, NEW d, DeleteSpec(d), d \in Nat,
         \E k \in Ever : k < d, UNCHANGED <<creator, rolledBack>>
  PROVE  LowestSurvives'
<1> SUFFICES ASSUME NEW i \in Ever PROVE \E j \in (alive \ {d}) \cup rolledBack : j <= i
  BY DEF LowestSurvives, DeleteSpec, Ever
<1>1. Ever \subseteq Nat /\ alive \cup rolledBack \subseteq Nat
  BY IdsAssumption DEF TypeOK, Ever
<1>2. PICK j \in alive \cup rolledBack : j <= i
  BY DEF LowestSurvives
<1>3. PICK k \in Ever : k < d
  OBVIOUS
<1>4. PICK l \in alive \cup rolledBack : l <= k
  BY <1>3 DEF LowestSurvives
<1>5. CASE j # d
  BY <1>2, <1>5
<1>6. CASE j = d
  <2>1. l # d /\ l <= i
    BY <1>1, <1>2, <1>3, <1>4, <1>6
  <2> QED BY <1>4, <2>1
<1> QED BY <1>5, <1>6

\* Every step keeps one at or below every id.
LEMMA NextLowest == TypeOK /\ LoserHasLower /\ LowestSurvives /\ [Next]_vars => LowestSurvives'
<1> SUFFICES ASSUME TypeOK, LoserHasLower, LowestSurvives, [Next]_vars
             PROVE  LowestSurvives'
  OBVIOUS
<1>1. ASSUME NEW r \in Runners, DeleteLoser(r) PROVE LowestSurvives'
  <2>1. CASE run[r].id \in alive
    <3>1. run[r].id \in Nat
      BY <2>1, IdsAssumption DEF TypeOK, Ever
    <3> QED BY <1>1, <3>1, DeleteKeepsLowest DEF DeleteLoser, LoserHasLower
  <2>2. CASE run[r].id \notin alive
    BY <1>1, <2>2 DEF DeleteLoser, DeleteSpec, LowestSurvives, Ever
  <2> QED BY <2>1, <2>2
<1>2. ASSUME NEW r \in Runners, RollBack(r) PROVE LowestSurvives'
  BY <1>2 DEF RollBack, DeleteSpec, LowestSurvives, Ever
<1>3. CASE \E r \in Runners : Post(r) \/ PostAmbiguous(r) \/ LandLate(r)
  <2>1. PICK r \in Runners : Post(r) \/ PostAmbiguous(r) \/ LandLate(r)
    BY <1>3
  <2>2. CASE \E i \in Ids : Create(r, i)
    BY <2>1, <2>2, CreateKeepsLowest DEF Post, PostAmbiguous, LandLate
  <2>3. CASE UNCHANGED <<alive, listed, creator>>
    BY <2>1, <2>3 DEF Post, PostAmbiguous, LandLate, LowestSurvives, Ever
  <2> QED BY <2>1, <2>2, <2>3 DEF Post, PostAmbiguous, LandLate
<1>4. CASE UNCHANGED <<alive, creator, rolledBack>>
  BY <1>4 DEF LowestSurvives, Ever
<1> QED
  BY <1>1, <1>2, <1>3, <1>4
  DEF Next, Step, FindBefore, AdoptExisting, Recover, Poll, AwaitPeers, PushToWinner, ReadBack,
      Publish, FailLate, Server, Fault, BecomeListed, vars

-----------------------------------------------------------------------------
(* Theorems *)

\* The invariant holds initially and every step preserves it.
LEMMA Inductive == Spec => []IInv
<1>1. Init => IInv
  <2> SUFFICES ASSUME Init PROVE IInv
    OBVIOUS
  <2>1. Ownership
    BY DEF Init, Ownership, OwnsItsClaims
  <2>2. Ever = {}
    BY DEF Init, Ever
  <2>3. LoserHasLower /\ LowestSurvives
    BY <2>2 DEF Init, LoserHasLower, At, LowestSurvives
  <2> QED BY <2>1, <2>3, InitOK DEF IInv
<1>2. IInv /\ [Next]_vars => IInv'
  BY NextOK, NextOwns, NextLoser, NextLowest DEF IInv
<1> QED BY <1>1, <1>2, PTL DEF Spec

\* Every variable stays in its set, in every behaviour and for any number of runs.
THEOREM TypeCorrect == Spec => []TypeOK
<1>1. IInv => TypeOK
  BY DEF IInv
<1> QED BY <1>1, Inductive, PTL

\* The election never deletes the last specification of the name: it can only
\* lose ids that something lower outlives, rollbacks aside.
THEOREM LowestAlwaysSurvives == Spec => []LowestSurvives
<1>1. IInv => LowestSurvives
  BY DEF IInv
<1> QED BY <1>1, Inductive, PTL

\* A failed run deletes only the specification that its own create made, even when
\* the create answered ambiguously.
THEOREM RollbackIsOwn == Spec => []RollsBackOnlyOwn
<1>1. IInv => RollsBackOnlyOwn
  BY DEF IInv, Ownership, OwnsItsClaims, Created, RollsBackOnlyOwn
<1> QED BY <1>1, Inductive, PTL

-----------------------------------------------------------------------------
(* Without ambiguous creates a run that polls or deletes is the creator of *)
(* the id it holds, so the promise of the doc comment holds as it stands.  *)

NeverAdoptedBlindly ==
    \A r \in Runners : /\ run[r].pc # "recover"
                       /\ run[r].pc \in {"poll", "delete"} => run[r].mine

\* A run reaches the poll by its own create, and the delete by the poll.
LEMMA NextBlindly ==
  ASSUME ~ Ambiguous
  PROVE  TypeOK /\ NeverAdoptedBlindly /\ [Next]_vars => NeverAdoptedBlindly'
<1> SUFFICES ASSUME TypeOK, NeverAdoptedBlindly, [Next]_vars, NEW q \in Runners
             PROVE  /\ run'[q].pc # "recover"
                    /\ run'[q].pc \in {"poll", "delete"} => run'[q].mine
  BY DEF NeverAdoptedBlindly
<1>1. run \in [Runners -> RunState]
  BY DEF TypeOK
<1>2. /\ run[q].pc # "recover"
      /\ run[q].pc \in {"poll", "delete"} => run[q].mine
  BY DEF NeverAdoptedBlindly
<1>3. \A stage : Goto(q, stage) => run'[q].pc = stage
  BY <1>1 DEF Goto, RunState
<1>4. CASE \E r \in Runners : Step(r)
  <2>1. PICK r \in Runners : Step(r)
    BY <1>4
  <2>2. CASE r # q
    BY <1>2, <2>1, <2>2, StepFrame
  <2>3. CASE Poll(q)
    <3>1. run[q].pc = "poll"
      BY <2>3 DEF Poll, At
    <3>2. run'[q].pc \in {"poll", "delete", "await", "get", "push"}
      BY <2>3, PollResult DEF AfterElection
    <3>3. run'[q].pc = "poll" => run'[q].mine = run[q].mine
      BY <2>3, PollResult DEF AfterElection
    <3>4. run'[q].pc = "delete" => run'[q].mine = run[q].mine
      BY <2>3, PollSendsLosers DEF At
    <3> QED BY <1>2, <3>1, <3>2, <3>3, <3>4
  <2>4. CASE Post(q)
    <3>1. PICK i \in Ids : run' = [run EXCEPT ![q].pc = "poll", ![q].id = i, ![q].mine = TRUE]
      BY <2>4 DEF Post
    <3> QED BY <1>1, <3>1 DEF RunState
  <2>5. CASE FindBefore(q)
    <3>1. CASE run' = [run EXCEPT ![q].pc = "adopt", ![q].id = Min(listed)]
      BY <1>1, <3>1 DEF RunState
    <3> QED BY <1>3, <2>5, <3>1 DEF FindBefore
  <2>6. CASE AwaitPeers(q)
    BY <2>6, AwaitEnds
  <2>7. CASE ReadBack(q)
    <3> DEFINE m == run[q].mine /\ ~run[q].shared
    <3>1. CASE run' = [run EXCEPT ![q].pc = "holding", ![q].owned = m]
      <4> HIDE DEF m
      <4> QED BY <1>1, <3>1 DEF RunState
    <3> QED BY <1>3, <2>7, <3>1 DEF ReadBack
  <2> QED
    BY <1>2, <1>3, <2>1, <2>2, <2>3, <2>4, <2>5, <2>6, <2>7
    DEF Step, At, AdoptExisting, PostAmbiguous, Recover, DeleteLoser, PushToWinner, Publish,
        FailLate, RollBack
<1>5. CASE \E r \in Runners : Fault(r)
  <2>1. PICK r \in Runners : Goto(r, "failed")
    BY <1>5 DEF Fault
  <2>2. run'[q] = run[q] \/ run'[q].pc = "failed"
    BY <1>1, <2>1 DEF Goto, RunState
  <2> QED BY <1>2, <2>2
<1>6. CASE run' = run
  BY <1>2, <1>6
<1> QED BY <1>4, <1>5, <1>6 DEF Next, LandLate, BecomeListed, vars

\* Only the clean-up of a loser and the rollback delete, and both delete an id that
\* the run created.
LEMMA StepDeletesOwn ==
  ASSUME TypeOK, Ownership, NeverAdoptedBlindly, NEW r \in Runners, Step(r),
         NEW i \in alive \ alive'
  PROVE  creator[i] = r
<1>1. OwnsItsClaims(r)
  BY DEF Ownership
<1>2. \A d \in Ids : Create(r, d) => alive \subseteq alive'
  BY DEF Create
<1>3. CASE DeleteLoser(r)
  <2>1. i = run[r].id
    BY <1>3 DEF DeleteLoser, DeleteSpec
  <2>2. run[r].mine
    BY <1>3 DEF DeleteLoser, At, NeverAdoptedBlindly
  <2> QED BY <1>1, <2>1, <2>2 DEF OwnsItsClaims, Created
<1>4. CASE RollBack(r)
  <2>1. i = run[r].id
    BY <1>4 DEF RollBack, DeleteSpec
  <2>2. run[r].owned
    BY <1>1, <1>4 DEF RollBack, At, OwnsItsClaims
  <2> QED BY <1>1, <2>1, <2>2 DEF OwnsItsClaims, Created
<1> QED
  BY <1>2, <1>3, <1>4
  DEF Step, FindBefore, AdoptExisting, Post, PostAmbiguous, Recover, Poll, AwaitPeers,
      PushToWinner, ReadBack, Publish, FailLate, Server

\* While creates answer definitely, a run deletes only specifications that its own
\* create made: election and rollback never touch a peer's.
THEOREM OnlyOwnDeleted ==
  ASSUME ~ Ambiguous
  PROVE  Spec => DeletesOnlyOwn
<1>1. Init => NeverAdoptedBlindly
  BY DEF Init, NeverAdoptedBlindly
<1>2. TypeOK /\ NeverAdoptedBlindly /\ [Next]_vars => NeverAdoptedBlindly'
  BY NextBlindly
<1>3. TypeOK /\ Ownership /\ NeverAdoptedBlindly /\ [Next]_vars
        => [\A r \in Runners : Step(r) => \A i \in alive \ alive' : creator[i] = r]_vars
  BY StepDeletesOwn
<1>4. IInv => TypeOK /\ Ownership
  BY DEF IInv
<1> QED BY <1>1, <1>2, <1>3, <1>4, Inductive, PTL DEF Spec, DeletesOnlyOwn

-----------------------------------------------------------------------------
(* What the agreement rests on.  At most two runs, whose creates answer;    *)
(* a peer that found nothing has a listed specification before either makes *)
(* the poll that may settle on a lone id, and the polls do not end before.  *)

PairTiming ==
    /\ \E a, b \in Runners : Runners = {a, b}
    /\ Ambiguous = FALSE /\ LateFailures = FALSE
    /\ Window <= MinSinglePoll /\ Window < MaxPolls

Lowest(i) == \A j \in Ever : i <= j
AllCreated == \A r \in Runners : \E i \in Ever : creator[i] = r

\* A run creates one specification, in its create, and the lowest one stays.
OnePerRun ==
    /\ late = {} /\ \A r \in Runners : run[r].pc \notin {"recover", "rollback"}
    /\ \A i, j \in Ever : creator[i] = creator[j] => i = j
    /\ \A i \in Ever : run[creator[i]].pc \notin {"find", "adopt", "post"}
    /\ Ever # {} => \E i \in alive : Lowest(i)

\* Who has settled among several ids knows that all runs have created theirs, and
\* who has settled on an id holds the lowest one, with no create to come.
Settled(r) ==
    /\ run[r].pc \in {"poll", "delete"} => Created(r, run[r].id) /\ run[r].id \in alive
    /\ run[r].pc \in {"delete", "await"} => Created(r, run[r].id) /\ listed = alive /\ AllCreated
    /\ run[r].pc = "delete" => ~ Lowest(run[r].id)
    /\ run[r].pc = "await" /\ run[r].id \in alive => Lowest(run[r].id)
    /\ run[r].pc \in {"adopt", "get", "push", "holding", "published"} =>
         /\ listed = alive /\ run[r].id \in alive /\ Lowest(run[r].id)
         /\ \A q \in Runners : run[q].pc # "post"

PairInv == OnePerRun /\ \A r \in Runners : Settled(r)

\* Without failing calls: the one way to fail is that the loser is slow to delete,
\* and then the winner's specification stands; what is not the lowest has a run
\* that is going to delete it.
Stands(r) ==
    /\ run[r].id \in alive /\ Created(r, run[r].id) /\ Lowest(run[r].id)
    /\ listed = alive /\ AllCreated /\ \E q \in Runners : q # r
GoesAway(i) == run[creator[i]].pc \in {"poll", "delete"}

NoFaultInv ==
    /\ \A r \in Runners : run[r].pc = "failed" => Stands(r)
    /\ \A i \in alive : Lowest(i) \/ GoesAway(i)

Got == {"adopt", "get", "push", "holding", "published"}

-----------------------------------------------------------------------------
(* Counting what is listed *)

LEMMA PairCover ==
    ASSUME PairTiming, NEW x \in Runners, NEW y \in Runners, NEW z \in Runners, x # y
    PROVE  z = x \/ z = y
BY DEF PairTiming

LEMMA CreatorOf == ASSUME TypeOK, NEW i \in Ever PROVE i \in Ids /\ creator[i] \in Runners
BY DEF TypeOK, Ever

\* Any third id has the creator of one of two different ones.
LEMMA NoThird ==
    ASSUME TypeOK, PairTiming, OnePerRun, NEW x \in Ever, NEW y \in Ever, x # y
    PROVE  Ever = {x, y} /\ AllCreated
<1>1. creator[x] # creator[y]
  BY DEF OnePerRun
<1>2. \A z \in Ever : z = x \/ z = y
  BY <1>1, CreatorOf, PairCover DEF OnePerRun
<1>3. AllCreated
  BY <1>1, CreatorOf, PairCover DEF AllCreated
<1> QED
  BY <1>2, <1>3

LEMMA FiniteEver == ASSUME TypeOK, PairTiming, OnePerRun PROVE IsFiniteSet(Ever)
<1>1. CASE Ever = {}
  BY <1>1, FS_EmptySet
<1>2. CASE \E x \in Ever : Ever = {x}
  BY <1>2, FS_Singleton
<1>3. CASE \E x, y \in Ever : x # y
  <2>1. PICK x, y \in Ever : x # y
    BY <1>3
  <2>2. Ever = {x} \cup {y}
    BY <2>1, NoThird
  <2>3. IsFiniteSet({x}) /\ IsFiniteSet({y})
    BY FS_Singleton
  <2> QED
    BY <2>2, <2>3, FS_Union
<1> QED
  BY <1>1, <1>2, <1>3

LEMMA Counted ==
    ASSUME TypeOK, PairTiming, OnePerRun
    PROVE  /\ Cardinality(listed) \in Nat
           /\ Cardinality(listed) = 1 => \E x : listed = {x}
           /\ Cardinality(listed) > 1 => \E x, y \in listed : x # y
           /\ \A x, y \in listed : x # y => Cardinality(listed) > 1
<1>1. IsFiniteSet(listed) /\ Cardinality(listed) \in Nat
  <2>1. listed \in SUBSET Ever
    BY DEF TypeOK
  <2>2. IsFiniteSet(listed)
    BY <2>1, FiniteEver, FS_Subset
  <2> QED
    BY <2>2, FS_CardinalityType
<1>2. (Cardinality(listed) = 0 <=> listed = {}) /\ (Cardinality(listed) = 1 <=> \E x : listed = {x})
  BY <1>1, FS_EmptySet, FS_Singleton
<1>3. Cardinality(listed) = 0 \/ Cardinality(listed) = 1 \/ Cardinality(listed) > 1
  BY <1>1, SMT
<1>4. Cardinality(listed) > 1 => Cardinality(listed) # 0 /\ Cardinality(listed) # 1
  BY <1>1, SMT
<1>5. \A x, y \in listed : x # y => Cardinality(listed) > 1
  BY <1>2, <1>3
<1>6. Cardinality(listed) > 1 => \E x, y \in listed : x # y
  <2> SUFFICES ASSUME Cardinality(listed) > 1, ~ \E x, y \in listed : x # y PROVE FALSE
    OBVIOUS
  <2>1. listed # {}
    BY <1>2, <1>4
  <2>2. PICK x : x \in listed
    BY <2>1
  <2>3. listed = {x}
    BY <2>2
  <2> QED
    BY <1>2, <1>4, <2>3
<1> QED
  BY <1>1, <1>2, <1>5, <1>6

\* The lowest id of all is unique, and the one to be elected of a full list.
LEMMA LowestUnique ==
    ASSUME TypeOK, NEW i \in Ever, NEW j \in Ever, Lowest(i), Lowest(j) PROVE i = j
<1>1. i <= j /\ j <= i
  BY DEF Lowest
<1>2. i \in Nat /\ j \in Nat
  BY CreatorOf, IdsAssumption
<1> QED
  BY <1>1, <1>2, SMT

LEMMA ElectsLowest ==
    ASSUME TypeOK, PairInv, listed = alive, Ever # {}
    PROVE  /\ listed # {} /\ Min(listed) \in listed /\ Lowest(Min(listed))
           /\ \A i \in Ever : i # Min(listed) => ~ Lowest(i)
<1>1. PICK i \in alive : Lowest(i)
  BY DEF PairInv, OnePerRun
<1>2. listed \in SUBSET Nat /\ listed # {} /\ listed \subseteq Ever /\ i \in listed
  BY <1>1, CreatorOf, IdsAssumption DEF TypeOK
<1>3. Min(listed) \in listed /\ Min(listed) <= i
  BY <1>2, MinInNat
<1>4. i <= Min(listed) /\ i \in Nat /\ Min(listed) \in Nat
  BY <1>1, <1>2, <1>3 DEF Lowest
<1>5. Min(listed) = i
  BY <1>3, <1>4, SMT
<1> QED
  BY <1>1, <1>2, <1>3, <1>5, LowestUnique

-----------------------------------------------------------------------------
(* The steps *)

LEMMA GotoFields ==
    ASSUME TypeOK, NEW r \in Runners, NEW stage, Goto(r, stage)
    PROVE  /\ run'[r].pc = stage /\ run'[r].id = run[r].id
           /\ \A q \in Runners \ {r} : run'[q] = run[q]
<1>1. run \in [Runners -> RunState] /\ run[r] \in RunState
  BY DEF TypeOK
<1>2. run'[r] = [run[r] EXCEPT !.pc = stage]
  BY <1>1 DEF Goto
<1>3. run'[r].pc = stage /\ run'[r].id = run[r].id
  BY <1>1, <1>2, SMT DEF RunState
<1> QED
  BY <1>1, <1>3 DEF Goto

\* A step of r that only reads Spec Hub.
LEMMA ReadStep ==
    ASSUME TypeOK, PairInv, NEW r \in Runners, UNCHANGED <<alive, listed, creator, late>>,
           \A q \in Runners \ {r} : run'[q] = run[q],
           run'[r].pc \notin {"find", "recover", "rollback"},
           run'[r].pc \in {"adopt", "post"} => \A i \in Ever : creator[i] # r,
           run'[r].pc = "post" => \A q \in Runners \ {r} : run[q].pc \notin Got,
           Settled(r)'
    PROVE  PairInv'
<1>1. Ever' = Ever
  BY DEF Ever
<1>2. \A i : Lowest(i)' <=> Lowest(i)
  BY <1>1 DEF Lowest
<1>3. OnePerRun'
  <2>1. \A i \in Ever : run'[creator[i]].pc \notin {"find", "adopt", "post"}
    BY CreatorOf DEF PairInv, OnePerRun
  <2>2. \A q \in Runners : run'[q].pc \notin {"recover", "rollback"}
    BY DEF PairInv, OnePerRun
  <2> QED
    BY <1>1, <1>2, <2>1, <2>2 DEF PairInv, OnePerRun, Lowest
<1>4. ASSUME NEW q \in Runners, q # r PROVE Settled(q)'
  <2>1. Settled(q) /\ run'[q] = run[q]
    BY <1>4 DEF PairInv
  <2>2. run[q].pc \in Got => \A p \in Runners : run'[p].pc # "post"
    BY <2>1, <1>4 DEF Settled, Got
  <2> QED
    BY <1>1, <1>2, <2>1, <2>2 DEF Settled, Created, AllCreated, Got, Lowest
<1> QED
  BY <1>3, <1>4 DEF PairInv

LEMMA FailStep ==
    ASSUME TypeOK, PairInv, NEW r \in Runners, UNCHANGED <<alive, listed, creator, late>>,
           Goto(r, "failed")
    PROVE  PairInv'
<1>1. run'[r].pc = "failed" /\ \A q \in Runners \ {r} : run'[q] = run[q]
  BY GotoFields
<1>2. Settled(r)'
  BY <1>1 DEF Settled
<1> QED
  BY <1>1, <1>2, ReadStep

\* What a run has found is the lowest of what its peer has created and it
\* will not create one itself.
LEMMA FindResult ==
    ASSUME TypeOK, PairTiming, PairInv, NEW r \in Runners, FindBefore(r)
    PROVE  /\ PairInv' /\ run'[r].pc \in {"post", "adopt"}
<1>1. /\ run[r].pc = "find" /\ UNCHANGED <<alive, listed, creator, late>>
      /\ run \in [Runners -> RunState] /\ run[r] \in RunState /\ OnePerRun
      /\ \A i \in Ever : creator[i] # r
  BY DEF FindBefore, At, Server, TypeOK, PairInv, OnePerRun
<1>2. \A x, y \in Ever : x = y
  BY <1>1, NoThird DEF AllCreated
<1>3. listed \subseteq alive /\ alive \subseteq Ever
  BY DEF TypeOK
<1>4. Cardinality(listed) = 0 \/ Cardinality(listed) = 1 \/ Cardinality(listed) > 1
  BY <1>1, Counted, SMT
<1>5. ~ (Cardinality(listed) > 1)
  BY <1>1, <1>2, <1>3, Counted
<1>6. CASE listed = {} /\ Goto(r, "post")
  <2>1. run'[r].pc = "post" /\ \A q \in Runners \ {r} : run'[q] = run[q]
    BY <1>6, GotoFields
  <2>2. \A q \in Runners : run[q].pc \notin Got
    BY <1>6 DEF PairInv, Settled, Got
  <2>3. Settled(r)'
    BY <2>1 DEF Settled
  <2> QED
    BY <1>1, <2>1, <2>2, <2>3, ReadStep
<1>7. CASE /\ Cardinality(listed) = 1
           /\ run' = [run EXCEPT ![r].pc = "adopt", ![r].id = Min(listed)]
  <2>1. PICK x : listed = {x}
    BY <1>1, <1>7, Counted
  <2>2. listed = alive /\ Ever # {}
    BY <1>2, <1>3, <2>1
  <2>3. Min(listed) \in alive /\ Lowest(Min(listed))
    BY <2>2, ElectsLowest
  <2>4. /\ run'[r].pc = "adopt" /\ run'[r].id = Min(listed)
        /\ \A q \in Runners \ {r} : run'[q] = run[q]
    BY <1>1, <1>7, SMT DEF RunState
  <2>5. \A q \in Runners : run'[q].pc # "post"
    <3>1. PICK p \in Runners : x \in Ever /\ creator[x] = p
      BY <2>1, <1>3, CreatorOf
    <3>2. p # r /\ run[p].pc # "post"
      BY <1>1, <3>1 DEF OnePerRun
    <3> QED
      BY <2>4, <3>1, <3>2, PairCover
  <2>6. Settled(r)'
    <3>1. Lowest(run[r].id)'
      BY <1>1, <2>3, <2>4 DEF Lowest, Ever
    <3> QED
      BY <1>1, <2>2, <2>3, <2>4, <2>5, <3>1 DEF Settled
  <2> QED
    BY <1>1, <2>4, <2>6, ReadStep
<1> QED
  BY <1>5, <1>6, <1>7 DEF FindBefore

\* The create answers: no run has settled yet.
LEMMA PostResult ==
    ASSUME TypeOK, PairInv, NEW r \in Runners, Post(r)
    PROVE  /\ PairInv'
           /\ \A q \in Runners : run[q].pc \notin Got \cup {"delete", "await"} /\ ~ AllCreated
           /\ \E i \in Ids \ Ever : /\ Ever' = Ever \cup {i} /\ alive' = alive \cup {i}
                                    /\ creator'[i] = r
           /\ \A j \in Ever : creator'[j] = creator[j]
           /\ run'[r].pc = "poll" /\ \A q \in Runners \ {r} : run'[q] = run[q]
<1>1. /\ run[r].pc = "post" /\ UNCHANGED late /\ OnePerRun
      /\ run \in [Runners -> RunState] /\ run[r] \in RunState
  BY DEF Post, At, TypeOK, PairInv
<1>2. \A i \in Ever : creator[i] # r
  BY <1>1 DEF OnePerRun
<1>3. ~ AllCreated
  BY <1>2 DEF AllCreated
<1>4. \A q \in Runners : run[q].pc \notin Got \cup {"delete", "await"}
  BY <1>1, <1>3 DEF PairInv, Settled, Got
<1>5. PICK i \in Ids : /\ Create(r, i)
                       /\ run' = [run EXCEPT ![r].pc = "poll", ![r].id = i, ![r].mine = TRUE]
  BY DEF Post
<1>6. /\ creator'[i] = r /\ i \notin Ever /\ \A j \in Ids \ {i} : creator'[j] = creator[j]
      /\ Ever' = Ever \cup {i} /\ alive' = alive \cup {i}
  BY <1>5, CreateOK
<1>7. /\ run'[r].pc = "poll" /\ run'[r].id = i /\ \A q \in Runners \ {r} : run'[q] = run[q]
  BY <1>1, <1>5, SMT DEF RunState
<1>8. \A j \in Ever : creator'[j] = creator[j] /\ j # i
  BY <1>6, CreatorOf
<1>9. \E k \in alive' : \A j \in Ever' : k <= j
  <2>0. i \in Nat /\ Ever \subseteq Nat
    BY IdsAssumption, CreatorOf
  <2>1. CASE Ever = {}
    BY <1>6, <2>0, <2>1, SMT
  <2>2. CASE Ever # {}
    <3>1. PICK k \in alive : Lowest(k)
      BY <1>1, <2>2 DEF OnePerRun
    <3>2. k \in Nat /\ \A j \in Ever : k <= j
      BY <2>0, <3>1 DEF TypeOK, Lowest
    <3>3. CASE k <= i
      BY <1>6, <3>2, <3>3
    <3>4. CASE ~ (k <= i)
      <4>1. i <= k
        BY <2>0, <3>2, <3>4, SMT
      <4>2. \A j \in Ever : i <= j
        BY <2>0, <3>2, <4>1, SMT
      <4> QED
        BY <1>6, <2>0, <4>2, SMT
    <3> QED
      BY <3>3, <3>4
  <2> QED
    BY <2>1, <2>2
<1>10. OnePerRun'
  <2>1. \A x, y \in Ever' : creator'[x] = creator'[y] => x = y
    BY <1>1, <1>2, <1>6, <1>8 DEF OnePerRun
  <2>2. \A x \in Ever' : run'[creator'[x]].pc \notin {"find", "adopt", "post"}
    BY <1>1, <1>2, <1>6, <1>7, <1>8, CreatorOf DEF OnePerRun
  <2>3. \A q \in Runners : run'[q].pc \notin {"recover", "rollback"}
    BY <1>1, <1>7 DEF OnePerRun
  <2> QED
    BY <1>1, <1>9, <2>1, <2>2, <2>3 DEF OnePerRun, Lowest
<1>11. Settled(r)'
  BY <1>6, <1>7 DEF Settled, Created
<1>12. ASSUME NEW q \in Runners, q # r PROVE Settled(q)'
  <2>1. Settled(q) /\ run'[q] = run[q] /\ run[q].pc \notin Got \cup {"delete", "await"}
    BY <1>4, <1>7, <1>12 DEF PairInv
  <2>2. CASE run[q].pc = "poll"
    <3>1. Created(q, run[q].id) /\ run[q].id \in alive
      BY <2>1, <2>2 DEF Settled
    <3>2. run[q].id \in alive' /\ Created(q, run[q].id)'
      BY <1>6, <1>8, <2>1, <3>1 DEF Created, TypeOK
    <3> QED
      BY <2>1, <2>2, <3>2 DEF Settled
  <2>3. CASE run[q].pc # "poll"
    BY <2>1, <2>3 DEF Settled, Got
  <2> QED
    BY <2>2, <2>3
<1>13. PairInv'
  BY <1>10, <1>11, <1>12 DEF PairInv
<1> QED
  BY <1>3, <1>4, <1>6, <1>7, <1>8, <1>13

\* A poll either goes on, or has seen both ids, or nothing else can come and its
\* own id is the only one.
LEMMA PollSettles ==
    ASSUME TypeOK, PairTiming, PairInv, NEW r \in Runners, Poll(r)
    PROVE  /\ run'[r].id = run[r].id
           /\ \/ run'[r].pc = "poll"
              \/ /\ run'[r].pc \in {"delete", "await"} /\ listed = alive /\ AllCreated
                 /\ run'[r].pc = "delete" <=> ~ Lowest(run[r].id)
              \/ /\ run'[r].pc = "get" /\ listed = {run[r].id} /\ alive = listed
                 /\ Lowest(run[r].id) /\ \A q \in Runners : run[q].pc # "post"
<1> DEFINE id == run[r].id
<1>1. /\ run[r].pc = "poll" /\ OnePerRun /\ run \in [Runners -> RunState] /\ run[r] \in RunState
      /\ listed \subseteq alive /\ alive \subseteq Ever
  BY DEF Poll, At, PairInv, TypeOK
<1>2. Created(r, id) /\ id \in alive /\ id \in Ever
  BY <1>1 DEF PairInv, Settled
<1>3. CASE ~ Settles(r, listed)
  <2>1. run' = [run EXCEPT ![r] = Observed(r, listed)]
    BY <1>3 DEF Poll
  <2>2. run'[r] = Observed(r, listed)
    BY <1>1, <2>1
  <2>3. Observed(r, listed).pc = "poll" /\ Observed(r, listed).id = id
    BY <1>1 DEF Observed, RunState
  <2> QED
    BY <2>2, <2>3
<1>4. CASE Settles(r, listed)
  <2> DEFINE o == Observed(r, listed)
             m == o.mine /\ ElectedId(r, listed) = run[r].id
  <2>1. run' = [run EXCEPT ![r] =
                     [o EXCEPT !.pc = AfterElection(r, listed), !.id = ElectedId(r, listed),
                               !.mine = m, !.poll = 0, !.last = {}, !.streak = 0]]
    BY <1>4 DEF Poll
  <2>2. o \in RunState
    BY ObservedOK
  <2>3. run'[r].pc = AfterElection(r, listed) /\ run'[r].id = ElectedId(r, listed)
    <3> HIDE DEF o, m
    <3> QED
      BY <1>1, <2>1, <2>2 DEF RunState
  <2>4. CASE Cardinality(listed) > 1
    <3>1. PICK x, y \in listed : x # y
      BY <1>1, <2>4, Counted
    <3>2. Ever = {x, y} /\ AllCreated
      BY <1>1, <3>1, NoThird
    <3>3. listed = alive /\ id \in listed
      BY <1>1, <1>2, <3>1, <3>2
    <3>4. Cardinality(listed) # 1
      BY <1>1, <2>4, Counted, SMT
    <3>5. run'[r].id = id
      BY <2>3, <3>4 DEF ElectedId
    <3>6. id # Min(listed) <=> ~ Lowest(id)
      BY <1>2, <3>3, ElectsLowest
    <3>7. run'[r].pc = IF id # Min(listed) THEN "delete" ELSE "await"
      BY <2>3, <2>4, <3>3 DEF AfterElection
    <3> QED
      BY <3>2, <3>3, <3>5, <3>6, <3>7
  <2>5. CASE ~ (Cardinality(listed) > 1)
    <3>1. run[r].poll \in Nat
      BY <1>1, SMT DEF RunState
    <3>2. ~ (run[r].poll < Window)
      BY <1>4, <2>5, <3>1, FlagsAssumption, SMT DEF Settles, PairTiming
    <3>3. Pending = {}
      BY <3>2 DEF Poll
    <3>4. \A q \in Runners : run[q].pc # "post"
      BY <3>3 DEF Pending, At
    <3>5. alive \subseteq listed
      BY <1>1, <3>3, CreatorOf DEF Pending
    <3>6. listed = {id} /\ alive = listed
      BY <1>1, <1>2, <2>5, <3>5, Counted
    <3>7. Cardinality(listed) = 1
      BY <3>6, FS_Singleton
    <3>8. Min(listed) = id /\ Lowest(id)
      BY <1>2, <3>6, ElectsLowest
    <3>9. run'[r].id = id /\ run'[r].pc = "get"
      BY <2>3, <2>5, <3>6, <3>7, <3>8 DEF ElectedId, AfterElection
    <3> QED
      BY <3>4, <3>6, <3>8, <3>9
  <2> QED
    BY <2>4, <2>5
<1> QED
  BY <1>3, <1>4

LEMMA PollKeeps ==
    ASSUME TypeOK, PairTiming, PairInv, NEW r \in Runners, Poll(r) PROVE PairInv'
<1>1. /\ UNCHANGED <<alive, listed, creator, late>> /\ \A q \in Runners \ {r} : run'[q] = run[q]
      /\ Created(r, run[r].id) /\ run[r].id \in alive
  BY StepFrame DEF Poll, Server, Step, PairInv, Settled, At
<1>2. /\ run'[r].id = run[r].id
      /\ \/ run'[r].pc = "poll"
         \/ /\ run'[r].pc \in {"delete", "await"} /\ listed = alive /\ AllCreated
            /\ run'[r].pc = "delete" <=> ~ Lowest(run[r].id)
         \/ /\ run'[r].pc = "get" /\ listed = {run[r].id} /\ alive = listed
            /\ Lowest(run[r].id) /\ \A q \in Runners : run[q].pc # "post"
  BY PollSettles
<1>3. (Lowest(run[r].id)' <=> Lowest(run[r].id)) /\ Created(r, run[r].id)' /\ (AllCreated => AllCreated')
  BY <1>1, <1>2 DEF Lowest, Ever, Created, AllCreated
<1>4. run'[r].pc = "get" => \A q \in Runners : run'[q].pc # "post"
  BY <1>1, <1>2
<1>5. Settled(r)'
  BY <1>1, <1>2, <1>3, <1>4 DEF Settled
<1> QED
  BY <1>1, <1>2, <1>5, ReadStep

LEMMA DeleteKeeps ==
    ASSUME TypeOK, PairInv, NEW r \in Runners, DeleteLoser(r)
    PROVE  /\ PairInv' /\ run'[r].pc = "await" /\ alive' = alive \ {run[r].id}
           /\ Created(r, run[r].id) /\ ~ Lowest(run[r].id) /\ UNCHANGED creator
           /\ listed = alive /\ listed' = alive' /\ \A q \in Runners \ {r} : run'[q] = run[q]
<1> DEFINE id == run[r].id
<1>1. /\ run[r].pc = "delete" /\ OnePerRun /\ UNCHANGED <<creator, late>>
      /\ alive' = alive \ {id} /\ listed' = listed \ {id} /\ alive \subseteq Ever
  BY DEF DeleteLoser, DeleteSpec, At, PairInv, TypeOK
<1>2. Created(r, id) /\ id \in alive /\ listed = alive /\ AllCreated /\ ~ Lowest(id)
  BY <1>1 DEF PairInv, Settled
<1>3. run'[r].pc = "await" /\ run'[r].id = id /\ \A q \in Runners \ {r} : run'[q] = run[q]
  BY GotoFields DEF DeleteLoser
<1>4. Ever' = Ever /\ (AllCreated' <=> AllCreated) /\ \A i \in Ever : Lowest(i)' <=> Lowest(i)
  BY <1>1 DEF Ever, AllCreated, Lowest
<1>5. OnePerRun'
  <2>1. \E i \in alive' : Lowest(i)
    BY <1>1, <1>2 DEF OnePerRun
  <2>2. \A i \in Ever : run'[creator[i]].pc \notin {"find", "adopt", "post"}
    BY <1>1, <1>3, CreatorOf DEF OnePerRun
  <2>3. \A q \in Runners : run'[q].pc \notin {"recover", "rollback"}
    BY <1>1, <1>3 DEF OnePerRun
  <2> QED
    BY <1>1, <1>4, <2>1, <2>2, <2>3 DEF OnePerRun, Lowest
<1>6. Settled(r)'
  BY <1>1, <1>2, <1>3, <1>4 DEF Settled, Created
<1>7. ASSUME NEW q \in Runners, q # r PROVE Settled(q)'
  <2>1. Settled(q) /\ run'[q] = run[q]
    BY <1>3, <1>7 DEF PairInv
  <2>2. run[q].pc \in {"poll", "delete"} => Created(q, run[q].id)' /\ run[q].id \in alive'
    BY <1>1, <1>2, <1>7, <2>1 DEF Settled, Created
  <2>3. run[q].pc \in {"delete", "await"} => Created(q, run[q].id)' /\ AllCreated'
    BY <1>1, <1>4, <2>1 DEF Settled, Created
  <2>4. run[q].pc = "delete" => ~ Lowest(run[q].id)'
    BY <1>4, <2>1 DEF Settled, Lowest
  <2>5. run[q].pc = "await" /\ run[q].id \in alive' => Lowest(run[q].id)'
    BY <1>1, <1>4, <2>1 DEF Settled, Lowest
  <2>6. run[q].pc \in Got => /\ run[q].id \in alive' /\ Lowest(run[q].id)'
                             /\ \A p \in Runners : run'[p].pc # "post"
    BY <1>1, <1>2, <1>3, <1>4, <2>1 DEF Settled, Got, Lowest
  <2> QED
    BY <1>1, <1>2, <2>1, <2>2, <2>3, <2>4, <2>5, <2>6 DEF Settled, Got
<1>8. PairInv'
  BY <1>5, <1>6, <1>7 DEF PairInv
<1> QED
  BY <1>1, <1>2, <1>3, <1>8

\* A wait ends with the lowest id, or in a failure of the run that has it.
LEMMA AwaitResult ==
    ASSUME TypeOK, PairTiming, PairInv, NEW r \in Runners, AwaitPeers(r)
    PROVE  /\ PairInv' /\ run'[r].pc \in {"get", "push", "await", "failed"}
           /\ run'[r].pc \in {"get", "push"} => Lowest(run'[r].id)
           /\ run'[r].pc = "failed" => run'[r].id = run[r].id /\ Stands(r)
<1>1. /\ run[r].pc = "await" /\ OnePerRun /\ UNCHANGED <<alive, listed, creator, late>>
      /\ run \in [Runners -> RunState] /\ run[r] \in RunState /\ alive \subseteq Ever
  BY DEF AwaitPeers, At, Server, PairInv, TypeOK
<1>2. /\ Created(r, run[r].id) /\ listed = alive /\ AllCreated /\ run[r].id \in Ever
      /\ run[r].id \in alive => Lowest(run[r].id)
  BY <1>1, IdsAssumption DEF PairInv, Settled, Created, Ever
<1>3. listed # {} /\ Min(listed) \in listed /\ Lowest(Min(listed))
  BY <1>2, ElectsLowest
<1>4. Step(r)
  BY DEF Step
<1>5. \A q \in Runners \ {r} : run'[q] = run[q]
  BY <1>4, StepFrame
<1> DEFINE g == IF listed = {run[r].id} THEN "get" ELSE "push"
           m == run[r].mine /\ listed = {run[r].id}
           f == IF run[r].tries + 1 >= MaxAwaits THEN "failed" ELSE "await"
<1>6. CASE run' = [run EXCEPT ![r].pc = g, ![r].id = Min(listed), ![r].shared = TRUE,
                              ![r].mine = m, ![r].tries = 0]
  <2>1. g \in {"get", "push"}
    OBVIOUS
  <2>2. run'[r].pc = g /\ run'[r].id = Min(listed)
    <3> HIDE DEF g, m
    <3> QED
      BY <1>1, <1>6, SMT DEF RunState
  <2>3. \A q \in Runners : run'[q].pc # "post"
    <3>1. \A q \in Runners : run[q].pc # "post"
      BY <1>1, <1>2 DEF AllCreated, OnePerRun
    <3> QED
      BY <1>5, <2>1, <2>2, <3>1
  <2>4. Lowest(run[r].id)'
    BY <1>1, <1>3, <2>2 DEF Lowest, Ever
  <2>5. Settled(r)'
    BY <1>1, <1>2, <1>3, <2>1, <2>2, <2>3, <2>4 DEF Settled
  <2>6. PairInv'
    BY <1>1, <1>5, <2>1, <2>2, <2>5, ReadStep
  <2> QED
    BY <1>3, <2>1, <2>2, <2>6
<1>7. CASE Cardinality(listed) > 1 /\ run' = [run EXCEPT ![r].tries = @ + 1, ![r].pc = f]
  <2>1. f \in {"failed", "await"}
    OBVIOUS
  <2>2. run'[r].pc = f /\ run'[r].id = run[r].id
    <3> HIDE DEF f
    <3> QED
      BY <1>1, <1>7, SMT DEF RunState
  <2>3. PICK x, y \in listed : x # y
    BY <1>1, <1>7, Counted
  <2>4. run[r].id \in alive /\ Lowest(run[r].id)
    <3>1. Ever = {x, y}
      BY <1>1, <1>2, <2>3, NoThird
    <3> QED
      BY <1>2, <2>3, <3>1
  <2>5. Settled(r)'
    <3>1. Lowest(run[r].id)' /\ Created(r, run[r].id)' /\ AllCreated'
      BY <1>1, <1>2, <2>2, <2>4 DEF Lowest, Created, AllCreated, Ever
    <3> QED
      BY <1>1, <1>2, <2>1, <2>2, <3>1 DEF Settled
  <2>6. PairInv'
    BY <1>1, <1>5, <2>1, <2>2, <2>5, ReadStep
  <2>7. \E q \in Runners : q # r
    <3>1. x \in Ever /\ y \in Ever
      BY <1>1, <1>2, <2>3
    <3>2. creator[x] # creator[y] /\ creator[x] \in Runners /\ creator[y] \in Runners
      BY <1>1, <2>3, <3>1, CreatorOf DEF OnePerRun
    <3> QED
      BY <3>2
  <2> QED
    BY <1>2, <2>1, <2>2, <2>4, <2>6, <2>7 DEF Stands
<1> QED
  BY <1>3, <1>6, <1>7 DEF AwaitPeers

\* A run that has settled goes on, because its specification exists.
LEMMA GotStep ==
    ASSUME TypeOK, PairInv, NEW r \in Runners,
           AdoptExisting(r) \/ PushToWinner(r) \/ ReadBack(r) \/ Publish(r)
    PROVE  /\ PairInv' /\ run[r].pc \in Got /\ run'[r].pc \in Got \ {"adopt"} /\ run'[r].id = run[r].id
           /\ UNCHANGED <<alive, listed, creator>>
<1>1. /\ run[r].pc \in Got /\ UNCHANGED <<alive, listed, creator, late>>
      /\ run \in [Runners -> RunState] /\ run[r] \in RunState
  BY DEF AdoptExisting, PushToWinner, ReadBack, Publish, At, Server, Got, TypeOK
<1>2. /\ listed = alive /\ run[r].id \in alive /\ Lowest(run[r].id)
      /\ \A q \in Runners : run[q].pc # "post"
  BY <1>1 DEF PairInv, Settled, Got
<1>3. Step(r)
  BY DEF Step
<1>4. \A q \in Runners \ {r} : run'[q] = run[q]
  BY <1>3, StepFrame
<1>5. run'[r].pc \in Got \ {"adopt"} /\ run'[r].id = run[r].id
  <2>1. ASSUME NEW stage \in Got \ {"adopt"}, Goto(r, stage)
        PROVE  run'[r].pc \in Got \ {"adopt"} /\ run'[r].id = run[r].id
    BY <2>1, GotoFields
  <2>2. CASE ReadBack(r)
    <3> DEFINE o == run[r].mine /\ ~run[r].shared
    <3>1. run' = [run EXCEPT ![r].pc = "holding", ![r].owned = o]
      BY <1>2, <2>2 DEF ReadBack
    <3> HIDE DEF o
    <3> QED
      BY <1>1, <3>1, SMT DEF RunState, Got
  <2>3. CASE AdoptExisting(r) \/ PushToWinner(r) \/ Publish(r)
    BY <1>2, <2>1, <2>3 DEF AdoptExisting, PushToWinner, Publish, Got
  <2> QED
    BY <2>2, <2>3
<1>6. Settled(r)'
  <2>1. Lowest(run[r].id)'
    BY <1>1, <1>2, <1>5 DEF Lowest, Ever
  <2>2. \A q \in Runners : run'[q].pc # "post"
    BY <1>2, <1>4, <1>5 DEF Got
  <2> QED
    BY <1>1, <1>2, <1>5, <2>1, <2>2 DEF Settled, Got
<1>7. PairInv'
  BY <1>1, <1>4, <1>5, <1>6, ReadStep DEF Got
<1> QED
  BY <1>1, <1>5, <1>7

LEMMA ListedKeeps ==
    ASSUME TypeOK, PairInv, NEW i \in Ids, BecomeListed(i) PROVE PairInv'
<1>1. /\ UNCHANGED <<alive, creator, late, run>> /\ i \in alive \ listed /\ listed' = listed \cup {i}
      /\ OnePerRun
  BY DEF BecomeListed, PairInv
<1>2. Ever' = Ever
  BY <1>1 DEF Ever
<1>3. OnePerRun'
  BY <1>1, <1>2 DEF OnePerRun, Lowest
<1>4. ASSUME NEW r \in Runners PROVE Settled(r)'
  <2>1. Settled(r) /\ listed # alive
    BY <1>1 DEF PairInv
  <2>2. run[r].pc \notin {"delete", "await"} \cup Got
    BY <2>1 DEF Settled, Got
  <2> QED
    BY <1>1, <1>2, <2>1, <2>2 DEF Settled, Created, Got
<1> QED
  BY <1>3, <1>4 DEF PairInv

\* The steps that are possible under the assumptions.
LEMMA PairSteps ==
    ASSUME PairTiming, PairInv, Next
    PROVE  \/ \E r \in Runners : \/ FindBefore(r) \/ Post(r) \/ Poll(r) \/ DeleteLoser(r)
                                 \/ AwaitPeers(r) \/ Fault(r)
                                 \/ AdoptExisting(r) \/ PushToWinner(r) \/ ReadBack(r) \/ Publish(r)
           \/ \E i \in Ids : BecomeListed(i)
<1>1. \A r \in Runners : ~ PostAmbiguous(r) /\ ~ FailLate(r)
  BY DEF PairTiming, PostAmbiguous, FailLate
<1>2. \A r \in Runners : ~ Recover(r) /\ ~ RollBack(r) /\ ~ LandLate(r)
  BY DEF PairInv, OnePerRun, Recover, RollBack, LandLate, At
<1> QED
  BY <1>1, <1>2 DEF Next, Step

LEMMA PairKeeps == ASSUME PairTiming, TypeOK, PairInv, [Next]_vars PROVE PairInv'
<1>1. CASE UNCHANGED vars
  BY <1>1 DEF vars, PairInv, OnePerRun, Settled, Created, AllCreated, Lowest, Ever
<1>2. CASE \E r \in Runners : Fault(r)
  BY <1>2, FailStep DEF Fault
<1>3. CASE Next /\ ~ \E r \in Runners : Fault(r)
  BY <1>3, PairSteps, FindResult, PostResult, PollKeeps, DeleteKeeps, AwaitResult, GotStep, ListedKeeps
<1> QED
  BY <1>1, <1>2, <1>3

LEMMA PairStarts == Init => PairInv
<1> SUFFICES ASSUME Init PROVE PairInv
  OBVIOUS
<1>1. Ever = {} /\ late = {} /\ \A r \in Runners : run[r].pc = "find"
  BY DEF Init, Ever
<1> QED
  BY <1>1 DEF PairInv, OnePerRun, Settled

LEMMA PairInductive == ASSUME PairTiming PROVE Spec => [](TypeOK /\ PairInv)
<1>1. IInv => TypeOK
  BY DEF IInv
<1>2. TypeOK /\ PairInv /\ [Next]_vars => PairInv'
  BY PairKeeps
<1> QED
  BY <1>1, <1>2, PairStarts, Inductive, PTL DEF Spec

-----------------------------------------------------------------------------
(* Agreement *)

LEMMA HoldersHoldLowest == ASSUME TypeOK, PairInv PROVE HoldersAgree
<1>1. \A r \in Holders : run[r].id \in alive /\ Lowest(run[r].id) /\ r \in Runners
  BY DEF Holders, PairInv, Settled
<1>2. alive \subseteq Ever
  BY DEF TypeOK
<1> QED
  BY <1>1, <1>2, LowestUnique DEF HoldersAgree

\* Agreement at any time, whatever calls fail: every run that has a specification
\* id, from uploadSpecWithOutcome's return on, has the same one, and it exists.
THEOREM HoldersAlwaysAgree == ASSUME PairTiming PROVE Spec => []HoldersAgree
BY PairInductive, HoldersHoldLowest, PTL

-----------------------------------------------------------------------------
(* Without failing calls *)

\* A step of r that only reads Spec Hub, as NoFaultInv sees it.
LEMMA NoFaultRead ==
    ASSUME TypeOK, NoFaultInv, NEW r \in Runners, UNCHANGED <<alive, listed, creator>>,
           \A q \in Runners \ {r} : run'[q] = run[q],
           run'[r].pc = "failed" => run'[r].id = run[r].id /\ Stands(r),
           \A i \in alive : creator[i] = r => Lowest(i) \/ run'[r].pc \in {"poll", "delete"}
    PROVE  NoFaultInv'
<1>1. Ever' = Ever
  BY DEF Ever
<1>2. \A q \in Runners : Stands(q) /\ run'[q].id = run[q].id => Stands(q)'
  BY <1>1 DEF Stands, Created, Lowest, AllCreated
<1>3. \A q \in Runners : run'[q].pc = "failed" => Stands(q)'
  BY <1>2 DEF NoFaultInv
<1>4. ASSUME NEW i \in alive PROVE Lowest(i)' \/ GoesAway(i)'
  <2>1. creator[i] \in Runners
    BY CreatorOf DEF TypeOK
  <2>2. Lowest(i) => Lowest(i)'
    BY <1>1 DEF Lowest
  <2>3. CASE creator[i] = r
    BY <2>2, <2>3 DEF GoesAway
  <2>4. CASE creator[i] # r
    BY <2>1, <2>2, <2>4 DEF GoesAway, NoFaultInv
  <2> QED
    BY <2>3, <2>4
<1> QED
  BY <1>3, <1>4 DEF NoFaultInv

LEMMA NoFaultPost ==
    ASSUME TypeOK, PairInv, NoFaultInv, NEW r \in Runners, Post(r) PROVE NoFaultInv'
<1>1. /\ ~ AllCreated /\ \A q \in Runners : run[q].pc \notin Got \cup {"delete", "await"}
      /\ run'[r].pc = "poll" /\ \A q \in Runners \ {r} : run'[q] = run[q]
      /\ \A j \in Ever : creator'[j] = creator[j]
  BY PostResult
<1>2. PICK i \in Ids \ Ever : alive' = alive \cup {i} /\ creator'[i] = r
  BY PostResult
<1>3. \A q \in Runners : run[q].pc # "failed"
  BY <1>1 DEF NoFaultInv, Stands
<1>4. \A q \in Runners : run'[q].pc # "failed"
  BY <1>1, <1>3
<1>5. ASSUME NEW j \in alive PROVE GoesAway(j)'
  <2>1. j \in Ever /\ creator[j] \in Runners
    BY CreatorOf DEF TypeOK
  <2>2. /\ run[creator[j]].pc \notin Got \cup {"delete", "await", "failed"}
        /\ run[creator[j]].pc \notin {"find", "adopt", "post", "recover", "rollback"}
    BY <1>1, <1>3, <2>1 DEF PairInv, OnePerRun
  <2>3. run[creator[j]].pc \in Stages
    BY <2>1 DEF TypeOK, RunState
  <2>4. run[creator[j]].pc = "poll"
    BY <2>2, <2>3 DEF Stages, Got
  <2> QED
    BY <1>1, <2>1, <2>4 DEF GoesAway
<1>6. GoesAway(i)'
  BY <1>1, <1>2 DEF GoesAway
<1> QED
  BY <1>2, <1>4, <1>5, <1>6 DEF NoFaultInv

LEMMA NoFaultPoll ==
    ASSUME TypeOK, PairTiming, PairInv, NoFaultInv, NEW r \in Runners, Poll(r) PROVE NoFaultInv'
<1>1. /\ UNCHANGED <<alive, listed, creator>> /\ \A q \in Runners \ {r} : run'[q] = run[q]
      /\ Created(r, run[r].id) /\ run[r].id \in Ever /\ OnePerRun /\ alive \subseteq Ever
  BY StepFrame DEF Poll, Server, Step, PairInv, Settled, At, TypeOK
<1>2. run'[r].pc # "failed" /\ (run'[r].pc \in {"poll", "delete"} \/ Lowest(run[r].id))
  BY PollSettles
<1>3. \A i \in alive : creator[i] = r => i = run[r].id
  BY <1>1 DEF OnePerRun, Created
<1> QED
  BY <1>1, <1>2, <1>3, NoFaultRead

LEMMA NoFaultDelete ==
    ASSUME TypeOK, PairInv, NoFaultInv, NEW r \in Runners, DeleteLoser(r) PROVE NoFaultInv'
<1> DEFINE id == run[r].id
<1>1. /\ run'[r].pc = "await" /\ alive' = alive \ {id} /\ UNCHANGED creator
      /\ Created(r, id) /\ ~ Lowest(id) /\ listed = alive /\ listed' = alive'
      /\ \A q \in Runners \ {r} : run'[q] = run[q]
  BY DeleteKeeps
<1>2. id \in Ever /\ OnePerRun /\ alive \subseteq Ever
  BY DEF DeleteLoser, At, PairInv, Settled, TypeOK
<1>3. Ever' = Ever
  BY <1>1 DEF Ever
<1>4. ASSUME NEW q \in Runners, run'[q].pc = "failed" PROVE Stands(q)'
  <2>1. q # r /\ run'[q] = run[q] /\ Stands(q)
    BY <1>1, <1>4 DEF NoFaultInv
  <2>2. run[q].id # id
    BY <1>1, <2>1 DEF Stands
  <2> QED
    BY <1>1, <1>3, <2>1, <2>2 DEF Stands, Created, Lowest, AllCreated
<1>5. ASSUME NEW i \in alive' PROVE Lowest(i)' \/ GoesAway(i)'
  <2>1. i \in alive /\ i # id /\ i \in Ever /\ creator[i] \in Runners /\ creator[i] # r
    BY <1>1, <1>2, CreatorOf DEF OnePerRun, Created
  <2>2. Lowest(i) \/ GoesAway(i)
    BY <2>1 DEF NoFaultInv
  <2> QED
    BY <1>1, <1>3, <2>1, <2>2 DEF Lowest, GoesAway
<1> QED
  BY <1>4, <1>5 DEF NoFaultInv

\* A creator that has left its polls has the lowest id already.
LEMMA NoFaultGot ==
    ASSUME TypeOK, PairInv, NoFaultInv, NEW r \in Runners,
           AdoptExisting(r) \/ PushToWinner(r) \/ ReadBack(r) \/ Publish(r)
    PROVE  NoFaultInv'
<1>1. /\ run[r].pc \in Got /\ run'[r].pc \in Got \ {"adopt"} /\ UNCHANGED <<alive, listed, creator>>
  BY GotStep
<1>2. \A q \in Runners \ {r} : run'[q] = run[q]
  BY StepFrame DEF Step
<1>3. \A i \in alive : creator[i] = r => Lowest(i)
  BY <1>1 DEF NoFaultInv, GoesAway, Got
<1> QED
  BY <1>1, <1>2, <1>3, NoFaultRead DEF Got

LEMMA NoFaultAwait ==
    ASSUME TypeOK, PairTiming, PairInv, NoFaultInv, NEW r \in Runners, AwaitPeers(r)
    PROVE  NoFaultInv'
<1>1. run[r].pc = "await" /\ UNCHANGED <<alive, listed, creator>>
  BY DEF AwaitPeers, At, Server
<1>2. \A q \in Runners \ {r} : run'[q] = run[q]
  BY StepFrame DEF Step
<1>3. \A i \in alive : creator[i] = r => Lowest(i)
  BY <1>1 DEF NoFaultInv, GoesAway
<1>4. run'[r].pc = "failed" => run'[r].id = run[r].id /\ Stands(r)
  BY AwaitResult
<1> QED
  BY <1>1, <1>2, <1>3, <1>4, NoFaultRead

LEMMA NoFaultFind ==
    ASSUME TypeOK, PairTiming, PairInv, NoFaultInv, NEW r \in Runners, FindBefore(r)
    PROVE  NoFaultInv'
<1>1. run[r].pc = "find" /\ UNCHANGED <<alive, listed, creator>> /\ OnePerRun /\ alive \subseteq Ever
  BY DEF FindBefore, At, Server, PairInv, TypeOK
<1>2. \A q \in Runners \ {r} : run'[q] = run[q]
  BY StepFrame DEF Step
<1>3. \A i \in alive : creator[i] # r
  BY <1>1 DEF OnePerRun
<1>4. run'[r].pc # "failed"
  BY FindResult
<1> QED
  BY <1>1, <1>2, <1>3, <1>4, NoFaultRead

LEMMA NoFaultListed ==
    ASSUME TypeOK, NoFaultInv, NEW i \in Ids, BecomeListed(i) PROVE NoFaultInv'
<1>1. UNCHANGED <<alive, creator, run>> /\ listed # alive
  BY DEF BecomeListed
<1>2. \A r \in Runners : run[r].pc # "failed"
  BY <1>1 DEF NoFaultInv, Stands
<1> QED
  BY <1>1, <1>2 DEF NoFaultInv, GoesAway, Lowest, Ever

LEMMA NoFaultKeeps ==
    ASSUME PairTiming, MaxFaults = 0, TypeOK, PairInv, NoFaultInv, [Next]_vars PROVE NoFaultInv'
<1>1. CASE UNCHANGED vars
  BY <1>1 DEF vars, NoFaultInv, Stands, GoesAway, Created, AllCreated, Lowest, Ever
<1>2. \A r \in Runners : ~ Fault(r)
  <2>1. faults \in 0..0
    BY DEF TypeOK
  <2> QED
    BY <2>1, SMT DEF Fault
<1>3. CASE Next
  BY <1>2, <1>3, PairSteps, NoFaultFind, NoFaultPost, NoFaultPoll, NoFaultDelete, NoFaultAwait,
     NoFaultGot, NoFaultListed
<1> QED
  BY <1>1, <1>3

\* When all runs have ended, what is alive is the lowest, and not all have failed.
LEMMA AgreedAtTheEnd ==
    ASSUME PairTiming, TypeOK, PairInv, NoFaultInv PROVE RunsAgree
<1>1. ASSUME \A r \in Runners : run[r].pc \in Ended PROVE Cardinality(alive) <= 1
  <2>1. \A i \in alive : i \in Ever /\ creator[i] \in Runners
    BY CreatorOf DEF TypeOK
  <2>2. \A i \in alive : Lowest(i)
    BY <1>1, <2>1 DEF NoFaultInv, GoesAway, Ended
  <2>3. \A i, j \in alive : i = j
    BY <2>1, <2>2, LowestUnique
  <2>4. alive = {} \/ \E x : alive = {x}
    BY <2>3
  <2>5. Cardinality(alive) = 0 \/ Cardinality(alive) = 1
    BY <2>4, FS_EmptySet, FS_Singleton
  <2> QED
    BY <2>5, SMT
<1>2. ASSUME \A r \in Runners : run[r].pc \in Ended PROVE \E r \in Runners : At(r, "published")
  <2> SUFFICES ASSUME \A r \in Runners : run[r].pc = "failed" PROVE FALSE
    BY <1>2 DEF Ended, At
  <2>1. \A r \in Runners : Stands(r)
    BY DEF NoFaultInv
  <2>2. PICK a \in Runners, b \in Runners : a # b
    BY <2>1 DEF PairTiming, Stands
  <2>3. Stands(a) /\ Stands(b)
    BY <2>1
  <2>4. run[a].id \in Ever /\ run[b].id \in Ever
    BY <2>3 DEF Stands, TypeOK
  <2>5. run[a].id = run[b].id
    BY <2>3, <2>4, LowestUnique DEF Stands
  <2> QED
    BY <2>2, <2>3, <2>5 DEF Stands, Created
<1> QED
  BY <1>1, <1>2, HoldersHoldLowest DEF RunsAgree, NoDuplicateRetained, SomeRunPublishes

\* Contention alone: two runs that find their own upload and the other's agree on
\* the lowest id, retain no duplicate and do not both fail, in whatever order they
\* list, create, poll, delete and wait (electStableNewSpecificationIdentity).
THEOREM PairAgrees == ASSUME PairTiming, MaxFaults = 0 PROVE Spec => []RunsAgree
<1>1. Init => NoFaultInv
  BY DEF Init, NoFaultInv
<1>2. TypeOK /\ PairInv /\ NoFaultInv /\ [Next]_vars => NoFaultInv'
  BY NoFaultKeeps
<1>3. TypeOK /\ PairInv /\ NoFaultInv => RunsAgree
  BY AgreedAtTheEnd
<1> QED
  BY <1>1, <1>2, <1>3, PairInductive, PTL DEF Spec

-----------------------------------------------------------------------------
(* The upload implements SpecIdentity: reading back the elected             *)
(* specification, or adopting an existing one, is the abstract Decide, a    *)
(* failure is GiveUp, and all that comes before is a stutter.               *)

Searching == Stages \ {"holding", "published", "rollback", "failed"}

LEMMA OutcomeOf ==
    ASSUME NEW r \in Runners
    PROVE  /\ run[r].pc \in {"holding", "published"} => Outcomes[r] = run[r].id
           /\ run[r].pc \in {"rollback", "failed"} => Outcomes[r] = GaveUp
           /\ run[r].pc \in Searching => Outcomes[r] = Undecided
BY DEF Outcomes, Holders, Searching

LEMMA OutcomesKept ==
    ASSUME NEW r \in Runners, \A q \in Runners \ {r} : run'[q] = run[q]
    PROVE  Outcomes' = [Outcomes EXCEPT ![r] = Outcomes'[r]]
<1>1. \A q \in Runners \ {r} : Outcomes'[q] = Outcomes[q]
  BY DEF Outcomes, Holders
<1>2. /\ Outcomes = [q \in Runners |-> Outcomes[q]]
      /\ Outcomes' = [q \in Runners |-> Outcomes'[q]]
  BY DEF Outcomes
<1> QED
  BY <1>1, <1>2

LEMMA SearchGoesOn ==
    ASSUME NEW r \in Runners, \A q \in Runners \ {r} : run'[q] = run[q],
           run[r].pc \in Searching, run'[r].pc \in Searching
    PROVE  UNCHANGED Outcomes
<1>1. Outcomes'[r] = Outcomes[r]
  BY DEF Outcomes, Holders, Searching
<1>2. Outcomes = [q \in Runners |-> Outcomes[q]]
  BY DEF Outcomes
<1> QED
  BY <1>1, <1>2, OutcomesKept

LEMMA SearchEnds ==
    ASSUME TypeOK, PairInv, NEW r \in Runners, \A q \in Runners \ {r} : run'[q] = run[q],
           run[r].pc \in {"adopt", "get"}, run'[r].pc = "holding", run'[r].id = run[r].id
    PROVE  Identity!Next
<1> DEFINE id == run[r].id
<1>1. id \in alive /\ Lowest(id) /\ id \in Ids /\ id \in Ever
  BY CreatorOf DEF PairInv, Settled, TypeOK
<1>2. Outcomes[r] = Undecided /\ Outcomes'[r] = id
  BY DEF Outcomes, Holders
<1>3. ASSUME NEW q \in Runners PROVE Outcomes[q] \in {id, Undecided, GaveUp}
  <2>1. CASE run[q].pc \in {"holding", "published"}
    <3>1. run[q].id \in Ever /\ Lowest(run[q].id)
      BY <2>1 DEF PairInv, Settled, TypeOK
    <3>2. run[q].id = id
      BY <1>1, <3>1, LowestUnique
    <3> QED
      BY <2>1, <3>2, OutcomeOf
  <2>2. CASE run[q].pc \notin {"holding", "published"}
    BY <2>2 DEF Outcomes, Holders
  <2> QED
    BY <2>1, <2>2
<1>4. Outcomes' = [Outcomes EXCEPT ![r] = id]
  BY <1>2, OutcomesKept
<1>5. Identity!Decide(r, id)
  BY <1>2, <1>3, <1>4 DEF Identity!Decide
<1> QED
  BY <1>1, <1>5 DEF Identity!Next

LEMMA RunGivesUp ==
    ASSUME TypeOK, PairInv, NEW r \in Runners, \A q \in Runners \ {r} : run'[q] = run[q],
           run[r].pc # "failed", run'[r].pc = "failed"
    PROVE  Identity!Next
<1>1. Outcomes'[r] = GaveUp
  BY DEF Outcomes, Holders
<1>2. Outcomes[r] # GaveUp
  <2>1. run[r].pc # "rollback"
    BY DEF PairInv, OnePerRun
  <2>2. run[r].pc \in {"holding", "published"} => run[r].id \in Ids
    BY CreatorOf DEF PairInv, Settled, TypeOK
  <2> QED
    BY <2>1, <2>2, OutcomesAssumption DEF Outcomes, Holders
<1>3. Identity!GiveUp(r)
  BY <1>1, <1>2, OutcomesKept DEF Identity!GiveUp
<1> QED
  BY <1>3 DEF Identity!Next

LEMMA IdentityStep ==
    ASSUME PairTiming, TypeOK, PairInv, [Next]_vars PROVE [Identity!Next]_Outcomes
<1>1. CASE UNCHANGED vars
  BY <1>1 DEF vars, Outcomes, Holders
<1>2. ASSUME NEW r \in Runners, Fault(r) PROVE [Identity!Next]_Outcomes
  <2>1. run[r].pc # "failed" /\ run'[r].pc = "failed" /\ \A q \in Runners \ {r} : run'[q] = run[q]
    BY <1>2, GotoFields DEF Fault, Ended
  <2> QED
    BY <2>1, RunGivesUp
<1>3. ASSUME NEW r \in Runners,
             FindBefore(r) \/ Post(r) \/ Poll(r) \/ DeleteLoser(r) \/ AwaitPeers(r)
      PROVE  [Identity!Next]_Outcomes
  <2>1. \A q \in Runners \ {r} : run'[q] = run[q]
    BY <1>3, StepFrame DEF Step
  <2>2. run[r].pc \in {"find", "post", "poll", "delete", "await"}
    BY <1>3 DEF FindBefore, Post, Poll, DeleteLoser, AwaitPeers, At
  <2>3. run'[r].pc \in {"post", "adopt", "poll", "delete", "await", "get", "push", "failed"}
    BY <1>3, FindResult, PostResult, PollSettles, DeleteKeeps, AwaitResult
  <2>4. CASE run'[r].pc = "failed"
    BY <2>1, <2>2, <2>4, RunGivesUp
  <2>5. CASE run'[r].pc # "failed"
    BY <2>1, <2>2, <2>3, <2>5, SearchGoesOn DEF Searching, Stages
  <2> QED
    BY <2>4, <2>5
<1>4. ASSUME NEW r \in Runners, AdoptExisting(r) \/ PushToWinner(r) \/ ReadBack(r) \/ Publish(r)
      PROVE  [Identity!Next]_Outcomes
  <2>1. \A q \in Runners \ {r} : run'[q] = run[q]
    BY <1>4, StepFrame DEF Step
  <2>2. /\ run[r].pc \in {"adopt", "push", "get", "holding"} /\ run[r] \in RunState
        /\ run[r].id \in alive /\ run \in [Runners -> RunState]
    BY <1>4 DEF AdoptExisting, PushToWinner, ReadBack, Publish, At, PairInv, Settled, TypeOK
  <2>3. run'[r].id = run[r].id
    BY <1>4, GotStep
  <2>4. CASE AdoptExisting(r)
    BY <2>1, <2>2, <2>3, <2>4, GotoFields, SearchEnds DEF AdoptExisting, At
  <2>5. CASE PushToWinner(r)
    <3>1. run[r].pc = "push" /\ run'[r].pc = "get"
      BY <2>2, <2>5, GotoFields DEF PushToWinner, At
    <3> QED
      BY <2>1, <3>1, SearchGoesOn DEF Searching, Stages
  <2>6. CASE ReadBack(r)
    <3> DEFINE o == run[r].mine /\ ~run[r].shared
    <3>1. run[r].pc = "get" /\ run' = [run EXCEPT ![r].pc = "holding", ![r].owned = o]
      BY <2>2, <2>6 DEF ReadBack, At
    <3>2. run'[r].pc = "holding"
      <4> HIDE DEF o
      <4> QED
        BY <2>2, <3>1, SMT DEF RunState
    <3> QED
      BY <2>1, <2>3, <3>1, <3>2, SearchEnds
  <2>7. CASE Publish(r)
    <3>1. run[r].pc = "holding" /\ run'[r].pc = "published"
      BY <2>7, GotoFields DEF Publish, At
    <3>2. Outcomes'[r] = Outcomes[r]
      BY <2>3, <3>1 DEF Outcomes, Holders
    <3>3. Outcomes = [q \in Runners |-> Outcomes[q]]
      BY DEF Outcomes
    <3> QED
      BY <2>1, <3>2, <3>3, OutcomesKept
  <2> QED
    BY <1>4, <2>4, <2>5, <2>6, <2>7
<1>5. CASE \E i \in Ids : BecomeListed(i)
  BY <1>5 DEF BecomeListed, Outcomes, Holders
<1> QED
  BY <1>1, <1>2, <1>3, <1>4, <1>5, PairSteps

\* The single-file upload of two runs implements SpecIdentity, whatever calls fail:
\* what uploadSpecWithOutcome returns to the orchestrators is one identity.
THEOREM UploadImplementsIdentity == ASSUME PairTiming PROVE Spec => IdentitySpec
<1>1. Init => Identity!Init
  BY DEF Init, Identity!Init, Outcomes, Holders
<1>2. TypeOK /\ PairInv /\ [Next]_vars => [Identity!Next]_Outcomes
  BY IdentityStep
<1> QED
  BY <1>1, <1>2, PairInductive, PTL DEF Spec, IdentitySpec, Identity!Spec

=============================================================================
