---------------------------- MODULE SpecElection ----------------------------
(***************************************************************************)
(* Concurrent action runs that upload a single-file specification under    *)
(* one asset name in one workspace (PostmanGatewayAssetsClient             *)
(* uploadSpecWithOutcome and electStableNewSpecificationIdentity), and the *)
(* rollback of a run that fails later (restorePreviousSpecContent in       *)
(* index.ts).  Every action is one gateway call of one run, so the runs    *)
(* interleave between any two calls.  Spec Hub has no create-if-absent:    *)
(* the runs list, create, list again and elect the lowest id.              *)
(***************************************************************************)
EXTENDS Integers, FiniteSets, FiniteSetsExt

CONSTANTS
    Runners,        \* the action runs
    Ids,            \* specification ids; their order is the order of localeCompare
    None,           \* no id, no runner
    Undecided, GaveUp,   \* what a run without an id is to SpecIdentity
    MaxPolls,       \* SPEC_CREATE_STABLE_MAX_POLLS
    QuietStreak,    \* SPEC_CREATE_STABLE_QUIET_STREAK
    MinSinglePoll,  \* SPEC_CREATE_SINGLETON_MIN_POLL_INDEX
    MaxAwaits       \* list reads a winner spends waiting for its peers

\* The environment of a run of the model.
CONSTANTS
    ListLag,        \* a created specification may be missing from lists for a while
    Window,         \* a peer that found nothing has created a listed specification
                    \* before any run makes its poll number Window (0-based)
    LoneAdopters,   \* a run finds an existing specification only when no peer is
                    \* still creating or electing
    Ambiguous,      \* a create may answer with an ambiguous transport error
    LateFailures,   \* a run may fail after the upload stage and roll back
    MaxFaults       \* bound on failing calls and killed runs

ASSUME IdsAssumption == Ids \subseteq Nat /\ None \notin Ids /\ None \notin Runners
ASSUME OutcomesAssumption == Undecided # GaveUp /\ {Undecided, GaveUp} \cap Ids = {}
ASSUME FlagsAssumption ==
    /\ {ListLag, LoneAdopters, Ambiguous, LateFailures} \subseteq BOOLEAN
    /\ {MaxPolls, QuietStreak, MinSinglePoll, MaxAwaits, Window, MaxFaults} \subseteq Nat

VARIABLES
    alive,      \* ids of the specifications with this exact name
    listed,     \* those of them that list reads return
    creator,    \* [Ids -> Runners \cup {None}], whose create allocated the id
    late,       \* runs whose create timed out and may still be executed
    faults,     \* failures so far
    rolledBack, \* ids deleted by the rollback of a failed run
    run         \* [Runners -> RunState], the local state of each run

vars == <<alive, listed, creator, late, faults, rolledBack, run>>

Stages == {"find", "adopt", "post", "recover", "poll", "delete", "await", "push",
           "get", "holding", "rollback", "published", "failed"}

RunState == [pc      : Stages,
             id      : Ids \cup {None},   \* createdSpecId, then the elected specId
             mine    : BOOLEAN,           \* createdByThisRun
             poll    : Nat,
             last    : SUBSET Ids,        \* lastSetKey
             streak  : Nat,               \* quietStreak
             shared  : BOOLEAN,
             tries   : Nat,               \* reads of the wait for self-cleaning peers
             owned   : BOOLEAN]           \* createdNewSpec of the orchestrator

Ended == {"published", "failed"}
Ever == {i \in Ids : creator[i] # None}

Init ==
    /\ alive = {} /\ listed = {} /\ late = {} /\ rolledBack = {}
    /\ creator = [i \in Ids |-> None]
    /\ faults = 0
    /\ run = [r \in Runners |->
                [pc |-> "find", id |-> None, mine |-> FALSE, poll |-> 0, last |-> {},
                 streak |-> 0, shared |-> FALSE, tries |-> 0, owned |-> FALSE]]

-----------------------------------------------------------------------------
(* Spec Hub *)

\* The server executes r's create: a fresh id, list-visible at once or later.
Create(r, i) ==
    /\ i \in Ids \ Ever
    /\ creator' = [creator EXCEPT ![i] = r]
    /\ alive' = alive \cup {i}
    /\ \/ listed' = listed \cup {i}
       \/ ListLag /\ listed' = listed

\* Mutant: lists go on returning a deleted specification.
DeleteStaleList(i) == alive' = alive \ {i} /\ listed' = listed

\* deleteSpec: 404 is success, so deleting a missing id changes nothing.
DeleteSpec(i) == alive' = alive \ {i} /\ listed' = listed \ {i}

BecomeListed(i) ==
    /\ i \in alive \ listed
    /\ listed' = listed \cup {i}
    /\ UNCHANGED <<alive, creator, late, faults, rolledBack, run>>

\* A create whose answer was lost in transit is executed after all.
LandLate(r) ==
    /\ r \in late
    /\ late' = late \ {r}
    /\ \E i \in Ids : Create(r, i)
    /\ UNCHANGED <<faults, rolledBack, run>>

Server == UNCHANGED <<alive, listed, creator, late, faults, rolledBack>>

-----------------------------------------------------------------------------
(* uploadSpecWithOutcome *)

At(r, stage) == run[r].pc = stage
Goto(r, stage) == run' = [run EXCEPT ![r].pc = stage]

\* Runs that found nothing and whose specification no list shows yet.
Pending == {p \in Runners : \/ At(p, "post")
                            \/ \E i \in alive \ listed : creator[i] = p}
Busy == {p \in Runners : run[p].pc \in {"post", "recover", "poll", "delete", "await"}}

\* findSpecificationsByExactName and adoptExactMatch before the create.
FindBefore(r) ==
    /\ At(r, "find")
    /\ \/ listed = {} /\ Goto(r, "post")
       \/ /\ Cardinality(listed) = 1
          /\ LoneAdopters => Busy = {}
          /\ run' = [run EXCEPT ![r].pc = "adopt", ![r].id = Min(listed)]
       \/ Cardinality(listed) > 1 /\ Goto(r, "failed")     \* AmbiguousCreateMatchError
    /\ Server

\* updateSpec of the existing specification; it fails when it is gone by now.
AdoptExisting(r) ==
    /\ At(r, "adopt")
    /\ Goto(r, IF run[r].id \in alive THEN "holding" ELSE "failed")
    /\ Server

\* The create answers with its id.
Post(r) ==
    /\ At(r, "post")
    /\ \E i \in Ids :
         /\ Create(r, i)
         /\ run' = [run EXCEPT ![r].pc = "poll", ![r].id = i, ![r].mine = TRUE]
    /\ UNCHANGED <<late, faults, rolledBack>>

\* An ambiguous transport error: executed already, still in transit, or never.
PostAmbiguous(r) ==
    /\ Ambiguous /\ At(r, "post")
    /\ Goto(r, "recover")
    /\ \/ \E i \in Ids : Create(r, i) /\ UNCHANGED late
       \/ late' = late \cup {r} /\ UNCHANGED <<alive, listed, creator>>
       \/ UNCHANGED <<alive, listed, creator, late>>
    /\ UNCHANGED <<faults, rolledBack>>

\* The read that follows it adopts the one exact match, whoever created it.
Recover(r) ==
    /\ At(r, "recover")
    /\ IF Cardinality(listed) = 1
       THEN run' = [run EXCEPT ![r].pc = "poll", ![r].id = Min(listed)]
       ELSE Goto(r, "failed")
    /\ Server

-----------------------------------------------------------------------------
(* electStableNewSpecificationIdentity; its "before" list is always empty, *)
(* because uploadSpecWithOutcome returned or threw on any other.           *)

\* Whether the poll loop stops at this observation, and the bookkeeping.
QuietAfter(r, obs) == IF obs = run[r].last THEN run[r].streak + 1 ELSE 1
\* Mutant: a quiet singleton is accepted at any poll.
SettlesAtOnce(r, obs) ==
    \/ QuietAfter(r, obs) >= QuietStreak
    \/ run[r].poll + 1 >= MaxPolls

Settles(r, obs) ==
    \/ /\ QuietAfter(r, obs) >= QuietStreak
       /\ \/ Cardinality(obs) > 1
          \/ Cardinality(obs) = 1 /\ run[r].poll >= MinSinglePoll
    \/ run[r].poll + 1 >= MaxPolls
\* Mutant: the loop neither counts its polls nor remembers the last set.
ObservedNothing(r, obs) == [run[r] EXCEPT !.shared = @ \/ Cardinality(obs) > 1]

Observed(r, obs) ==
    [run[r] EXCEPT !.poll = @ + 1, !.last = obs, !.streak = QuietAfter(r, obs),
                   !.shared = @ \/ Cardinality(obs) > 1]

\* Mutants: the highest id wins; no loser is deleted; a loser keeps its own id.
HighestWins(r, obs) ==
    IF Cardinality(obs) > 1
    THEN IF run[r].id # Max(obs) /\ run[r].id \in obs THEN "delete" ELSE "await"
    ELSE IF obs \subseteq {run[r].id} THEN "get" ELSE "push"
LoserStays(r, obs) == "get"

\* What a settled observation decides: a lone id is adopted, otherwise the
\* lowest id wins and only the runner's own listed loser is deleted.
AfterElection(r, obs) ==
    IF Cardinality(obs) > 1
    THEN IF run[r].id # Min(obs) /\ run[r].id \in obs THEN "delete" ELSE "await"
    ELSE IF obs \subseteq {run[r].id} THEN "get" ELSE "push"

\* The loser keeps no claim on its own id: specId becomes the adopted one.
ElectedId(r, obs) == IF Cardinality(obs) = 1 THEN Min(obs) ELSE run[r].id

Poll(r) ==
    /\ At(r, "poll")
    /\ Pending # {} => run[r].poll < Window
    /\ IF Settles(r, listed)
       THEN run' = [run EXCEPT ![r] =
                      [Observed(r, listed) EXCEPT !.pc = AfterElection(r, listed),
                          !.id = ElectedId(r, listed),
                          !.mine = @ /\ ElectedId(r, listed) = run[r].id,
                          !.poll = 0, !.last = {}, !.streak = 0]]   \* loop locals
       ELSE run' = [run EXCEPT ![r] = Observed(r, listed)]
    /\ Server

\* Mutant: the elected id is deleted in place of the run's own.
DeleteElected(r) ==
    /\ At(r, "delete")
    /\ DeleteSpec(Min(listed))
    /\ Goto(r, "await")
    /\ UNCHANGED <<creator, late, faults, rolledBack>>

DeleteLoser(r) ==
    /\ At(r, "delete")
    /\ DeleteSpec(run[r].id)
    /\ Goto(r, "await")
    /\ UNCHANGED <<creator, late, faults, rolledBack>>

\* Up to MaxAwaits reads until at most one id is left; none left, or more
\* than one for too long, is "did not converge".
AwaitPeers(r) ==
    /\ At(r, "await")
    /\ \/ /\ Cardinality(listed) = 1
          /\ run' = [run EXCEPT ![r].pc = IF listed = {run[r].id} THEN "get" ELSE "push",
                                ![r].id = Min(listed), ![r].shared = TRUE,
                                ![r].mine = @ /\ listed = {run[r].id}, ![r].tries = 0]
       \/ /\ Cardinality(listed) > 1
          /\ run' = [run EXCEPT ![r].tries = @ + 1,
                                ![r].pc = IF run[r].tries + 1 >= MaxAwaits
                                          THEN "failed" ELSE "await"]
       \/ listed = {} /\ Goto(r, "failed")
    /\ Server

\* updateSpec of a winner this run did not create.
PushToWinner(r) ==
    /\ At(r, "push")
    /\ Goto(r, IF run[r].id \in alive THEN "get" ELSE "failed")
    /\ Server

\* Mutant: ownership ignores who created the specification.
ReadBackOwned(r) ==
    /\ At(r, "get")
    /\ IF run[r].id \in alive
       THEN run' = [run EXCEPT ![r].pc = "holding", ![r].owned = ~run[r].shared]
       ELSE Goto(r, "failed")
    /\ Server

\* The preflight read; then {specId, created} goes to the orchestrator.
ReadBack(r) ==
    /\ At(r, "get")
    /\ IF run[r].id \in alive
       THEN run' = [run EXCEPT ![r].pc = "holding",
                               ![r].owned = run[r].mine /\ ~run[r].shared]
       ELSE Goto(r, "failed")
    /\ Server

-----------------------------------------------------------------------------
(* The rest of runBootstrapInner *)

Publish(r) == At(r, "holding") /\ Goto(r, "published") /\ Server

\* A later stage throws: a specification this run owns is deleted.
FailLate(r) ==
    /\ LateFailures /\ At(r, "holding")
    /\ Goto(r, IF run[r].owned THEN "rollback" ELSE "failed")
    /\ Server

RollBack(r) ==
    /\ At(r, "rollback")
    /\ DeleteSpec(run[r].id)
    /\ rolledBack' = rolledBack \cup {run[r].id}
    /\ Goto(r, "failed")
    /\ UNCHANGED <<creator, late, faults>>

\* A call that throws a definite error, or a killed process: uploadSpecWithOutcome
\* has no clean-up of its own, and a failed rollback leaves the specification.
Fault(r) ==
    /\ faults < MaxFaults /\ run[r].pc \notin Ended
    /\ faults' = faults + 1
    /\ Goto(r, "failed")
    /\ UNCHANGED <<alive, listed, creator, late, rolledBack>>

-----------------------------------------------------------------------------
Step(r) == \/ FindBefore(r) \/ AdoptExisting(r) \/ Post(r) \/ PostAmbiguous(r)
           \/ Recover(r) \/ Poll(r) \/ DeleteLoser(r) \/ AwaitPeers(r)
           \/ PushToWinner(r) \/ ReadBack(r) \/ Publish(r) \/ FailLate(r) \/ RollBack(r)

Next == \/ \E r \in Runners : Step(r) \/ Fault(r) \/ LandLate(r)
        \/ \E i \in Ids : BecomeListed(i)

Spec == Init /\ [][Next]_vars

\* Each run is a sequential process that the runtime keeps executing, and a
\* created specification is list-visible eventually.
FairSpec == Spec /\ \A r \in Runners : WF_vars(Step(r))
                 /\ \A i \in Ids : WF_vars(BecomeListed(i))

-----------------------------------------------------------------------------
(* Properties *)

\* Every variable stays in its set; listed specifications exist.
TypeOK ==
    /\ listed \subseteq alive /\ alive \subseteq Ever
    /\ creator \in [Ids -> Runners \cup {None}]
    /\ late \subseteq Runners
    /\ faults \in 0..MaxFaults
    /\ rolledBack \subseteq Ids
    /\ run \in [Runners -> RunState]

\* The clean-up of the election never removes the last specification of a
\* name: below or at every id ever created one is still alive, unless the
\* rollback of a failed run took it.
LowestSurvives ==
    \A i \in Ever : \E j \in alive \cup rolledBack : j <= i

\* A run deletes only a specification its own create made
\* ("Each runner may delete only its own created loser; never deletes a
\* peer-created ID").
DeletesOnlyOwn ==
    [][\A r \in Runners : Step(r) => \A i \in alive \ alive' : creator[i] = r]_vars

\* The same for the rollback alone, which must hold even when the create
\* answered ambiguously and the run adopted whatever it found.
RollsBackOnlyOwn ==
    \A r \in Runners : run[r].pc = "rollback" => creator[run[r].id] = r

Holders == {r \in Runners : run[r].pc \in {"holding", "published"}}

\* Runs that got a specification all have the same one, and it exists:
\* generation never targets a loser that a peer is about to delete.
HoldersAgree ==
    \A r \in Holders : run[r].id \in alive /\ \A q \in Holders : run[q].id = run[r].id

\* When every run has ended one specification at most has the name: a
\* duplicate is never retained.
NoDuplicateRetained ==
    (\A r \in Runners : run[r].pc \in Ended) => Cardinality(alive) <= 1

\* Contention alone never fails every run: someone's upload stands.
SomeRunPublishes ==
    (\A r \in Runners : run[r].pc \in Ended) => \E r \in Runners : At(r, "published")

\* The bounded polls and waits end every run.
EveryRunEnds == \A r \in Runners : <>(run[r].pc \in Ended)

\* What each run has returned so far, as SpecIdentity sees it.
Outcomes == [r \in Runners |-> IF r \in Holders THEN run[r].id
                               ELSE IF run[r].pc \in {"rollback", "failed"} THEN GaveUp
                               ELSE Undecided]

\* What the runs return implements SpecIdentity.
Identity == INSTANCE SpecIdentity WITH decided <- Outcomes
IdentitySpec == Identity!Spec

\* What runs that each find their own upload and their peers' agree on, whenever
\* and in whatever order they look.
RunsAgree == HoldersAgree /\ NoDuplicateRetained /\ SomeRunPublishes
=============================================================================
