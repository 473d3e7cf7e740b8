------------------------ MODULE GeneratedCollections ------------------------
(***************************************************************************)
(* generateCollection (postman-gateway-assets-client.ts): several runs let *)
(* Spec Hub generate a collection of one final name from one               *)
(* specification.  A generation is an asynchronous task that locks the     *)
(* specification; its collection gets a temporary unique name, is renamed, *)
(* and then competes with the collections that other runs generated.       *)
(*                                                                         *)
(* A relation is shown some time after its collection exists, and shown    *)
(* with its name; polling loops count their rounds.                        *)
(***************************************************************************)
EXTENDS Integers, FiniteSets

CONSTANTS
    Generators,     \* concurrent runs
    GeneratedIds,   \* ids that the service may allocate, ordered as numbers
    GenerationPolls,\* bound of each polling loop
    LockRetries,    \* GENERATION_LOCKED_MAX_RETRIES
    MaxGenFaults    \* bound on failing calls

ASSUME GenerationAssumption ==
    /\ IsFiniteSet(Generators) /\ GeneratedIds \subseteq Nat \ {0}
    /\ GenerationPolls \in Nat \ {0} /\ LockRetries \in Nat /\ MaxGenFaults \in Nat

VARIABLES
    generated,  \* [GeneratedIds -> {"none", "temporary", "final", "deleted"}]
    related,    \* ids that the relations of the specification show
    task,       \* [Generators -> TaskState]: the last task a run started
    gen,        \* [Generators -> GenState]
    genFaults

genVars == <<generated, related, task, gen, genFaults>>

\* A task is over when it has made a collection: its id.
NoTask == 0
Running == -1
TaskFailed == -2
TaskState == {NoTask, Running, TaskFailed} \cup GeneratedIds

GenStages == {"list", "post", "locked", "poll", "appear", "reappear", "peerFinal", "rename",
              "converge", "settle", "elect", "drop", "await", "done", "failed"}
GenState ==
    [pc : GenStages, attempt : 1..2,
     rounds : 0..(GenerationPolls + LockRetries + 1),
     seen : SUBSET GeneratedIds, id : GeneratedIds \cup {0}]

GeneratedTypeOK ==
    /\ generated \in [GeneratedIds -> {"none", "temporary", "final", "deleted"}]
    /\ related \subseteq GeneratedIds
    /\ task \in [Generators -> TaskState]
    /\ gen \in [Generators -> GenState]
    /\ genFaults \in 0..MaxGenFaults

GeneratedInit ==
    /\ generated = [i \in GeneratedIds |-> "none"]
    /\ related = {}
    /\ task = [r \in Generators |-> NoTask]
    /\ gen = [r \in Generators |-> [pc |-> "list", attempt |-> 1, rounds |-> 0,
                                    seen |-> {}, id |-> 0]]
    /\ genFaults = 0

-----------------------------------------------------------------------------
Alive == {i \in GeneratedIds : generated[i] \in {"temporary", "final"}}
Finals == {i \in related : generated[i] = "final"}
Smallest(S) == CHOOSE i \in S : \A j \in S : i <= j

GenAt(r, pc) == gen[r].pc = pc
\* What a stage observed is dropped at its end, except by the election.
GenGoto(r, pc) == gen' = [gen EXCEPT ![r].pc = pc, ![r].rounds = 0,
                                     ![r].seen = IF pc = "drop" THEN @ ELSE {}]
GenFault == genFaults < MaxGenFaults /\ genFaults' = genFaults + 1
GenWorks == UNCHANGED genFaults
SpecHubIdle == UNCHANGED <<generated, related, task>>

\* adoptExactMatch on the final name: the one match is adopted, several fail.
AdoptFinal(r, otherwise) ==
    IF Finals = {} THEN GenGoto(r, otherwise)
    ELSE IF Cardinality(Finals) = 1
    THEN gen' = [gen EXCEPT ![r].pc = "converge", ![r].id = Smallest(Finals)]
    ELSE GenGoto(r, "failed")

-----------------------------------------------------------------------------
(* Spec Hub *)

\* A task ends: it made a collection, or failed.
RunTask(r) ==
    /\ task[r] = Running
    /\ \/ \E i \in GeneratedIds :
             /\ generated[i] = "none"
             /\ generated' = [generated EXCEPT ![i] = "temporary"]
             /\ task' = [task EXCEPT ![r] = i]
             /\ GenWorks
       \/ task' = [task EXCEPT ![r] = TaskFailed] /\ UNCHANGED generated /\ GenFault
    /\ UNCHANGED <<related, gen>>

\* The relations catch up with one collection.
Relate(i) ==
    /\ related' = IF i \in Alive THEN related \cup {i} ELSE related \ {i}
    /\ related' # related
    /\ UNCHANGED <<generated, task, gen, genFaults>>

Locked == \E r \in Generators : task[r] = Running

-----------------------------------------------------------------------------
(* The run *)

ListBefore(r) ==
    /\ GenAt(r, "list")
    /\ AdoptFinal(r, "post")
    /\ SpecHubIdle /\ GenWorks

\* Mutant: a locked specification is retried until it is free.
PostForever(r) ==
    /\ GenAt(r, "post")
    /\ \/ Locked /\ gen' = [gen EXCEPT ![r].pc = "locked"] /\ UNCHANGED task
       \/ ~Locked /\ task' = [task EXCEPT ![r] = Running] /\ GenGoto(r, "poll")
    /\ UNCHANGED <<generated, related>> /\ GenWorks
\* postGenerationWithLockRetry: 423 while a task runs.
PostGeneration(r) ==
    /\ GenAt(r, "post")
    /\ \/ /\ Locked
          /\ gen' = IF gen[r].rounds < LockRetries
                    THEN [gen EXCEPT ![r].pc = "locked", ![r].rounds = @ + 1]
                    ELSE [gen EXCEPT ![r].pc = "failed"]
          /\ UNCHANGED task /\ GenWorks
       \/ /\ ~Locked /\ task' = [task EXCEPT ![r] = Running]
          /\ \/ GenGoto(r, "poll") /\ GenWorks
             \/ GenGoto(r, "reappear") /\ GenFault
       \/ (GenGoto(r, "reappear") \/ GenGoto(r, "failed")) /\ UNCHANGED task /\ GenFault
    /\ UNCHANGED <<generated, related>>

\* After the wait a peer may have made the final collection.
AfterLock(r) ==
    /\ GenAt(r, "locked")
    /\ IF Finals = {} THEN gen' = [gen EXCEPT ![r].pc = "post"] ELSE AdoptFinal(r, "post")
    /\ SpecHubIdle /\ GenWorks

\* One more round of a polling loop, or its end.
AnotherRound(r, end) ==
    IF gen[r].rounds + 1 < GenerationPolls
    THEN gen' = [gen EXCEPT ![r].rounds = @ + 1] ELSE GenGoto(r, end)

\* The generation is posted once more, with a new temporary name.
Repost(r) ==
    IF gen[r].attempt = 1
    THEN gen' = [gen EXCEPT ![r].pc = "post", ![r].attempt = 2, ![r].rounds = 0]
    ELSE GenGoto(r, "failed")

PollTask(r) ==
    /\ GenAt(r, "poll")
    /\ \/ task[r] \in GeneratedIds /\ GenGoto(r, "appear")
       \/ task[r] = TaskFailed /\ Repost(r)
       \/ task[r] = Running /\ AnotherRound(r, "failed")
    /\ SpecHubIdle /\ GenWorks

\* awaitExactAppearedGeneratedCollection: the temporary name is this attempt's.
\* An ambiguous post that shows nothing is posted again.
AwaitAppeared(r) ==
    /\ GenAt(r, "appear") \/ GenAt(r, "reappear")
    /\ IF task[r] \in related
       THEN gen' = [gen EXCEPT ![r].pc = "rename", ![r].rounds = 0, ![r].id = task[r]]
       ELSE IF gen[r].rounds + 1 < GenerationPolls
       THEN gen' = [gen EXCEPT ![r].rounds = @ + 1]
       ELSE IF GenAt(r, "appear") THEN GenGoto(r, "peerFinal") ELSE Repost(r)
    /\ SpecHubIdle /\ GenWorks

PeerFinal(r) ==
    /\ GenAt(r, "peerFinal")
    /\ AdoptFinal(r, "failed")
    /\ SpecHubIdle /\ GenWorks

RenameOwn(r) ==
    /\ GenAt(r, "rename")
    /\ \/ /\ gen[r].id \in Alive /\ GenGoto(r, "converge") /\ GenWorks
          /\ generated' = [generated EXCEPT ![gen[r].id] = "final"]
       \/ gen[r].id \notin Alive /\ GenGoto(r, "failed") /\ UNCHANGED generated /\ GenWorks
       \/ GenGoto(r, "failed") /\ UNCHANGED generated /\ GenFault
    /\ UNCHANGED <<related, task>>

-----------------------------------------------------------------------------
(* convergeGeneratedCollections *)

SameIdentity == related \cap Alive

\* A solo observation is made twice.
Converge(r) ==
    /\ GenAt(r, "converge") \/ GenAt(r, "settle")
    /\ gen' = [gen EXCEPT ![r].seen = SameIdentity,
                 ![r].pc = IF SameIdentity = {} THEN "done"
                           ELSE IF GenAt(r, "converge") /\ Cardinality(SameIdentity) = 1
                           THEN "settle" ELSE "elect"]
    /\ SpecHubIdle /\ GenWorks

\* The lowest id wins and gets the final name, whoever generated it.
ElectLowest(r) ==
    LET winner == Smallest(gen[r].seen) IN
    /\ GenAt(r, "elect")
    /\ \/ /\ winner \in Alive
          /\ generated' = [generated EXCEPT ![winner] = "final"]
          /\ GenGoto(r, IF gen[r].id = winner THEN "await" ELSE "drop") /\ GenWorks
       \/ /\ winner \notin Alive   \* 404, or no rename when it was listed as final
          /\ GenGoto(r, "drop") \/ GenGoto(r, "failed")
          /\ UNCHANGED generated /\ GenWorks
       \/ GenGoto(r, "failed") /\ UNCHANGED generated /\ GenFault
    /\ UNCHANGED <<related, task>>

\* A loser deletes only the collection it preferred itself.
DropPreferred(r) ==
    /\ GenAt(r, "drop")
    /\ \/ /\ generated' = IF gen[r].id \in gen[r].seen \cap Alive
                          THEN [generated EXCEPT ![gen[r].id] = "deleted"] ELSE generated
          /\ gen' = [gen EXCEPT ![r].pc = "done", ![r].id = Smallest(gen[r].seen), ![r].seen = {}]
          /\ GenWorks
       \/ GenGoto(r, "failed") /\ UNCHANGED generated /\ GenFault
    /\ UNCHANGED <<related, task>>

\* A winner gives its peers some time and deletes nothing.
AwaitSelfDelete(r) ==
    /\ GenAt(r, "await")
    /\ IF Cardinality(SameIdentity) <= 1 THEN GenGoto(r, "done") ELSE AnotherRound(r, "done")
    /\ SpecHubIdle /\ GenWorks

GenStep(r) ==
    \/ ListBefore(r) \/ PostGeneration(r) \/ AfterLock(r) \/ PollTask(r) \/ AwaitAppeared(r)
    \/ PeerFinal(r) \/ RenameOwn(r) \/ Converge(r) \/ ElectLowest(r) \/ DropPreferred(r)
    \/ AwaitSelfDelete(r)
GeneratedNext ==
    \/ \E r \in Generators : GenStep(r) \/ RunTask(r)
    \/ \E i \in GeneratedIds : Relate(i)

GeneratedSpec == GeneratedInit /\ [][GeneratedNext]_genVars

-----------------------------------------------------------------------------
(* Properties *)

\* However late and in whatever order the runs see each other's collections, the
\* losers never delete all of them.
SomeGeneratedSurvives ==
    (\E i \in GeneratedIds : generated[i] # "none") => Alive # {}

\* A run ends even if the task that locks the specification never does.
GenerationEnds == \A r \in Generators : GenAt(r, "post") ~> gen[r].pc \in {"done", "failed"}

\* The runs that generate one collection end, and leave one.
GenerationSettles == [](GeneratedTypeOK /\ SomeGeneratedSurvives) /\ GenerationEnds
=============================================================================
