--------------------------- MODULE ProtocolBootstrap ---------------------------
(***************************************************************************)
(* The contract collection of a GraphQL, gRPC, SOAP, AsyncAPI or MCP        *)
(* definition: it is built before anything is written, the collection of   *)
(* an earlier run is deleted, a new one is created and tracked, and its     *)
(* tree is sent item by item.  Runs fail, lose answers and are killed.      *)
(***************************************************************************)
EXTENDS Integers, Sequences
CONSTANTS
    EcIds,       \* 1..n: ids of collections, in the order they are created
    EcTree,      \* the items, each after its folder or request, of different titles;
                 \* a definition without any is refused when it is parsed
    MaxEcFaults, \* bound: failing calls and kills
    MaxEcRuns    \* bound: runs

EcItems == {EcTree[k] : k \in DOMAIN EcTree}
ASSUME EcAssumption ==
    /\ EcIds \subseteq Nat \ {0} /\ 1 \in EcIds
    /\ EcTree \in Seq(EcItems) /\ EcItems # {}
    /\ \A j, k \in DOMAIN EcTree : EcTree[j] = EcTree[k] => j = k
    /\ MaxEcFaults \in Nat /\ MaxEcRuns \in Nat \ {0}

VARIABLES
    extensible, \* id -> copies of every item, or NotThere
    ecTracked,  \* the id in .postman/resources.yaml; 0 for none
    ecInput,    \* the contract-collection-id input; 0 for none
    ecRun,      \* pc, the collection to replace, the new one, the next item
    untold,     \* collections this run was never told of, or could not track
    ecBudget    \* [faults, runs]
ecVars == <<extensible, ecTracked, ecInput, ecRun, untold, ecBudget>>

NotThere == [i \in EcItems |-> -1]
Empty == [i \in EcItems |-> 0]
There(c) == c \in EcIds /\ extensible[c] # NotThere
EcEnded == {"done", "failed"}

EcAt(pc) == ecRun.pc = pc
EcGoto(pc) == ecRun' = [ecRun EXCEPT !.pc = pc]
EcFault == ecBudget.faults < MaxEcFaults /\ ecBudget' = [ecBudget EXCEPT !.faults = @ + 1]
EcWorks == UNCHANGED ecBudget
StateKept == UNCHANGED <<ecTracked, ecInput>>

ProtocolInit ==
    /\ ecInput \in {0, 1} /\ ecTracked \in {0, 1}
    /\ extensible = [c \in EcIds |-> IF c = 1 /\ (ecInput = 1 \/ ecTracked = 1) THEN Empty ELSE NotThere]
    /\ ecRun = [pc |-> "build", old |-> 0, id |-> 0, next |-> 1]
    /\ untold = {} /\ ecBudget = [faults |-> 0, runs |-> 1]

\* Parsed, linted and instrumented first: a definition that is refused has
\* touched nothing.  Then the workspace, and its id in the tracked state.
BuildProtocol ==
    /\ EcAt("build")
    /\ \/ /\ ecRun' = [ecRun EXCEPT !.pc = "delete", !.old = IF ecInput # 0 THEN ecInput ELSE ecTracked]
          /\ EcWorks
       \/ EcGoto("failed") /\ EcFault
    /\ UNCHANGED <<extensible, untold>> /\ StateKept

\* No collection to replace, or deleted, or gone already (404); an unanswered
\* delete is settled by reading the collection.
DeleteEarlier ==
    /\ EcAt("delete")
    /\ LET without == [extensible EXCEPT ![ecRun.old] = NotThere] IN
       \/ ~There(ecRun.old) /\ UNCHANGED extensible /\ EcGoto("create") /\ EcWorks
       \/ There(ecRun.old) /\ extensible' = without /\ EcGoto("create") /\ EcWorks
       \/ There(ecRun.old) /\ extensible' \in {extensible, without} /\ EcGoto("reread") /\ EcFault
       \/ UNCHANGED extensible /\ ecRun.old # 0 /\ EcGoto("failed") /\ EcFault
    /\ UNCHANGED untold /\ StateKept

RereadEarlier ==
    /\ EcAt("reread")
    /\ \/ EcGoto(IF There(ecRun.old) THEN "failed" ELSE "create") /\ EcWorks
       \/ EcGoto("failed") /\ EcFault
    /\ UNCHANGED <<extensible, untold>> /\ StateKept

\* One POST; an unanswered one ends the run, executed or not.
CreateExtensible ==
    /\ EcAt("create")
    /\ \E c \in EcIds :
        /\ ~There(c) /\ \A d \in EcIds : d > c => ~There(d) /\ ecTracked # d
        /\ c > ecTracked /\ c > ecInput
        /\ \/ /\ extensible' = [extensible EXCEPT ![c] = Empty]
              /\ \/ ecRun' = [ecRun EXCEPT !.pc = "track", !.id = c] /\ UNCHANGED untold /\ EcWorks
                 \/ EcGoto("failed") /\ untold' = untold \cup {c} /\ EcFault
           \/ UNCHANGED <<extensible, untold>> /\ EcGoto("failed") /\ EcFault
    /\ StateKept

\* Mutant: the collection is tracked when it is complete.
TrackAtEnd ==
    /\ EcAt("track") /\ EcGoto("items") /\ EcWorks
    /\ UNCHANGED <<extensible, untold>> /\ StateKept
\* The id is written to resources.yaml before the first item.
TrackExtensible ==
    /\ EcAt("track")
    /\ \/ ecTracked' = ecRun.id /\ EcGoto("items") /\ UNCHANGED untold /\ EcWorks
       \/ UNCHANGED ecTracked /\ EcGoto("failed") /\ untold' = untold \cup {ecRun.id} /\ EcFault
    /\ UNCHANGED <<extensible, ecInput>>

NextItem == [ecRun EXCEPT !.next = @ + 1]
WithItem == [extensible EXCEPT ![ecRun.id][EcTree[ecRun.next]] = @ + 1]

\* populateFromTree, createItem: a folder before its children, a web socket
\* request before its messages.
CreateItem ==
    /\ EcAt("items") /\ ecRun.next <= Len(EcTree)
    /\ \/ extensible' = WithItem /\ ecRun' = NextItem /\ EcWorks
       \/ extensible' \in {extensible, WithItem} /\ EcGoto("find") /\ EcFault
       \/ extensible' \in {extensible, WithItem} /\ EcGoto("clean") /\ EcFault
    /\ UNCHANGED untold /\ StateKept

\* The one listed item of that type, title and parent is adopted; none (it was
\* not created, or is not listed yet) fails the run.
AdoptItem ==
    /\ EcAt("find")
    /\ \/ /\ extensible[ecRun.id][EcTree[ecRun.next]] = 1
          /\ ecRun' = [NextItem EXCEPT !.pc = "items"] /\ EcWorks
       \/ EcGoto("clean") /\ IF extensible[ecRun.id][EcTree[ecRun.next]] = 1 THEN EcFault ELSE EcWorks
    /\ UNCHANGED <<extensible, untold>> /\ StateKept

\* A half-built collection is deleted; if that fails too, it stays tracked.
DeletePartial ==
    /\ EcAt("clean") /\ EcGoto("failed")
    /\ LET without == [extensible EXCEPT ![ecRun.id] = NotThere] IN
       \/ extensible' = without /\ EcWorks
       \/ extensible' \in {extensible, without} /\ EcFault
    /\ UNCHANGED untold /\ StateKept

\* The state is written again with the workspace, and the outputs are set.
SaveProtocol ==
    /\ EcAt("items") /\ ecRun.next > Len(EcTree)
    /\ ecTracked' = ecRun.id /\ EcGoto("done") /\ EcWorks
    /\ UNCHANGED <<extensible, ecInput, untold>>

KillProtocol ==
    /\ ecRun.pc \notin EcEnded /\ EcGoto("failed") /\ EcFault
    /\ untold' = IF EcAt("track") THEN untold \cup {ecRun.id} ELSE untold
    /\ UNCHANGED extensible /\ StateKept

NextProtocolRun ==
    /\ ecRun.pc \in EcEnded /\ ecBudget.runs < MaxEcRuns
    /\ ecBudget' = [ecBudget EXCEPT !.runs = @ + 1]
    /\ ecRun' = [pc |-> "build", old |-> 0, id |-> 0, next |-> 1]
    /\ UNCHANGED <<extensible, untold>> /\ StateKept

ProtocolNext ==
    \/ BuildProtocol \/ DeleteEarlier \/ RereadEarlier \/ CreateExtensible \/ TrackExtensible
    \/ CreateItem \/ AdoptItem \/ DeletePartial \/ SaveProtocol \/ KillProtocol \/ NextProtocolRun
ProtocolSpec == ProtocolInit /\ [][ProtocolNext]_ecVars
--------------------------------------------------------------------------------
\* TypeOK: the variables keep their types.
ProtocolTypeOK ==
    /\ extensible \in [EcIds -> [EcItems -> -1..2]]
    /\ {ecTracked, ecInput, ecRun.id, ecRun.old} \subseteq EcIds \cup {0}
    /\ ecRun.next \in 1..(Len(EcTree) + 1) /\ untold \subseteq EcIds
    /\ ecBudget.faults \in 0..MaxEcFaults /\ ecBudget.runs \in 1..MaxEcRuns

\* A run that succeeds leaves every item of the definition exactly once in the
\* collection that is tracked (populateFromTree, createItem).
ProtocolWhole ==
    EcAt("done") => There(ecRun.id) /\ ecTracked = ecRun.id
                    /\ \A i \in EcItems : extensible[ecRun.id][i] = 1

\* Every contract collection that is there, also one that a failed or killed run
\* left, is a beginning of the definition: each item at most once, and none
\* without all those before it, of which one is its folder.
IsBeginning(copies) ==
    \A j, k \in DOMAIN EcTree : j < k /\ copies[EcTree[k]] = 1 => copies[EcTree[j]] = 1
ContractsInOrder ==
    \A c \in EcIds : There(c) =>
        IsBeginning(extensible[c]) /\ \A i \in EcItems : extensible[c][i] \in 0..1

\* However runs fail or are killed, a contract collection is tracked or was
\* never known to the run that made it: the next run replaces whatever an
\* earlier one left behind (createExtensibleContractCollection).  With a
\* contract-collection-id the tracked one is not what is replaced.
NoStrayContract ==
    (ecInput = 0 /\ ecRun.pc \in EcEnded) =>
        \A c \in EcIds : There(c) => c = ecTracked \/ c \in untold

\* A second collection is never created beside the one it replaces.
ReplacedIsGone ==
    \A c \in EcIds : There(c)' /\ ~There(c) => ~There(ecRun.old)

\* No step of a run, and no run after a failed or killed one, breaks any of it.
ContractIsSafe ==
    [][ProtocolTypeOK' /\ ProtocolWhole' /\ ContractsInOrder' /\ NoStrayContract' /\ ReplacedIsGone]_ecVars
================================================================================
