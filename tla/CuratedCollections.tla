------------------------- MODULE CuratedCollections -------------------------
(***************************************************************************)
(* One curated collection: syncAdditionalCollections                       *)
(* (additional-collections.ts) over createCollection, updateCollection,    *)
(* createItemTree and applyCollectionLevelSettings (gateway client), in    *)
(* runs that fail, are killed, or find the collection gone.                *)
(*                                                                         *)
(* Siblings have different names.  An item that was created by an          *)
(* unanswered call may be missing in the next listing, not in the one      *)
(* after the pause.                                                        *)
(***************************************************************************)
EXTENDS Integers, Sequences, FiniteSets

CONSTANTS
    Nodes,          \* items and folders, of old and new documents
    Tree,           \* the items to create, each after its folder
    FolderOf,       \* [Nodes -> Nodes \cup {RootFolder}]
    RootFolder,
    CuratedIds,     \* ids of collections, as numbers
    CreateAttempts, \* of one item
    DeleteRetries,  \* settle delays of one item's deletion
    MaxTreeFaults, MaxTreeRuns

TreeNodes == {Tree[k] : k \in 1..Len(Tree)}

ASSUME CuratedAssumption ==
    /\ Tree \in Seq(Nodes) /\ \A j, k \in 1..Len(Tree) : Tree[j] = Tree[k] => j = k
    /\ FolderOf \in [Nodes -> Nodes \cup {RootFolder}]
    /\ RootFolder \notin Nodes
    /\ CuratedIds \subseteq Nat \ {0} /\ 1 \in CuratedIds
    /\ CreateAttempts \in Nat \ {0} /\ DeleteRetries \in Nat
    /\ {MaxTreeFaults, MaxTreeRuns} \subseteq Nat

VARIABLES
    curated,    \* the collections
    onDisk, inMemory,   \* the tracked id in resources.yaml; 0 for none
    deferred,   \* scope full: resources.yaml is written at the end of the run
    treeRun,
    lost,       \* collections whose create or clean-up was cut off
    treeFaults, treeRuns

curatedVars == <<curated, onDisk, inMemory, deferred, treeRun, lost, treeFaults, treeRuns>>

Collection == [name : {"absent", "temporary", "final"}, items : [Nodes -> 0..2],
               late : SUBSET Nodes, settings : {"old", "new"}]
TreeStages == {"load", "find", "post", "refind", "checkpoint", "discard", "tree", "reconcile",
               "reconcileAgain", "settings", "persist", "save", "list", "strip", "settle", "check",
               "done", "failed", "killed"}
TreeEnded == {"done", "failed", "killed"}
TreeRun == [pc : TreeStages, id : CuratedIds \cup {0}, next : 1..(Len(Tree) + 1),
            attempt : 1..CreateAttempts, old : SUBSET Nodes,   \* listed and not yet deleted
            unsure : SUBSET Nodes, retries : 0..DeleteRetries]

CuratedTypeOK ==
    /\ curated \in [CuratedIds -> Collection]
    /\ {onDisk, inMemory} \subseteq CuratedIds \cup {0}
    /\ deferred \in BOOLEAN
    /\ treeRun \in TreeRun
    /\ lost \subseteq CuratedIds
    /\ treeFaults \in 0..MaxTreeFaults /\ treeRuns \in 0..MaxTreeRuns

NoItems == [n \in Nodes |-> 0]
NoCollection == [name |-> "absent", items |-> NoItems, late |-> {}, settings |-> "old"]
FreshTreeRun == [pc |-> "load", id |-> 0, next |-> 1, attempt |-> 1, old |-> {},
                 unsure |-> {}, retries |-> 0]

\* Nothing is tracked, or what an earlier document produced.
CuratedInit ==
    /\ \E tracked \in {0, 1} :
          /\ curated = [c \in CuratedIds |->
                           IF c = tracked
                           THEN [name |-> "final", late |-> {}, settings |-> "old",
                                 items |-> [n \in Nodes |-> IF n \notin TreeNodes \/ FolderOf[n] = RootFolder
                                                            THEN 1 ELSE 0]]
                           ELSE NoCollection]
          /\ onDisk = tracked /\ inMemory = tracked
    /\ deferred \in BOOLEAN
    /\ treeRun = FreshTreeRun
    /\ lost = {} /\ treeFaults = 0 /\ treeRuns = 0

-----------------------------------------------------------------------------
Exists(c) == curated[c].name # "absent"
FinalNamed == {c \in CuratedIds : curated[c].name = "final"}
Mine == curated[treeRun.id]
Listed == {n \in Nodes : Mine.items[n] > (IF n \in Mine.late THEN 1 ELSE 0)}

TreeAt(pc) == treeRun.pc = pc
TreeGoto(pc) == treeRun' = [treeRun EXCEPT !.pc = pc, !.attempt = 1, !.retries = 0]
TreeFault == treeFaults < MaxTreeFaults /\ treeFaults' = treeFaults + 1
TreeWorks == UNCHANGED treeFaults
Elsewhere == UNCHANGED <<deferred, treeRuns>>
NoTreeChange == UNCHANGED <<curated, onDisk, inMemory, lost>> /\ Elsewhere
OnlyCloud == UNCHANGED <<onDisk, inMemory, lost>> /\ Elsewhere

LoadState ==
    /\ TreeAt("load")
    /\ treeRun' = [treeRun EXCEPT !.pc = IF onDisk = 0 THEN "find" ELSE "list", !.id = onDisk]
    /\ NoTreeChange /\ TreeWorks

-----------------------------------------------------------------------------
(* createCollection *)

\* One collection of the name is updated, several are refused.
FindFinal ==
    /\ TreeAt("find")
    /\ \/ /\ treeRun' = IF FinalNamed = {} THEN [treeRun EXCEPT !.pc = "post"]
                        ELSE IF Cardinality(FinalNamed) = 1
                        THEN [treeRun EXCEPT !.pc = "list", !.id = CHOOSE c \in FinalNamed : TRUE]
                        ELSE [treeRun EXCEPT !.pc = "failed"]
          /\ TreeWorks
       \/ TreeGoto("failed") /\ TreeFault
    /\ NoTreeChange

\* The root is created with a temporary unique name.
PostRoot ==
    /\ TreeAt("post")
    /\ \E c \in CuratedIds :
          /\ ~Exists(c) /\ \A d \in CuratedIds : d < c => Exists(d)
          /\ \/ /\ curated' = [curated EXCEPT ![c] = [NoCollection EXCEPT !.name = "temporary"]]
                /\ \/ treeRun' = [treeRun EXCEPT !.pc = "checkpoint", !.id = c, !.next = 1] /\ TreeWorks
                   \/ treeRun' = [treeRun EXCEPT !.pc = "refind", !.id = c, !.next = 1] /\ TreeFault
             \/ UNCHANGED curated /\ TreeGoto("failed") /\ TreeFault
    /\ OnlyCloud

\* After a lost answer: by the unique name.
RefindRoot ==
    /\ TreeAt("refind")
    /\ \/ TreeGoto("checkpoint") /\ UNCHANGED lost /\ TreeWorks
       \/ TreeGoto("failed") /\ lost' = lost \cup {treeRun.id} /\ TreeFault
    /\ UNCHANGED <<curated, onDisk, inMemory>> /\ Elsewhere

\* Mutant: the root is tracked only when its tree is complete.
CheckpointLater == TreeAt("checkpoint") /\ TreeGoto("tree") /\ NoTreeChange /\ TreeWorks
\* onRootCreated: persistRoot
CheckpointRoot ==
    /\ TreeAt("checkpoint")
    /\ inMemory' = treeRun.id
    /\ \/ /\ onDisk' = IF deferred THEN onDisk ELSE treeRun.id
          /\ TreeGoto("tree") /\ TreeWorks
       \/ ~deferred /\ UNCHANGED onDisk /\ TreeGoto("discard") /\ TreeFault
    /\ UNCHANGED <<curated, lost>> /\ Elsewhere

\* A root that could not be tracked is deleted.
DiscardRoot ==
    /\ TreeAt("discard")
    /\ \/ /\ curated' = [curated EXCEPT ![treeRun.id] = NoCollection]
          /\ UNCHANGED lost /\ TreeWorks
       \/ UNCHANGED curated /\ lost' = lost \cup {treeRun.id} /\ TreeFault
    /\ TreeGoto("failed")
    /\ UNCHANGED <<onDisk, inMemory>> /\ Elsewhere

-----------------------------------------------------------------------------
(* createItemTree *)

Node == Tree[treeRun.next]
OneMore == [curated EXCEPT ![treeRun.id].items[Node] = @ + 1]
NextNode == treeRun' = [treeRun EXCEPT !.pc = "tree", !.next = @ + 1, !.attempt = 1]

PostItem ==
    /\ TreeAt("tree")
    /\ \/ treeRun.next > Len(Tree) /\ TreeGoto("settings") /\ UNCHANGED curated /\ TreeWorks
       \/ /\ treeRun.next <= Len(Tree) /\ Mine.items[Node] < 2
          /\ \/ curated' = OneMore /\ NextNode /\ TreeWorks
             \/ /\ \/ UNCHANGED curated
                   \/ \E late \in {{}, {Node}} :
                         curated' = [OneMore EXCEPT ![treeRun.id].late = late]
                /\ treeRun' = [treeRun EXCEPT !.pc = "reconcile"] /\ TreeFault
             \* refused, or created and its scripts are
             \/ curated' \in {curated, OneMore} /\ TreeGoto("failed") /\ TreeFault
    /\ OnlyCloud

\* findCommittedItem, then a pause
ReconcileItem ==
    /\ TreeAt("reconcile")
    /\ \/ /\ IF Node \in Listed THEN NextNode ELSE treeRun' = [treeRun EXCEPT !.pc = "reconcileAgain"]
          /\ curated' = [curated EXCEPT ![treeRun.id].late = {}]
          /\ TreeWorks
       \/ TreeGoto("failed") /\ UNCHANGED curated /\ TreeFault
    /\ OnlyCloud

ReconcileItemAgain ==
    /\ TreeAt("reconcileAgain")
    /\ \/ /\ IF Node \in Listed THEN NextNode
             ELSE IF treeRun.attempt = CreateAttempts THEN TreeGoto("failed")
             ELSE treeRun' = [treeRun EXCEPT !.pc = "tree", !.attempt = @ + 1]
          /\ TreeWorks
       \/ TreeGoto("failed") /\ TreeFault
    /\ NoTreeChange

\* applyCollectionLevelSettings with the rename.  A PATCH that is refused as
\* already applied counts when the root reads back as intended.
ApplySettings ==
    /\ TreeAt("settings")
    /\ LET applied == [curated EXCEPT ![treeRun.id].settings = "new", ![treeRun.id].name = "final"] IN
       \/ curated' = applied /\ TreeGoto("persist") /\ TreeWorks
       \/ curated' \in {curated, applied} /\ TreeGoto("failed") /\ TreeFault
    /\ OnlyCloud

-----------------------------------------------------------------------------
(* updateCollection *)

\* A tracked collection that is gone is created anew; one found by name is not.
ListOld ==
    /\ TreeAt("list")
    /\ \/ /\ Exists(treeRun.id)
          /\ treeRun' = [treeRun EXCEPT !.pc = "strip", !.old = Listed, !.next = 1] /\ TreeWorks
       \/ /\ ~Exists(treeRun.id)
          /\ TreeGoto(IF onDisk = treeRun.id THEN "find" ELSE "failed") /\ TreeWorks
       \/ TreeGoto("failed") /\ TreeFault
    /\ NoTreeChange

\* A folder takes its items with it.
Without(n) == [m \in Nodes |-> IF m = n \/ FolderOf[m] = n THEN 0 ELSE Mine.items[m]]

DeleteOld ==
    /\ TreeAt("strip")
    /\ \/ treeRun.old = {} /\ TreeGoto("check") /\ UNCHANGED curated /\ TreeWorks
       \/ \E n \in treeRun.old :
             LET gone == [curated EXCEPT ![treeRun.id].items = Without(n)]
                 after == [treeRun EXCEPT !.old = @ \ {n}] IN
             \/ curated' = gone /\ treeRun' = after /\ TreeWorks
             \/ /\ curated' \in {curated, gone}
                /\ treeRun' = [after EXCEPT !.pc = "settle", !.unsure = {n}] /\ TreeFault
             \/ UNCHANGED curated /\ TreeGoto("failed") /\ TreeFault
    /\ OnlyCloud

\* After an unanswered delete: is the item still there?
SettleDelete ==
    /\ TreeAt("settle")
    /\ LET left == treeRun.unsure \cap Listed IN
       \/ /\ left = {} \/ treeRun.retries = DeleteRetries
          /\ treeRun' = [treeRun EXCEPT !.pc = "strip", !.retries = 0, !.unsure = {}]
          /\ UNCHANGED curated /\ TreeWorks
       \/ /\ left # {} /\ treeRun.retries < DeleteRetries
          /\ treeRun' = [treeRun EXCEPT !.retries = @ + 1]
          /\ \/ \E n \in left : curated' = [curated EXCEPT ![treeRun.id].items = Without(n)] /\ TreeWorks
             \/ UNCHANGED curated /\ TreeFault
       \/ TreeGoto("failed") /\ UNCHANGED curated /\ TreeFault
    /\ OnlyCloud

CheckStripped ==
    /\ TreeAt("check")
    /\ \/ TreeGoto(IF Listed = {} THEN "tree" ELSE "failed") /\ TreeWorks
       \/ TreeGoto("failed") /\ TreeFault
    /\ NoTreeChange

-----------------------------------------------------------------------------
(* The tracked state *)

\* persistRoot, or the map and writeState of an update
PersistRoot ==
    /\ TreeAt("persist")
    /\ inMemory' = treeRun.id
    /\ IF deferred THEN TreeGoto("save") /\ UNCHANGED onDisk
       ELSE TreeGoto("done") /\ onDisk' = treeRun.id
    /\ UNCHANGED <<curated, lost>> /\ Elsewhere /\ TreeWorks

\* Scope full: later stages fail, or the state is written.
SaveState ==
    /\ TreeAt("save")
    /\ \/ onDisk' = inMemory /\ TreeGoto("done") /\ TreeWorks
       \/ UNCHANGED onDisk /\ TreeGoto("failed") /\ TreeFault
    /\ UNCHANGED <<curated, inMemory, lost>> /\ Elsewhere

\* The run is killed.
Kill ==
    /\ treeRun.pc \notin TreeEnded
    /\ treeRun' = [treeRun EXCEPT !.pc = "killed"] /\ TreeFault
    /\ lost' = IF treeRun.pc \in {"refind", "checkpoint", "discard"} THEN lost \cup {treeRun.id} ELSE lost
    /\ UNCHANGED <<curated, onDisk, inMemory>> /\ Elsewhere

\* The next run; meanwhile someone may have deleted the collection.
NextTreeRun ==
    /\ treeRun.pc \in TreeEnded /\ treeRuns < MaxTreeRuns
    /\ treeRuns' = treeRuns + 1 /\ treeRun' = FreshTreeRun
    /\ inMemory' = onDisk
    /\ LET settled == [c \in CuratedIds |-> [curated[c] EXCEPT !.late = {}]] IN
       \E gone \in CuratedIds \cup {0} :
          curated' = [c \in CuratedIds |-> IF c = gone THEN NoCollection ELSE settled[c]]
    /\ UNCHANGED <<onDisk, deferred, lost, treeFaults>>

CuratedNext ==
    \/ LoadState \/ FindFinal \/ PostRoot \/ RefindRoot \/ CheckpointRoot \/ DiscardRoot
    \/ PostItem \/ ReconcileItem \/ ReconcileItemAgain \/ ApplySettings
    \/ ListOld \/ DeleteOld \/ SettleDelete \/ CheckStripped
    \/ PersistRoot \/ SaveState \/ Kill \/ NextTreeRun

CuratedSpec == CuratedInit /\ [][CuratedNext]_curatedVars

-----------------------------------------------------------------------------
(* Properties *)

\* A run that succeeds leaves every item of the document exactly once, nothing of
\* an older one, and the collection tracked, whatever it found half done.
WholeWhenDone ==
    TreeAt("done") =>
        /\ Mine.name = "final" /\ Mine.settings = "new" /\ onDisk = treeRun.id
        /\ \A n \in Nodes : Mine.items[n] = IF n \in TreeNodes THEN 1 ELSE 0

\* Where the tracked state is written at once, a half-created collection is never
\* forgotten: the next run finds it in resources.yaml and completes it.
NoForgottenRoot ==
    ~deferred /\ treeRun.pc \in TreeEnded =>
        \A c \in CuratedIds : curated[c].name = "temporary" => c = onDisk \/ c \in lost

\* Items are only added to a collection of which nothing old remains.
NewAfterOld ==
    \A c \in CuratedIds :
        (\E n \in Nodes : curated'[c].items[n] > curated[c].items[n])
        => \A n \in Nodes \ TreeNodes : curated[c].items[n] = 0

\* No step of a run, or of the run after a failed one, breaks any of it.
TreeUpdateIsSafe ==
    [][CuratedTypeOK' /\ WholeWhenDone' /\ NoForgottenRoot' /\ NewAfterOld]_curatedVars
=============================================================================
