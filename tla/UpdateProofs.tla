----------------------------- MODULE UpdateProofs -----------------------------
(***************************************************************************)
(* Theorems about updates that are made piece by piece and may break off   *)
(* between any two: the items of a curated collection, the files of the    *)
(* curated directory, the files of a specification, and the calls of a     *)
(* granular update.  Each is for every value of the constants.             *)
(***************************************************************************)
EXTENDS CollectionDelta, CuratedFiles, SpecFiles, FiniteSetTheorems, WellFoundedInduction, TLAPS

-----------------------------------------------------------------------------
(* One curated collection                                                  *)

\* The items of the document before the k-th.
ItemBefore(k, n) == \E j \in 1..Len(Tree) : j < k /\ Tree[j] = n
HasPlaced(m, k) == \A n \in Nodes : m.items[n] = IF ItemBefore(k, n) THEN 1 ELSE 0

Holding == TreeStages \ {"load", "find", "post", "failed", "killed"}
TreeWritten == {"settings", "persist", "save", "done"}

\* What run q has of its collection m: nothing before its tree, then the items of
\* the document up to the next one, and no others.
TreeStageOK(q, m) ==
    /\ q.pc \in Holding \ {"list"} => m.name # "absent"
    /\ q.pc \in {"refind", "checkpoint", "strip", "settle", "check"} => q.next = 1
    /\ q.pc \in {"refind", "checkpoint", "tree"} \cup TreeWritten => HasPlaced(m, q.next)
    /\ q.pc \in TreeWritten => q.next = Len(Tree) + 1
    /\ q.pc \in {"reconcile", "reconcileAgain"} =>
          /\ q.next \in 1..Len(Tree) /\ m.items[Tree[q.next]] \in {0, 1}
          /\ \A n \in Nodes \ {Tree[q.next]} : m.items[n] = IF ItemBefore(q.next, n) THEN 1 ELSE 0
    /\ q.pc \in {"persist", "save", "done"} => m.name = "final" /\ m.settings = "new"

HeldTree == treeRun.pc \in Holding => treeRun.id \in CuratedIds /\ TreeStageOK(treeRun, Mine)
TrackedTree ==
    /\ treeRun.pc = "save" => inMemory = treeRun.id
    /\ treeRun.pc = "done" => onDisk = treeRun.id

\* Only the item under way may be late.
OnlyNodeLate ==
    /\ treeRun.pc \notin {"reconcile"} \cup TreeEnded => \A c \in CuratedIds : curated[c].late = {}
    /\ treeRun.pc = "reconcile" =>
          \A c \in CuratedIds : curated[c].late \subseteq (IF c = treeRun.id THEN {Node} ELSE {})

\* A half-created root is tracked, the one under way, or cut off.
Fresh == {"refind", "checkpoint", "discard"}
RootsKnown ==
    ~deferred => \A c \in CuratedIds : curated[c].name = "temporary" =>
        \/ c \in lost
        \/ treeRun.pc \in {"load"} \cup TreeEnded /\ c = onDisk
        \/ treeRun.pc \in Holding /\ c = treeRun.id /\ (treeRun.pc \in Fresh \/ c = onDisk)

CuratedInv == CuratedTypeOK /\ HeldTree /\ TrackedTree /\ OnlyNodeLate /\ RootsKnown

LEMMA ItemBeforeNext ==
    /\ \A n \in Nodes : ~ ItemBefore(1, n)
    /\ \A k \in 1..Len(Tree) : /\ Tree[k] \in Nodes /\ ~ ItemBefore(k, Tree[k])
                               /\ \A n \in Nodes : ItemBefore(k + 1, n) <=> n = Tree[k] \/ ItemBefore(k, n)
    /\ \A n \in Nodes : ItemBefore(Len(Tree) + 1, n) <=> n \in TreeNodes
<1>1. Len(Tree) \in Nat /\ \A k \in 1..Len(Tree) : Tree[k] \in Nodes
  BY CuratedAssumption
<1>2. \A j, k \in 1..Len(Tree) : Tree[j] = Tree[k] => j = k
  BY CuratedAssumption
<1>3. \A n \in Nodes : ~ ItemBefore(1, n)
  BY <1>1, SMT DEF ItemBefore
<1>4. \A k \in 1..Len(Tree) : ~ ItemBefore(k, Tree[k])
  BY <1>1, <1>2, SMT DEF ItemBefore
<1>5. ASSUME NEW k \in 1..Len(Tree), NEW n \in Nodes PROVE ItemBefore(k + 1, n) <=> n = Tree[k] \/ ItemBefore(k, n)
  BY <1>1, SMT DEF ItemBefore
<1>6. ASSUME NEW n \in Nodes PROVE ItemBefore(Len(Tree) + 1, n) <=> n \in TreeNodes
  BY <1>1, SMT DEF ItemBefore, TreeNodes
<1> QED
  BY <1>1, <1>3, <1>4, <1>5, <1>6

LEMMA TreeFaultCounts ==
    ASSUME CuratedInv, TreeFault \/ TreeWorks PROVE treeFaults' \in 0..MaxTreeFaults
BY CuratedAssumption, SMT DEF CuratedInv, CuratedTypeOK, TreeFault, TreeWorks

LEMMA TreeGotoTyped ==
    ASSUME CuratedInv, NEW pc \in TreeStages, TreeGoto(pc)
    PROVE  treeRun' \in TreeRun /\ treeRun'.pc = pc /\ treeRun'.id = treeRun.id /\ treeRun'.next = treeRun.next
<1>1. treeRun \in TreeRun /\ 1 \in 1..CreateAttempts /\ 0 \in 0..DeleteRetries
  BY CuratedAssumption, SMT DEF CuratedInv, CuratedTypeOK
<1> QED
  BY <1>1 DEF TreeGoto, TreeRun

LEMMA NextNodeTyped ==
    ASSUME CuratedInv, treeRun.next \in 1..Len(Tree), NextNode
    PROVE  treeRun' \in TreeRun /\ treeRun'.pc = "tree" /\ treeRun'.id = treeRun.id /\ treeRun'.next = treeRun.next + 1
<1>1. treeRun \in TreeRun /\ 1 \in 1..CreateAttempts /\ treeRun.next + 1 \in 1..(Len(Tree) + 1)
  BY CuratedAssumption, SMT DEF CuratedInv, CuratedTypeOK
<1> QED
  BY <1>1 DEF NextNode, TreeRun, TreeStages

\* A run that fails or is killed, wherever it was.
LEMMA BrokenOffKeeps ==
    ASSUME CuratedInv, treeRun' \in TreeRun, treeRun'.pc \in {"failed", "killed"},
           UNCHANGED <<onDisk, deferred, treeRuns>>, inMemory' \in CuratedIds \cup {0},
           lost \subseteq lost', lost' \subseteq CuratedIds, treeFaults' \in 0..MaxTreeFaults,
           curated' \in [CuratedIds -> Collection], treeRun.pc \notin TreeEnded,
           \A c \in CuratedIds : curated'[c].name = "temporary" => curated[c].name = "temporary",
           treeRun.pc \in Fresh => treeRun.id \in lost' \/ curated'[treeRun.id].name # "temporary"
    PROVE  CuratedInv'
<1>1. CuratedTypeOK'
  BY DEF CuratedInv, CuratedTypeOK
<1>2. HeldTree' /\ TrackedTree' /\ OnlyNodeLate'
  BY DEF HeldTree, Holding, TrackedTree, OnlyNodeLate, TreeEnded
<1>3. RootsKnown'
  <2> SUFFICES ASSUME ~deferred, NEW c \in CuratedIds, curated'[c].name = "temporary"
               PROVE  c \in lost' \/ c = onDisk
    BY DEF RootsKnown, TreeEnded
  <2> QED
    BY DEF CuratedInv, RootsKnown
<1> QED
  BY <1>1, <1>2, <1>3 DEF CuratedInv

\* A step of a run in the collection that it holds, after its creation.
LEMMA WorkKeeps ==
    ASSUME CuratedInv, treeRun' \in TreeRun, treeRun'.id = treeRun.id,
           treeRun.pc \in Holding \ (Fresh \cup TreeEnded),
           treeRun'.pc \in Holding \ (Fresh \cup TreeEnded \cup {"save"}),
           UNCHANGED <<onDisk, inMemory, lost, deferred, treeRuns>>, treeFaults' \in 0..MaxTreeFaults,
           curated' \in [CuratedIds -> Collection],
           \A c \in CuratedIds \ {treeRun.id} : curated'[c] = curated[c],
           curated'[treeRun.id].name = "temporary" => curated[treeRun.id].name = "temporary",
           TreeStageOK(treeRun', curated'[treeRun.id]), OnlyNodeLate'
    PROVE  CuratedInv'
<1>1. CuratedTypeOK'
  BY DEF CuratedInv, CuratedTypeOK
<1>2. HeldTree' /\ TrackedTree'
  BY DEF CuratedInv, HeldTree, Holding, TrackedTree, TreeEnded, Mine
<1>3. RootsKnown'
  <2> SUFFICES ASSUME ~deferred, NEW c \in CuratedIds, curated'[c].name = "temporary"
               PROVE  c \in lost \/ (c = treeRun.id /\ c = onDisk)
    BY DEF RootsKnown
  <2>1. curated[c].name = "temporary"
    OBVIOUS
  <2> QED
    BY <2>1 DEF CuratedInv, RootsKnown, Holding
<1> QED
  BY <1>1, <1>2, <1>3 DEF CuratedInv

\* The items of the held collection change, and what is late of them.
ItemsBecome(items, late) ==
    curated' = [curated EXCEPT ![treeRun.id] = [Mine EXCEPT !.items = items, !.late = late]]
LEMMA ItemsTyped ==
    ASSUME CuratedInv, treeRun.id \in CuratedIds, NEW items \in [Nodes -> 0..2], NEW late \in SUBSET Nodes,
           ItemsBecome(items, late)
    PROVE  /\ curated' \in [CuratedIds -> Collection]
           /\ \A c \in CuratedIds \ {treeRun.id} : curated'[c] = curated[c]
           /\ curated'[treeRun.id].items = items /\ curated'[treeRun.id].late = late
           /\ curated'[treeRun.id].name = Mine.name /\ curated'[treeRun.id].settings = Mine.settings
BY DEF CuratedInv, CuratedTypeOK, ItemsBecome, Mine, Collection

LEMMA KeptTyped ==
    ASSUME CuratedInv, UNCHANGED curated
    PROVE  /\ curated' \in [CuratedIds -> Collection] /\ \A c \in CuratedIds : curated'[c] = curated[c]
           /\ \A i \in CuratedIds \cup {0} : i \in CuratedIds => curated[i] \in Collection
BY DEF CuratedInv, CuratedTypeOK

LEMMA LoadStateKeeps == ASSUME CuratedInv, LoadState PROVE CuratedInv'
<1>1. treeRun' \in TreeRun /\ treeRun'.id = onDisk /\ treeRun'.pc = IF onDisk = 0 THEN "find" ELSE "list"
  BY DEF CuratedInv, CuratedTypeOK, LoadState, TreeRun, TreeStages
<1>2. UNCHANGED <<curated, onDisk, inMemory, deferred, lost, treeFaults, treeRuns>> /\ treeRun.pc = "load"
  BY DEF LoadState, NoTreeChange, Elsewhere, TreeWorks, TreeAt
<1>3. CuratedTypeOK'
  BY <1>1, <1>2 DEF CuratedInv, CuratedTypeOK
<1>4. HeldTree' /\ TrackedTree' /\ OnlyNodeLate'
  BY <1>1, <1>2 DEF CuratedInv, CuratedTypeOK, HeldTree, Holding, TrackedTree, OnlyNodeLate, TreeStageOK, TreeEnded, TreeWritten
<1>5. RootsKnown'
  BY <1>1, <1>2, CuratedAssumption DEF CuratedInv, RootsKnown, Holding, TreeEnded, TreeStages, Fresh
<1> QED
  BY <1>3, <1>4, <1>5 DEF CuratedInv

LEMMA FindFinalKeeps == ASSUME CuratedInv, FindFinal PROVE CuratedInv'
<1>1. /\ UNCHANGED <<curated, onDisk, inMemory, deferred, lost, treeRuns>> /\ treeRun.pc = "find"
      /\ treeFaults' \in 0..MaxTreeFaults
  BY TreeFaultCounts DEF FindFinal, NoTreeChange, Elsewhere, TreeAt
<1>2. treeRun \in TreeRun /\ curated \in [CuratedIds -> Collection] /\ inMemory \in CuratedIds \cup {0}
      /\ lost \subseteq CuratedIds
  BY DEF CuratedInv, CuratedTypeOK
<1>3. CASE treeRun' \in TreeRun /\ treeRun'.pc = "failed"
  BY <1>1, <1>2, <1>3, BrokenOffKeeps DEF TreeEnded, Fresh
<1>4. CASE TreeGoto("failed")
  BY <1>3, <1>4, TreeGotoTyped DEF TreeStages
<1>5. CASE treeRun' = [treeRun EXCEPT !.pc = "failed"]
  BY <1>2, <1>3, <1>5 DEF TreeRun, TreeStages
<1>6. ASSUME treeRun' \in TreeRun, treeRun'.pc \in {"post", "list"}, treeRun'.pc = "list" => treeRun'.id \in CuratedIds
      PROVE  CuratedInv'
  <2>1. CuratedTypeOK'
    BY <1>1, <1>6 DEF CuratedInv, CuratedTypeOK
  <2>2. HeldTree' /\ TrackedTree' /\ OnlyNodeLate'
    BY <1>1, <1>6 DEF CuratedInv, HeldTree, Holding, TrackedTree, OnlyNodeLate, TreeStageOK, TreeEnded, TreeWritten
  <2>3. RootsKnown'
    BY <1>1, <1>6 DEF CuratedInv, RootsKnown, Holding, TreeEnded
  <2> QED
    BY <2>1, <2>2, <2>3 DEF CuratedInv
<1>7. CASE treeRun' = [treeRun EXCEPT !.pc = "post"]
  BY <1>2, <1>6, <1>7 DEF TreeRun, TreeStages
<1>8. CASE FinalNamed # {} /\ treeRun' = [treeRun EXCEPT !.pc = "list", !.id = CHOOSE c \in FinalNamed : TRUE]
  <2>1. (CHOOSE c \in FinalNamed : TRUE) \in CuratedIds
    BY <1>8 DEF FinalNamed
  <2> QED
    BY <1>2, <1>6, <1>8, <2>1 DEF TreeRun, TreeStages
<1> QED
  BY <1>4, <1>5, <1>7, <1>8 DEF FindFinal

LEMMA PostRootKeeps == ASSUME CuratedInv, PostRoot PROVE CuratedInv'
<1>1. /\ UNCHANGED <<onDisk, inMemory, deferred, lost, treeRuns>> /\ treeRun.pc = "post"
      /\ treeFaults' \in 0..MaxTreeFaults
  BY TreeFaultCounts DEF PostRoot, OnlyCloud, Elsewhere, TreeAt
<1>2. /\ treeRun \in TreeRun /\ curated \in [CuratedIds -> Collection] /\ inMemory \in CuratedIds \cup {0}
      /\ lost \subseteq CuratedIds
  BY DEF CuratedInv, CuratedTypeOK
<1>3. CASE UNCHANGED curated /\ TreeGoto("failed")
  BY <1>1, <1>2, <1>3, BrokenOffKeeps, TreeGotoTyped DEF TreeEnded, Fresh, TreeStages
<1>4. ASSUME NEW c \in CuratedIds, curated' = [curated EXCEPT ![c] = [NoCollection EXCEPT !.name = "temporary"]],
             NEW pc \in {"checkpoint", "refind"}, treeRun' = [treeRun EXCEPT !.pc = pc, !.id = c, !.next = 1]
      PROVE  CuratedInv'
  <2> DEFINE made == [NoCollection EXCEPT !.name = "temporary"]
  <2>1. made \in Collection /\ made.late = {} /\ made.name = "temporary" /\ \A n \in Nodes : made.items[n] = 0
    BY DEF NoCollection, Collection, NoItems
  <2> HIDE DEF made
  <2>2. /\ curated' \in [CuratedIds -> Collection] /\ curated'[c] = made
        /\ \A d \in CuratedIds \ {c} : curated'[d] = curated[d]
    BY <1>2, <1>4, <2>1 DEF made
  <2>3. treeRun' \in TreeRun /\ treeRun'.pc = pc /\ treeRun'.id = c /\ treeRun'.next = 1
    <3>1. 1 \in 1..(Len(Tree) + 1)
      BY CuratedAssumption, SMT
    <3> QED
      BY <1>2, <1>4, <3>1 DEF TreeRun, TreeStages
  <2>4. CuratedTypeOK'
    BY <1>1, <2>2, <2>3 DEF CuratedInv, CuratedTypeOK
  <2>5. HeldTree'
    <3>1. TreeStageOK(treeRun', made)
      BY <2>1, <2>3, ItemBeforeNext DEF TreeStageOK, HasPlaced, TreeWritten
    <3> QED
      BY <2>2, <2>3, <3>1 DEF HeldTree, Mine
  <2>6. TrackedTree' /\ OnlyNodeLate'
    BY <1>1, <2>1, <2>2, <2>3 DEF CuratedInv, TrackedTree, OnlyNodeLate, TreeEnded
  <2>7. RootsKnown'
    <3> SUFFICES ASSUME ~deferred, NEW d \in CuratedIds, curated'[d].name = "temporary" PROVE d \in lost \/ d = c
      BY <1>1, <2>3 DEF RootsKnown, Holding, Fresh, TreeStages
    <3> QED
      BY <1>1, <2>2 DEF CuratedInv, RootsKnown, Holding, TreeEnded
  <2> QED
    BY <2>4, <2>5, <2>6, <2>7 DEF CuratedInv
<1> QED
  BY <1>3, <1>4 DEF PostRoot

LEMMA RefindRootKeeps == ASSUME CuratedInv, RefindRoot PROVE CuratedInv'
<1>1. /\ UNCHANGED <<curated, onDisk, inMemory, deferred, treeRuns>> /\ treeRun.pc = "refind"
      /\ treeFaults' \in 0..MaxTreeFaults
  BY TreeFaultCounts DEF RefindRoot, Elsewhere, TreeAt
<1>2. /\ treeRun \in TreeRun /\ curated \in [CuratedIds -> Collection] /\ inMemory \in CuratedIds \cup {0}
      /\ lost \subseteq CuratedIds /\ treeRun.id \in CuratedIds /\ TreeStageOK(treeRun, Mine)
  BY <1>1 DEF CuratedInv, CuratedTypeOK, HeldTree, Holding, TreeStages
<1>3. CASE TreeGoto("failed") /\ lost' = lost \cup {treeRun.id}
  BY <1>1, <1>2, <1>3, BrokenOffKeeps, TreeGotoTyped DEF TreeEnded, TreeStages
<1>4. CASE TreeGoto("checkpoint") /\ UNCHANGED lost
  <2>1. treeRun' \in TreeRun /\ treeRun'.pc = "checkpoint" /\ treeRun'.id = treeRun.id /\ treeRun'.next = treeRun.next
    BY <1>4, TreeGotoTyped DEF TreeStages
  <2>2. CuratedTypeOK'
    BY <1>1, <1>4, <2>1 DEF CuratedInv, CuratedTypeOK
  <2>3. HeldTree'
    <3>1. TreeStageOK(treeRun', Mine)
      BY <1>1, <1>2, <2>1 DEF TreeStageOK, Holding, TreeWritten, TreeStages
    <3> QED
      BY <1>1, <1>2, <2>1, <3>1 DEF HeldTree, Mine
  <2>4. TrackedTree' /\ OnlyNodeLate'
    BY <1>1, <2>1 DEF CuratedInv, TrackedTree, OnlyNodeLate, TreeEnded
  <2>5. RootsKnown'
    BY <1>1, <1>4, <2>1 DEF CuratedInv, RootsKnown, Holding, Fresh, TreeEnded, TreeStages
  <2> QED
    BY <2>2, <2>3, <2>4, <2>5 DEF CuratedInv
<1> QED
  BY <1>3, <1>4 DEF RefindRoot

LEMMA CheckpointRootKeeps == ASSUME CuratedInv, CheckpointRoot PROVE CuratedInv'
<1>1. /\ UNCHANGED <<curated, lost, deferred, treeRuns>> /\ treeRun.pc = "checkpoint" /\ inMemory' = treeRun.id
      /\ treeFaults' \in 0..MaxTreeFaults
  BY TreeFaultCounts DEF CheckpointRoot, Elsewhere, TreeAt
<1>2. /\ treeRun \in TreeRun /\ curated \in [CuratedIds -> Collection] /\ treeRun.id \in CuratedIds
      /\ TreeStageOK(treeRun, Mine)
  BY <1>1 DEF CuratedInv, CuratedTypeOK, HeldTree, Holding, TreeStages
<1>3. \E pc \in {"tree", "discard"} :
         /\ TreeGoto(pc)
         /\ onDisk' = (IF pc = "tree" /\ ~deferred THEN treeRun.id ELSE onDisk)
         /\ pc = "discard" => ~deferred
  BY DEF CheckpointRoot
<1>4. PICK pc \in {"tree", "discard"} : /\ TreeGoto(pc)
                                        /\ onDisk' = (IF pc = "tree" /\ ~deferred THEN treeRun.id ELSE onDisk)
                                        /\ pc = "discard" => ~deferred
  BY <1>3
<1>5. treeRun' \in TreeRun /\ treeRun'.pc = pc /\ treeRun'.id = treeRun.id /\ treeRun'.next = treeRun.next
  BY <1>4, TreeGotoTyped DEF TreeStages
<1>6. CuratedTypeOK'
  BY <1>1, <1>2, <1>4, <1>5 DEF CuratedInv, CuratedTypeOK
<1>7. HeldTree'
  <2>1. TreeStageOK(treeRun', Mine)
    BY <1>1, <1>2, <1>5 DEF TreeStageOK, Holding, TreeWritten, TreeStages
  <2> QED
    BY <1>1, <1>2, <1>5, <2>1 DEF HeldTree, Mine
<1>8. TrackedTree' /\ OnlyNodeLate'
  BY <1>1, <1>5 DEF CuratedInv, TrackedTree, OnlyNodeLate, TreeEnded
<1>9. RootsKnown'
  BY <1>1, <1>4, <1>5 DEF CuratedInv, RootsKnown, Holding, Fresh, TreeEnded, TreeStages
<1> QED
  BY <1>6, <1>7, <1>8, <1>9 DEF CuratedInv

LEMMA DiscardRootKeeps == ASSUME CuratedInv, DiscardRoot PROVE CuratedInv'
<1>1. /\ UNCHANGED <<onDisk, inMemory, deferred, treeRuns>> /\ treeRun.pc = "discard"
      /\ treeFaults' \in 0..MaxTreeFaults
  BY TreeFaultCounts DEF DiscardRoot, Elsewhere, TreeAt
<1>2. /\ curated \in [CuratedIds -> Collection] /\ treeRun.id \in CuratedIds /\ lost \subseteq CuratedIds
      /\ inMemory \in CuratedIds \cup {0}
  BY <1>1 DEF CuratedInv, CuratedTypeOK, HeldTree, Holding, TreeStages
<1>3. NoCollection \in Collection /\ NoCollection.name = "absent"
  BY DEF NoCollection, Collection, NoItems
<1>4. treeRun' \in TreeRun /\ treeRun'.pc = "failed"
  BY TreeGotoTyped DEF DiscardRoot, TreeStages
<1>5. /\ curated' \in [CuratedIds -> Collection] /\ lost \subseteq lost' /\ lost' \subseteq CuratedIds
      /\ \A c \in CuratedIds : curated'[c].name = "temporary" => curated[c].name = "temporary"
      /\ treeRun.id \in lost' \/ curated'[treeRun.id].name # "temporary"
  BY <1>2, <1>3 DEF DiscardRoot
<1> QED
  BY <1>1, <1>2, <1>4, <1>5, BrokenOffKeeps DEF TreeEnded

\* Creating the items: one more of the node, which may be late.
LEMMA OneMoreTyped ==
    ASSUME CuratedInv, treeRun.id \in CuratedIds, treeRun.next \in 1..Len(Tree), Mine.items[Node] < 2,
           NEW late \in {{}, {Node}},
           \/ curated' = OneMore /\ late = {} /\ Mine.late = {}
           \/ curated' = [OneMore EXCEPT ![treeRun.id].late = late]
    PROVE  /\ curated' \in [CuratedIds -> Collection]
           /\ \A c \in CuratedIds \ {treeRun.id} : curated'[c] = curated[c]
           /\ curated'[treeRun.id].items[Node] = Mine.items[Node] + 1
           /\ \A n \in Nodes \ {Node} : curated'[treeRun.id].items[n] = Mine.items[n]
           /\ curated'[treeRun.id].late = late
           /\ curated'[treeRun.id].name = Mine.name /\ curated'[treeRun.id].settings = Mine.settings
<1>1. Node \in Nodes
  BY ItemBeforeNext DEF Node
<1>2. curated \in [CuratedIds -> Collection] /\ Mine \in Collection
  BY DEF CuratedInv, CuratedTypeOK, Mine
<1>3. Mine.items \in [Nodes -> 0..2]
  BY <1>2 DEF Collection
<1>4. Mine.items[Node] + 1 \in 0..2
  BY <1>1, <1>3, SMT
<1> DEFINE items == [Mine.items EXCEPT ![Node] = @ + 1]
<1>5. /\ items \in [Nodes -> 0..2] /\ items[Node] = Mine.items[Node] + 1
      /\ \A n \in Nodes \ {Node} : items[n] = Mine.items[n]
  BY <1>1, <1>3, <1>4
<1>6. ItemsBecome(items, late)
  BY <1>2 DEF ItemsBecome, OneMore, Mine, Collection
<1> HIDE DEF items
<1>7. late \in SUBSET Nodes
  BY <1>1
<1> QED
  BY <1>5, <1>6, <1>7, ItemsTyped

LEMMA PostItemKeeps == ASSUME CuratedInv, PostItem PROVE CuratedInv'
<1>1. /\ UNCHANGED <<onDisk, inMemory, deferred, lost, treeRuns>> /\ treeRun.pc = "tree"
      /\ treeFaults' \in 0..MaxTreeFaults
  BY TreeFaultCounts DEF PostItem, OnlyCloud, Elsewhere, TreeAt
<1>2. /\ treeRun \in TreeRun /\ curated \in [CuratedIds -> Collection] /\ treeRun.id \in CuratedIds
      /\ Mine \in Collection /\ lost \subseteq CuratedIds /\ inMemory \in CuratedIds \cup {0}
      /\ Mine.name # "absent" /\ HasPlaced(Mine, treeRun.next)
      /\ \A c \in CuratedIds : curated[c].late = {}
  BY <1>1 DEF CuratedInv, CuratedTypeOK, HeldTree, Holding, TreeStages, TreeStageOK, Mine, OnlyNodeLate, TreeEnded
<1>3. treeRun.next \in 1..(Len(Tree) + 1) /\ Len(Tree) \in Nat
  BY <1>2, CuratedAssumption DEF TreeRun
<1>4. CASE treeRun.next > Len(Tree) /\ TreeGoto("settings") /\ UNCHANGED curated
  <2>1. treeRun.next = Len(Tree) + 1
    BY <1>3, <1>4, SMT
  <2>2. treeRun' \in TreeRun /\ treeRun'.pc = "settings" /\ treeRun'.id = treeRun.id /\ treeRun'.next = treeRun.next
    BY <1>4, TreeGotoTyped DEF TreeStages
  <2>3. TreeStageOK(treeRun', Mine)
    BY <1>2, <2>1, <2>2 DEF TreeStageOK, TreeWritten
  <2>4. OnlyNodeLate'
    BY <1>2, <1>4, <2>2 DEF OnlyNodeLate
  <2> QED
    BY <1>1, <1>2, <1>4, <2>2, <2>3, <2>4, WorkKeeps DEF Holding, Fresh, TreeEnded, TreeStages, Mine
<1>5. ASSUME treeRun.next <= Len(Tree), Mine.items[Node] < 2,
             \/ curated' = OneMore /\ NextNode
             \/ /\ curated' = curated \/ \E late \in {{}, {Node}} : curated' = [OneMore EXCEPT ![treeRun.id].late = late]
                /\ treeRun' = [treeRun EXCEPT !.pc = "reconcile"]
             \/ curated' \in {curated, OneMore} /\ TreeGoto("failed")
      PROVE  CuratedInv'
  <2>1. treeRun.next \in 1..Len(Tree)
    BY <1>3, <1>5, SMT
  <2>2. Node \in Nodes /\ Node = Tree[treeRun.next]
    BY <2>1, ItemBeforeNext DEF Node
  <2>3. Mine.items[Node] = 0
    BY <1>2, <2>1, <2>2, ItemBeforeNext DEF HasPlaced
  <2>4. ~ (Mine.items[Node] + 1 = 0) /\ Mine.items[Node] + 1 = 1
    BY <2>3
  <2>5. CASE curated' = OneMore /\ NextNode
    <3>1. /\ curated' \in [CuratedIds -> Collection]
          /\ \A c \in CuratedIds \ {treeRun.id} : curated'[c] = curated[c]
          /\ curated'[treeRun.id].items[Node] = 1
          /\ \A n \in Nodes \ {Node} : curated'[treeRun.id].items[n] = Mine.items[n]
          /\ curated'[treeRun.id].late = {} /\ curated'[treeRun.id].name = Mine.name
      BY <1>2, <1>5, <2>1, <2>4, <2>5, OneMoreTyped DEF Mine
    <3>2. treeRun' \in TreeRun /\ treeRun'.pc = "tree" /\ treeRun'.id = treeRun.id /\ treeRun'.next = treeRun.next + 1
      BY <2>1, <2>5, NextNodeTyped
    <3>3. HasPlaced(curated'[treeRun.id], treeRun.next + 1)
      BY <1>2, <2>1, <2>2, <3>1, ItemBeforeNext DEF HasPlaced
    <3>4. TreeStageOK(treeRun', curated'[treeRun.id])
      BY <1>2, <3>1, <3>2, <3>3 DEF TreeStageOK, TreeWritten
    <3>5. OnlyNodeLate'
      BY <1>2, <3>1, <3>2 DEF OnlyNodeLate
    <3> QED
      BY <1>1, <3>1, <3>2, <3>4, <3>5, WorkKeeps DEF Holding, Fresh, TreeEnded, TreeStages, Mine
  <2>6. CASE treeRun' = [treeRun EXCEPT !.pc = "reconcile"]
             /\ (curated' = curated \/ \E late \in {{}, {Node}} : curated' = [OneMore EXCEPT ![treeRun.id].late = late])
    <3>1. treeRun' \in TreeRun /\ treeRun'.pc = "reconcile" /\ treeRun'.id = treeRun.id /\ treeRun'.next = treeRun.next
      BY <1>2, <2>6 DEF TreeRun, TreeStages
    <3>2. /\ curated' \in [CuratedIds -> Collection]
          /\ \A c \in CuratedIds \ {treeRun.id} : curated'[c] = curated[c]
          /\ curated'[treeRun.id].items[Node] \in {0, 1}
          /\ \A n \in Nodes \ {Node} : curated'[treeRun.id].items[n] = Mine.items[n]
          /\ curated'[treeRun.id].late \subseteq {Node} /\ curated'[treeRun.id].name = Mine.name
      <4>1. CASE curated' = curated
        BY <1>2, <2>3, <4>1 DEF Mine
      <4>2. ASSUME NEW late \in {{}, {Node}}, curated' = [OneMore EXCEPT ![treeRun.id].late = late]
            PROVE  <3>2!1 /\ <3>2!2 /\ <3>2!3 /\ <3>2!4 /\ <3>2!5
        <5>1. /\ curated' \in [CuratedIds -> Collection]
              /\ \A c \in CuratedIds \ {treeRun.id} : curated'[c] = curated[c]
              /\ curated'[treeRun.id].items[Node] = Mine.items[Node] + 1
              /\ \A n \in Nodes \ {Node} : curated'[treeRun.id].items[n] = Mine.items[n]
              /\ curated'[treeRun.id].late = late /\ curated'[treeRun.id].name = Mine.name
          BY <1>2, <1>5, <2>1, <4>2, OneMoreTyped
        <5> QED
          BY <2>4, <5>1
      <4> QED
        BY <2>6, <4>1, <4>2
    <3>3. TreeStageOK(treeRun', curated'[treeRun.id])
      BY <1>2, <2>1, <2>2, <3>1, <3>2 DEF TreeStageOK, TreeWritten, HasPlaced
    <3>4. OnlyNodeLate'
      BY <1>2, <2>2, <3>1, <3>2 DEF OnlyNodeLate, Node
    <3> QED
      BY <1>1, <3>1, <3>2, <3>3, <3>4, WorkKeeps DEF Holding, Fresh, TreeEnded, TreeStages, Mine
  <2>7. CASE curated' \in {curated, OneMore} /\ TreeGoto("failed")
    <3>1. treeRun' \in TreeRun /\ treeRun'.pc = "failed"
      BY <2>7, TreeGotoTyped DEF TreeStages
    <3>2. /\ curated' \in [CuratedIds -> Collection]
          /\ \A c \in CuratedIds : curated'[c].name = curated[c].name
      <4>1. CASE curated' = OneMore
        BY <1>2, <1>5, <2>1, <4>1, OneMoreTyped DEF Mine
      <4> QED
        BY <1>2, <2>7, <4>1
    <3> QED
      BY <1>1, <1>2, <3>1, <3>2, BrokenOffKeeps DEF TreeEnded, Fresh
  <2> QED
    BY <1>5, <2>5, <2>6, <2>7
<1> QED
  BY <1>4, <1>5 DEF PostItem

\* What a second look at an item's siblings finds is there once.
LEMMA NodeListed ==
    ASSUME CuratedInv, treeRun.id \in CuratedIds, treeRun.next \in 1..Len(Tree), TreeStageOK(treeRun, Mine),
           treeRun.pc \in {"reconcile", "reconcileAgain"}
    PROVE  /\ Node \in Nodes /\ Node = Tree[treeRun.next]
           /\ Node \in Listed => Mine.items[Node] = 1
           /\ Node \notin Listed /\ Mine.late = {} => Mine.items[Node] = 0
           /\ \A n \in Nodes \ {Node} : Mine.items[n] = IF ItemBefore(treeRun.next, n) THEN 1 ELSE 0
           /\ Mine.items[Node] \in {0, 1}
<1>1. Node \in Nodes /\ Node = Tree[treeRun.next]
  BY ItemBeforeNext DEF Node
<1>2. Mine.items[Node] \in {0, 1}
  BY <1>1 DEF TreeStageOK
<1>3. /\ Node \in Listed => Mine.items[Node] = 1
      /\ Node \notin Listed /\ Mine.late = {} => Mine.items[Node] = 0
  BY <1>1, <1>2, SMT DEF Listed
<1> QED
  BY <1>1, <1>2, <1>3 DEF TreeStageOK

LEMMA ReconcileItemKeeps == ASSUME CuratedInv, ReconcileItem \/ ReconcileItemAgain PROVE CuratedInv'
<1>1. /\ UNCHANGED <<onDisk, inMemory, deferred, lost, treeRuns>> /\ treeRun.pc \in {"reconcile", "reconcileAgain"}
      /\ treeFaults' \in 0..MaxTreeFaults
  BY TreeFaultCounts DEF ReconcileItem, ReconcileItemAgain, OnlyCloud, NoTreeChange, Elsewhere, TreeAt
<1>2. /\ treeRun \in TreeRun /\ curated \in [CuratedIds -> Collection] /\ treeRun.id \in CuratedIds
      /\ Mine \in Collection /\ lost \subseteq CuratedIds /\ inMemory \in CuratedIds \cup {0}
      /\ Mine.name # "absent" /\ TreeStageOK(treeRun, Mine) /\ treeRun.next \in 1..Len(Tree)
      /\ treeRun.pc = "reconcileAgain" => \A c \in CuratedIds : curated[c].late = {}
      /\ \A c \in CuratedIds \ {treeRun.id} : curated[c].late = {}
  BY <1>1 DEF CuratedInv, CuratedTypeOK, HeldTree, Holding, TreeStages, TreeStageOK, Mine, OnlyNodeLate, TreeEnded
<1>3. /\ Node \in Nodes /\ Node = Tree[treeRun.next]
      /\ Node \in Listed => Mine.items[Node] = 1
      /\ Node \notin Listed /\ Mine.late = {} => Mine.items[Node] = 0
      /\ \A n \in Nodes \ {Node} : Mine.items[n] = IF ItemBefore(treeRun.next, n) THEN 1 ELSE 0
      /\ Mine.items[Node] \in {0, 1}
  BY <1>1, <1>2, NodeListed
<1>4. CASE TreeGoto("failed") /\ UNCHANGED curated
  BY <1>1, <1>2, <1>4, BrokenOffKeeps, TreeGotoTyped DEF TreeEnded, Fresh, TreeStages
<1>5. ASSUME ~ (TreeGoto("failed") /\ UNCHANGED curated) PROVE CuratedInv'
  <2>1. /\ curated' \in [CuratedIds -> Collection] /\ \A c \in CuratedIds : curated'[c].late = {}
        /\ \A c \in CuratedIds \ {treeRun.id} : curated'[c] = curated[c]
        /\ curated'[treeRun.id].items = Mine.items /\ curated'[treeRun.id].name = Mine.name
    <3>1. CASE ReconcileItem
      <4>1. curated' = [curated EXCEPT ![treeRun.id].late = {}]
        BY <1>5, <3>1 DEF ReconcileItem
      <4> QED
        BY <1>2, <4>1 DEF Collection, Mine
    <3>2. CASE ReconcileItemAgain
      <4>1. curated' = curated /\ treeRun.pc = "reconcileAgain"
        BY <3>2 DEF ReconcileItemAgain, NoTreeChange, TreeAt
      <4> QED
        BY <1>2, <4>1 DEF Mine
    <3> QED
      BY <3>1, <3>2
  <2>2. \/ Node \in Listed /\ NextNode
        \/ treeRun.pc = "reconcile" /\ treeRun' = [treeRun EXCEPT !.pc = "reconcileAgain"]
        \/ /\ Node \notin Listed /\ treeRun.pc = "reconcileAgain" /\ treeRun.attempt # CreateAttempts
           /\ treeRun' = [treeRun EXCEPT !.pc = "tree", !.attempt = @ + 1]
    BY <1>5 DEF ReconcileItem, ReconcileItemAgain, NoTreeChange, TreeAt
  <2>3. CASE Node \in Listed /\ NextNode
    <3>1. treeRun' \in TreeRun /\ treeRun'.pc = "tree" /\ treeRun'.id = treeRun.id /\ treeRun'.next = treeRun.next + 1
      BY <1>2, <2>3, NextNodeTyped
    <3>2. HasPlaced(curated'[treeRun.id], treeRun.next + 1)
      BY <1>2, <1>3, <2>1, <2>3, ItemBeforeNext DEF HasPlaced
    <3>3. TreeStageOK(treeRun', curated'[treeRun.id]) /\ OnlyNodeLate'
      BY <1>2, <2>1, <3>1, <3>2 DEF TreeStageOK, TreeWritten, OnlyNodeLate
    <3> QED
      BY <1>1, <2>1, <3>1, <3>3, WorkKeeps DEF Holding, Fresh, TreeEnded, TreeStages, Mine
  <2>4. CASE treeRun.pc = "reconcile" /\ treeRun' = [treeRun EXCEPT !.pc = "reconcileAgain"]
    <3>1. treeRun' \in TreeRun /\ treeRun'.pc = "reconcileAgain" /\ treeRun'.id = treeRun.id
          /\ treeRun'.next = treeRun.next
      BY <1>2, <2>4 DEF TreeRun, TreeStages
    <3>2. TreeStageOK(treeRun', curated'[treeRun.id]) /\ OnlyNodeLate'
      BY <1>2, <1>3, <2>1, <3>1 DEF TreeStageOK, TreeWritten, OnlyNodeLate
    <3> QED
      BY <1>1, <2>1, <3>1, <3>2, WorkKeeps DEF Holding, Fresh, TreeEnded, TreeStages, Mine
  <2>5. CASE /\ Node \notin Listed /\ treeRun.pc = "reconcileAgain" /\ treeRun.attempt # CreateAttempts
             /\ treeRun' = [treeRun EXCEPT !.pc = "tree", !.attempt = @ + 1]
    <3>1. treeRun.attempt + 1 \in 1..CreateAttempts
      BY <1>2, <2>5, CuratedAssumption, SMT DEF TreeRun
    <3>2. treeRun' \in TreeRun /\ treeRun'.pc = "tree" /\ treeRun'.id = treeRun.id /\ treeRun'.next = treeRun.next
      BY <1>2, <2>5, <3>1 DEF TreeRun, TreeStages
    <3>3. Mine.items[Node] = 0
      BY <1>2, <1>3, <2>5 DEF Mine
    <3>4. HasPlaced(curated'[treeRun.id], treeRun.next)
      BY <1>2, <1>3, <2>1, <3>3, ItemBeforeNext DEF HasPlaced
    <3>5. TreeStageOK(treeRun', curated'[treeRun.id]) /\ OnlyNodeLate'
      BY <1>2, <2>1, <3>2, <3>4 DEF TreeStageOK, TreeWritten, OnlyNodeLate
    <3> QED
      BY <1>1, <2>1, <3>2, <3>5, WorkKeeps DEF Holding, Fresh, TreeEnded, TreeStages, Mine
  <2> QED
    BY <2>2, <2>3, <2>4, <2>5
<1> QED
  BY <1>4, <1>5

LEMMA ApplySettingsKeeps == ASSUME CuratedInv, ApplySettings PROVE CuratedInv'
<1> DEFINE applied == [curated EXCEPT ![treeRun.id].settings = "new", ![treeRun.id].name = "final"]
<1>1. /\ UNCHANGED <<onDisk, inMemory, deferred, lost, treeRuns>> /\ treeRun.pc = "settings"
      /\ treeFaults' \in 0..MaxTreeFaults
  BY TreeFaultCounts DEF ApplySettings, OnlyCloud, Elsewhere, TreeAt
<1>2. /\ curated \in [CuratedIds -> Collection] /\ treeRun.id \in CuratedIds
      /\ lost \subseteq CuratedIds /\ inMemory \in CuratedIds \cup {0}
      /\ TreeStageOK(treeRun, Mine) /\ \A c \in CuratedIds : curated[c].late = {}
  BY <1>1 DEF CuratedInv, CuratedTypeOK, HeldTree, Holding, TreeStages, OnlyNodeLate, TreeEnded
<1>3. /\ applied \in [CuratedIds -> Collection] /\ \A c \in CuratedIds : applied[c].late = {}
      /\ \A c \in CuratedIds \ {treeRun.id} : applied[c] = curated[c]
      /\ applied[treeRun.id].name = "final" /\ applied[treeRun.id].settings = "new"
      /\ applied[treeRun.id].items = Mine.items
  BY <1>2 DEF Collection, Mine
<1>4. \/ curated' = applied /\ TreeGoto("persist")
      \/ curated' \in {curated, applied} /\ TreeGoto("failed")
  BY DEF ApplySettings
<1> HIDE DEF applied
<1>5. CASE curated' = applied /\ TreeGoto("persist")
  <2>1. treeRun' \in TreeRun /\ treeRun'.pc = "persist" /\ treeRun'.id = treeRun.id /\ treeRun'.next = treeRun.next
    BY <1>5, TreeGotoTyped DEF TreeStages
  <2>2. TreeStageOK(treeRun', curated'[treeRun.id]) /\ OnlyNodeLate'
    BY <1>1, <1>2, <1>3, <1>5, <2>1 DEF TreeStageOK, TreeWritten, OnlyNodeLate, HasPlaced
  <2> QED
    BY <1>1, <1>3, <1>5, <2>1, <2>2, WorkKeeps DEF Holding, Fresh, TreeEnded, TreeStages
<1>6. CASE curated' \in {curated, applied} /\ TreeGoto("failed")
  <2>1. treeRun' \in TreeRun /\ treeRun'.pc = "failed"
    BY <1>6, TreeGotoTyped DEF TreeStages
  <2>2. curated' \in [CuratedIds -> Collection]
        /\ \A c \in CuratedIds : curated'[c].name = "temporary" => curated[c].name = "temporary"
    BY <1>2, <1>3, <1>6
  <2> QED
    BY <1>1, <1>2, <2>1, <2>2, BrokenOffKeeps DEF TreeEnded, Fresh
<1> QED
  BY <1>4, <1>5, <1>6

LEMMA ListOldKeeps == ASSUME CuratedInv, ListOld PROVE CuratedInv'
<1>1. /\ UNCHANGED <<curated, onDisk, inMemory, deferred, lost, treeRuns>> /\ treeRun.pc = "list"
      /\ treeFaults' \in 0..MaxTreeFaults
  BY TreeFaultCounts DEF ListOld, NoTreeChange, Elsewhere, TreeAt
<1>2. /\ treeRun \in TreeRun /\ curated \in [CuratedIds -> Collection] /\ treeRun.id \in CuratedIds
      /\ lost \subseteq CuratedIds /\ inMemory \in CuratedIds \cup {0}
      /\ \A c \in CuratedIds : curated[c].late = {}
  BY <1>1 DEF CuratedInv, CuratedTypeOK, HeldTree, Holding, TreeStages, OnlyNodeLate, TreeEnded
<1>3. CASE TreeGoto("failed")
  BY <1>1, <1>2, <1>3, BrokenOffKeeps, TreeGotoTyped DEF TreeEnded, Fresh, TreeStages
<1>4. CASE Exists(treeRun.id) /\ treeRun' = [treeRun EXCEPT !.pc = "strip", !.old = Listed, !.next = 1]
  <2>1. 1 \in 1..(Len(Tree) + 1) /\ Listed \in SUBSET Nodes
    BY CuratedAssumption, SMT DEF Listed
  <2>2. treeRun' \in TreeRun /\ treeRun'.pc = "strip" /\ treeRun'.id = treeRun.id /\ treeRun'.next = 1
    BY <1>2, <1>4, <2>1 DEF TreeRun, TreeStages
  <2>3. TreeStageOK(treeRun', curated'[treeRun.id]) /\ OnlyNodeLate'
    BY <1>1, <1>2, <1>4, <2>2 DEF TreeStageOK, TreeWritten, OnlyNodeLate, Exists
  <2> QED
    BY <1>1, <1>2, <2>2, <2>3, WorkKeeps DEF Holding, Fresh, TreeEnded, TreeStages
<1>5. CASE ~Exists(treeRun.id) /\ onDisk = treeRun.id /\ TreeGoto("find")
  <2>1. treeRun' \in TreeRun /\ treeRun'.pc = "find" /\ treeRun'.id = treeRun.id
    BY <1>5, TreeGotoTyped DEF TreeStages
  <2>2. CuratedTypeOK'
    BY <1>1, <2>1 DEF CuratedInv, CuratedTypeOK
  <2>3. HeldTree' /\ TrackedTree' /\ OnlyNodeLate'
    BY <1>1, <1>2, <2>1 DEF HeldTree, Holding, TrackedTree, OnlyNodeLate
  <2>4. RootsKnown'
    BY <1>1, <1>5, <2>1 DEF CuratedInv, RootsKnown, Exists, TreeEnded
  <2> QED
    BY <2>2, <2>3, <2>4 DEF CuratedInv
<1> QED
  BY <1>3, <1>4, <1>5 DEF ListOld

\* A folder goes with its items.
LEMMA WithoutTyped ==
    ASSUME CuratedInv, treeRun.id \in CuratedIds, NEW n \in Nodes,
           \A c \in CuratedIds : curated[c].late = {},
           curated' = [curated EXCEPT ![treeRun.id].items = Without(n)]
    PROVE  /\ curated' \in [CuratedIds -> Collection] /\ \A c \in CuratedIds : curated'[c].late = {}
           /\ \A c \in CuratedIds \ {treeRun.id} : curated'[c] = curated[c]
           /\ curated'[treeRun.id].name = Mine.name
<1>1. curated \in [CuratedIds -> Collection] /\ Mine \in Collection /\ Mine.items \in [Nodes -> 0..2]
  BY DEF CuratedInv, CuratedTypeOK, Collection, Mine
<1>2. Without(n) \in [Nodes -> 0..2]
  BY <1>1 DEF Without
<1> QED
  BY <1>1, <1>2 DEF Collection, Mine

LEMMA StripKeeps == ASSUME CuratedInv, DeleteOld \/ SettleDelete \/ CheckStripped PROVE CuratedInv'
<1>1. /\ UNCHANGED <<onDisk, inMemory, deferred, lost, treeRuns>> /\ treeRun.pc \in {"strip", "settle", "check"}
      /\ treeFaults' \in 0..MaxTreeFaults
  BY TreeFaultCounts DEF DeleteOld, SettleDelete, CheckStripped, OnlyCloud, NoTreeChange, Elsewhere, TreeAt
<1>2. /\ treeRun \in TreeRun /\ curated \in [CuratedIds -> Collection] /\ treeRun.id \in CuratedIds
      /\ lost \subseteq CuratedIds /\ inMemory \in CuratedIds \cup {0}
      /\ Mine.name # "absent" /\ treeRun.next = 1 /\ \A c \in CuratedIds : curated[c].late = {}
  BY <1>1 DEF CuratedInv, CuratedTypeOK, HeldTree, Holding, TreeStages, TreeStageOK, OnlyNodeLate, TreeEnded
<1>3. CASE TreeGoto("failed") /\ UNCHANGED curated
  BY <1>1, <1>2, <1>3, BrokenOffKeeps, TreeGotoTyped DEF TreeEnded, Fresh, TreeStages
<1>4. CASE CheckStripped /\ Listed = {} /\ TreeGoto("tree")
  <2>1. treeRun' \in TreeRun /\ treeRun'.pc = "tree" /\ treeRun'.id = treeRun.id /\ treeRun'.next = 1 /\ curated' = curated
    BY <1>2, <1>4, TreeGotoTyped DEF TreeStages, CheckStripped, NoTreeChange
  <2>2. \A n \in Nodes : Mine.items[n] = 0
    <3>1. Mine.items \in [Nodes -> 0..2] /\ Mine.late = {}
      BY <1>2 DEF Mine, Collection
    <3> QED
      BY <1>4, <3>1, SMT DEF Listed
  <2>3. HasPlaced(Mine, 1)
    BY <2>2, ItemBeforeNext DEF HasPlaced
  <2>4. TreeStageOK(treeRun', curated'[treeRun.id]) /\ OnlyNodeLate'
    BY <1>2, <2>1, <2>3 DEF TreeStageOK, TreeWritten, OnlyNodeLate, Mine
  <2> QED
    BY <1>1, <1>2, <2>1, <2>4, WorkKeeps DEF Holding, Fresh, TreeEnded, TreeStages
<1>5. ASSUME treeRun' \in TreeRun, treeRun'.pc \in {"strip", "settle", "check"}, treeRun'.id = treeRun.id,
             treeRun'.next = 1,
             curated' = curated \/ \E n \in Nodes : curated' = [curated EXCEPT ![treeRun.id].items = Without(n)]
      PROVE  CuratedInv'
  <2>1. /\ curated' \in [CuratedIds -> Collection] /\ \A c \in CuratedIds : curated'[c].late = {}
        /\ \A c \in CuratedIds \ {treeRun.id} : curated'[c] = curated[c]
        /\ curated'[treeRun.id].name = Mine.name
    <3>1. CASE curated' = curated
      BY <1>2, <3>1 DEF Mine
    <3> QED
      BY <1>2, <1>5, <3>1, WithoutTyped
  <2>2. TreeStageOK(treeRun', curated'[treeRun.id]) /\ OnlyNodeLate'
    BY <1>2, <1>5, <2>1 DEF TreeStageOK, TreeWritten, OnlyNodeLate
  <2> QED
    BY <1>1, <1>5, <2>1, <2>2, WorkKeeps DEF Holding, Fresh, TreeEnded, TreeStages, Mine
<1>6. CASE DeleteOld
  <2>1. CASE TreeGoto("check") /\ UNCHANGED curated
    BY <1>2, <1>5, <2>1, TreeGotoTyped DEF TreeStages
  <2>2. ASSUME NEW n \in treeRun.old, curated' \in {curated, [curated EXCEPT ![treeRun.id].items = Without(n)]},
               \/ treeRun' = [treeRun EXCEPT !.old = @ \ {n}]
               \/ treeRun' = [[treeRun EXCEPT !.old = @ \ {n}] EXCEPT !.pc = "settle", !.unsure = {n}]
        PROVE  CuratedInv'
    <3>1. n \in Nodes
      BY <1>2 DEF TreeRun
    <3>2. treeRun' \in TreeRun /\ treeRun'.pc \in {"strip", "settle", "check"} /\ treeRun'.id = treeRun.id
          /\ treeRun'.next = 1
      <4>1. treeRun.old \ {n} \in SUBSET Nodes /\ {n} \in SUBSET Nodes
        BY <1>2, <3>1 DEF TreeRun
      <4>2. CASE treeRun' = [treeRun EXCEPT !.old = @ \ {n}]
        BY <1>1, <1>2, <4>1, <4>2 DEF TreeRun
      <4>3. CASE treeRun' = [[treeRun EXCEPT !.old = @ \ {n}] EXCEPT !.pc = "settle", !.unsure = {n}]
        <5>1. "settle" \in TreeStages
          BY DEF TreeStages
        <5> QED
          BY <1>2, <4>1, <4>3, <5>1 DEF TreeRun
      <4> QED
        BY <2>2, <4>2, <4>3
    <3> QED
      BY <1>5, <2>2, <3>1, <3>2
  <2> QED
    BY <1>3, <1>6, <2>1, <2>2 DEF DeleteOld
<1>7. CASE SettleDelete
  <2>1. CASE curated' = curated /\ treeRun' = [treeRun EXCEPT !.pc = "strip", !.retries = 0, !.unsure = {}]
    <3>1. 0 \in 0..DeleteRetries
      BY CuratedAssumption, SMT
    <3> QED
      BY <1>2, <1>5, <2>1, <3>1 DEF TreeRun, TreeStages
  <2>2. CASE /\ treeRun.retries < DeleteRetries /\ treeRun' = [treeRun EXCEPT !.retries = @ + 1]
             /\ \/ \E n \in treeRun.unsure \cap Listed :
                      curated' = [curated EXCEPT ![treeRun.id].items = Without(n)]
                \/ UNCHANGED curated
    <3>1. treeRun.retries + 1 \in 0..DeleteRetries
      BY <1>2, <2>2, CuratedAssumption, SMT DEF TreeRun
    <3>2. treeRun' \in TreeRun /\ treeRun'.pc = treeRun.pc /\ treeRun'.id = treeRun.id /\ treeRun'.next = 1
      BY <1>2, <2>2, <3>1 DEF TreeRun
    <3>3. curated' = curated \/ \E n \in Nodes : curated' = [curated EXCEPT ![treeRun.id].items = Without(n)]
      BY <2>2 DEF Listed
    <3> QED
      BY <1>1, <1>5, <3>2, <3>3
  <2> QED
    BY <1>3, <1>7, <2>1, <2>2 DEF SettleDelete
<1>8. CASE CheckStripped
  BY <1>3, <1>4, <1>8 DEF CheckStripped, NoTreeChange
<1> QED
  BY <1>6, <1>7, <1>8

LEMMA PersistKeeps == ASSUME CuratedInv, PersistRoot \/ SaveState PROVE CuratedInv'
<1>1. /\ UNCHANGED <<curated, deferred, lost, treeRuns>> /\ treeRun.pc \in {"persist", "save"}
      /\ treeFaults' \in 0..MaxTreeFaults
  BY TreeFaultCounts DEF PersistRoot, SaveState, Elsewhere, TreeAt
<1>2. /\ treeRun \in TreeRun /\ curated \in [CuratedIds -> Collection] /\ treeRun.id \in CuratedIds
      /\ lost \subseteq CuratedIds /\ inMemory \in CuratedIds \cup {0} /\ onDisk \in CuratedIds \cup {0}
      /\ TreeStageOK(treeRun, Mine) /\ \A c \in CuratedIds : curated[c].late = {}
      /\ treeRun.pc = "save" => inMemory = treeRun.id
  BY <1>1 DEF CuratedInv, CuratedTypeOK, HeldTree, Holding, TreeStages, OnlyNodeLate, TreeEnded, TrackedTree
<1>3. CASE TreeGoto("failed") /\ UNCHANGED <<onDisk, inMemory>>
  BY <1>1, <1>2, <1>3, BrokenOffKeeps, TreeGotoTyped DEF TreeEnded, Fresh, TreeStages
<1>4. ASSUME NEW pc \in {"save", "done"}, TreeGoto(pc), inMemory' = treeRun.id,
             onDisk' = (IF pc = "done" THEN treeRun.id ELSE onDisk), pc = "save" => deferred
      PROVE  CuratedInv'
  <2>1. treeRun' \in TreeRun /\ treeRun'.pc = pc /\ treeRun'.id = treeRun.id /\ treeRun'.next = treeRun.next
    BY <1>4, TreeGotoTyped DEF TreeStages
  <2>2. CuratedTypeOK'
    BY <1>1, <1>2, <1>4, <2>1 DEF CuratedInv, CuratedTypeOK
  <2>3. HeldTree'
    <3>1. TreeStageOK(treeRun', Mine)
      BY <1>1, <1>2, <2>1 DEF TreeStageOK, TreeWritten, Holding, TreeStages
    <3> QED
      BY <1>1, <1>2, <2>1, <3>1 DEF HeldTree, Mine
  <2>4. TrackedTree' /\ OnlyNodeLate'
    BY <1>1, <1>2, <1>4, <2>1 DEF TrackedTree, OnlyNodeLate
  <2>5. RootsKnown'
    <3>1. \A c \in CuratedIds : c = treeRun.id => curated[c].name # "temporary"
      BY <1>1, <1>2 DEF TreeStageOK, Mine
    <3> QED
      BY <1>1, <1>4, <2>1, <3>1 DEF CuratedInv, RootsKnown, TreeEnded, Fresh
  <2> QED
    BY <2>2, <2>3, <2>4, <2>5 DEF CuratedInv
<1>5. CASE PersistRoot
  BY <1>4, <1>5 DEF PersistRoot
<1>6. CASE SaveState
  BY <1>2, <1>3, <1>4, <1>6 DEF SaveState, TreeAt
<1> QED
  BY <1>5, <1>6

LEMMA KillTreeKeeps == ASSUME CuratedInv, Kill PROVE CuratedInv'
<1>1. /\ UNCHANGED <<curated, onDisk, inMemory, deferred, treeRuns>> /\ treeRun.pc \notin TreeEnded
      /\ treeFaults' \in 0..MaxTreeFaults
  BY TreeFaultCounts DEF Kill, Elsewhere
<1>2. /\ treeRun \in TreeRun /\ curated \in [CuratedIds -> Collection]
      /\ lost \subseteq CuratedIds /\ inMemory \in CuratedIds \cup {0}
      /\ treeRun.pc \in Fresh => treeRun.id \in CuratedIds
  BY DEF CuratedInv, CuratedTypeOK, HeldTree, Holding, TreeStages, Fresh
<1>3. treeRun' \in TreeRun /\ treeRun'.pc = "killed"
  BY <1>2 DEF Kill, TreeRun, TreeStages
<1>4. lost' = IF treeRun.pc \in Fresh THEN lost \cup {treeRun.id} ELSE lost
  BY DEF Kill, Fresh
<1> QED
  BY <1>1, <1>2, <1>3, <1>4, BrokenOffKeeps

LEMMA NextTreeRunKeeps == ASSUME CuratedInv, NextTreeRun PROVE CuratedInv'
<1>1. /\ UNCHANGED <<onDisk, deferred, lost, treeFaults>> /\ treeRun.pc \in TreeEnded /\ inMemory' = onDisk
      /\ treeRun' = FreshTreeRun /\ treeRuns' = treeRuns + 1 /\ treeRuns < MaxTreeRuns
  BY DEF NextTreeRun
<1>2. PICK gone \in CuratedIds \cup {0} :
         curated' = [c \in CuratedIds |-> IF c = gone THEN NoCollection ELSE [curated[c] EXCEPT !.late = {}]]
  BY DEF NextTreeRun
<1>3. /\ treeRun' \in TreeRun /\ treeRun'.pc = "load" /\ treeRuns' \in 0..MaxTreeRuns
  <2>1. /\ 1 \in 1..(Len(Tree) + 1) /\ 1 \in 1..CreateAttempts /\ 0 \in 0..DeleteRetries
        /\ treeRuns + 1 \in 0..MaxTreeRuns
    BY <1>1, CuratedAssumption, SMT DEF CuratedInv, CuratedTypeOK
  <2> QED
    BY <1>1, <2>1 DEF FreshTreeRun, TreeRun, TreeStages
<1>4. NoCollection \in Collection /\ NoCollection.name = "absent" /\ NoCollection.late = {}
  BY DEF NoCollection, Collection, NoItems
<1>5. curated \in [CuratedIds -> Collection]
  BY DEF CuratedInv, CuratedTypeOK
<1>6. /\ curated' \in [CuratedIds -> Collection] /\ \A c \in CuratedIds : curated'[c].late = {}
      /\ \A c \in CuratedIds : curated'[c].name = "temporary" => curated[c].name = "temporary"
  <2>1. ASSUME NEW c \in CuratedIds
        PROVE  /\ [curated[c] EXCEPT !.late = {}] \in Collection
               /\ [curated[c] EXCEPT !.late = {}].late = {} /\ [curated[c] EXCEPT !.late = {}].name = curated[c].name
    BY <1>5 DEF Collection
  <2> QED
    BY <1>2, <1>4, <2>1
<1>7. CuratedTypeOK'
  BY <1>1, <1>3, <1>6 DEF CuratedInv, CuratedTypeOK
<1>8. HeldTree' /\ TrackedTree' /\ OnlyNodeLate'
  BY <1>3, <1>6 DEF HeldTree, Holding, TrackedTree, OnlyNodeLate
<1>9. RootsKnown'
  <2>1. \A c \in CuratedIds : ~deferred /\ curated[c].name = "temporary" => c \in lost \/ c = onDisk
    BY <1>1 DEF CuratedInv, RootsKnown, TreeEnded, Fresh
  <2> QED
    BY <1>1, <1>3, <1>6, <2>1 DEF RootsKnown
<1> QED
  BY <1>7, <1>8, <1>9 DEF CuratedInv

LEMMA CuratedInitOK == CuratedInit => CuratedInv
<1> SUFFICES ASSUME CuratedInit PROVE CuratedInv
  OBVIOUS
<1>1. /\ 1 \in 1..(Len(Tree) + 1) /\ 1 \in 1..CreateAttempts /\ 0 \in 0..DeleteRetries
      /\ 0 \in 0..MaxTreeFaults /\ 0 \in 0..MaxTreeRuns
  BY CuratedAssumption, SMT
<1>2. treeRun \in TreeRun /\ treeRun.pc = "load"
  BY <1>1 DEF CuratedInit, FreshTreeRun, TreeRun, TreeStages
<1>3. /\ curated \in [CuratedIds -> Collection]
      /\ \A c \in CuratedIds : curated[c].late = {} /\ curated[c].name # "temporary"
  BY DEF CuratedInit, Collection, NoCollection, NoItems
<1>4. {onDisk, inMemory} \subseteq CuratedIds \cup {0}
  BY CuratedAssumption DEF CuratedInit
<1>5. CuratedTypeOK
  BY <1>1, <1>2, <1>3, <1>4 DEF CuratedInit, CuratedTypeOK
<1> QED
  BY <1>2, <1>3, <1>5 DEF CuratedInv, HeldTree, Holding, TrackedTree, OnlyNodeLate, RootsKnown

LEMMA CuratedKeeps == CuratedInv /\ [CuratedNext]_curatedVars => CuratedInv'
<1>1. ASSUME CuratedInv, UNCHANGED curatedVars PROVE CuratedInv'
  BY <1>1 DEF curatedVars, CuratedInv, CuratedTypeOK, HeldTree, Mine, TrackedTree, OnlyNodeLate, Node, RootsKnown
<1> QED
  BY <1>1, LoadStateKeeps, FindFinalKeeps, PostRootKeeps, RefindRootKeeps, CheckpointRootKeeps, DiscardRootKeeps,
     PostItemKeeps, ReconcileItemKeeps, ApplySettingsKeeps, ListOldKeeps, StripKeeps, PersistKeeps, KillTreeKeeps,
     NextTreeRunKeeps DEF CuratedNext

LEMMA CuratedInvImplies == CuratedInv => CuratedTypeOK /\ WholeWhenDone /\ NoForgottenRoot
<1> SUFFICES ASSUME CuratedInv PROVE CuratedTypeOK /\ WholeWhenDone /\ NoForgottenRoot
  OBVIOUS
<1>1. WholeWhenDone
  <2> SUFFICES ASSUME treeRun.pc = "done"
               PROVE  /\ Mine.name = "final" /\ Mine.settings = "new" /\ onDisk = treeRun.id
                      /\ \A n \in Nodes : Mine.items[n] = IF n \in TreeNodes THEN 1 ELSE 0
    BY DEF WholeWhenDone, TreeAt
  <2>1. TreeStageOK(treeRun, Mine) /\ onDisk = treeRun.id
    BY DEF CuratedInv, HeldTree, TrackedTree, Holding, TreeStages
  <2>2. HasPlaced(Mine, Len(Tree) + 1) /\ Mine.name = "final" /\ Mine.settings = "new"
    BY <2>1 DEF TreeStageOK, TreeWritten
  <2> QED
    BY <2>1, <2>2, ItemBeforeNext DEF HasPlaced
<1>2. NoForgottenRoot
  BY DEF CuratedInv, RootsKnown, NoForgottenRoot, TreeEnded, Fresh
<1> QED
  BY <1>1, <1>2 DEF CuratedInv

\* Only PostItem adds items, to a collection in which there is nothing old.
LEMMA AddsAfterOld == CuratedInv /\ [CuratedNext]_curatedVars => NewAfterOld
<1> SUFFICES ASSUME CuratedInv, [CuratedNext]_curatedVars, NEW c \in CuratedIds, NEW n \in Nodes,
                    curated'[c].items[n] > curated[c].items[n], NEW m \in Nodes \ TreeNodes
             PROVE  curated[c].items[m] = 0
  BY DEF NewAfterOld
<1>1. /\ curated \in [CuratedIds -> Collection] /\ \A d \in CuratedIds : curated[d].items \in [Nodes -> 0..2]
      /\ Mine = curated[treeRun.id]
  BY DEF CuratedInv, CuratedTypeOK, Collection, Mine
<1>2. \A x \in 0..2 : ~ (x > x) /\ ~ (0 > x)
  BY SMT
<1>3. curated'[c].items # curated[c].items /\ curated' # curated /\ curated'[c].items[n] # 0
  BY <1>1, <1>2
<1>4. CASE PostItem
  <2>1. treeRun.pc = "tree" /\ curated'[c].items # curated[c].items
    BY <1>3, <1>4 DEF PostItem, TreeAt
  <2>2. HasPlaced(Mine, treeRun.next) /\ treeRun \in TreeRun
    BY <2>1 DEF CuratedInv, CuratedTypeOK, HeldTree, Holding, TreeStages, TreeStageOK
  <2>3. c = treeRun.id
    BY <1>1, <1>3, <1>4 DEF PostItem, OneMore
  <2>4. ~ ItemBefore(treeRun.next, m)
    BY DEF ItemBefore, TreeNodes
  <2> QED
    BY <1>1, <2>2, <2>3, <2>4 DEF HasPlaced
<1>5. CASE PostRoot
  <2>1. PICK d \in CuratedIds : curated' = [curated EXCEPT ![d] = [NoCollection EXCEPT !.name = "temporary"]]
    BY <1>3, <1>5 DEF PostRoot
  <2>2. [NoCollection EXCEPT !.name = "temporary"].items[n] = 0
    BY DEF NoCollection, NoItems
  <2> QED
    BY <1>1, <1>3, <2>1, <2>2
<1>6. CASE DiscardRoot \/ NextTreeRun
  <2>1. NoCollection.items[n] = 0
    BY DEF NoCollection, NoItems
  <2>2. [curated[c] EXCEPT !.late = {}].items = curated[c].items
    BY <1>1 DEF Collection
  <2>3. CASE DiscardRoot
    BY <1>1, <1>3, <2>1, <2>3 DEF DiscardRoot
  <2>4. CASE NextTreeRun
    BY <1>3, <2>1, <2>2, <2>4 DEF NextTreeRun
  <2> QED
    BY <1>6, <2>3, <2>4
<1>7. CASE DeleteOld \/ SettleDelete
  <2>1. PICK k \in Nodes : curated' = [curated EXCEPT ![treeRun.id].items = Without(k)]
    <3>1. treeRun.old \subseteq Nodes /\ treeRun.unsure \subseteq Nodes
      BY DEF CuratedInv, CuratedTypeOK, TreeRun
    <3> QED
      BY <1>3, <1>7, <3>1 DEF DeleteOld, SettleDelete
  <2>2. c = treeRun.id /\ curated'[c].items = Without(k)
    BY <1>1, <1>3, <2>1 DEF Collection
  <2>3. Without(k)[n] \in {0, Mine.items[n]}
    BY DEF Without
  <2> QED
    BY <1>1, <1>2, <1>3, <2>2, <2>3
<1>8. CASE ReconcileItem \/ ApplySettings
  <2>1. curated'[c].items = curated[c].items
    <3>1. curated[c] \in Collection /\ DOMAIN curated = CuratedIds
      BY <1>1
    <3>2. \A r \in Collection : [r EXCEPT !.late = {}].items = r.items
                                /\ [[r EXCEPT !.settings = "new"] EXCEPT !.name = "final"].items = r.items
      BY DEF Collection
    <3>3. CASE ReconcileItem
      <4>1. curated' = [curated EXCEPT ![treeRun.id].late = {}]
        BY <1>3, <1>8, <3>3 DEF ReconcileItem
      <4> QED
        BY <3>1, <3>2, <4>1
    <3>4. CASE ApplySettings
      <4>1. curated' = [curated EXCEPT ![treeRun.id].settings = "new", ![treeRun.id].name = "final"]
        BY <1>3, <3>4 DEF ApplySettings
      <4> QED
        BY <3>1, <3>2, <4>1
    <3> QED
      BY <1>8, <3>3, <3>4
  <2> QED
    BY <1>3, <2>1
<1>9. CASE UNCHANGED curated
  BY <1>3, <1>9
<1> QED
  BY <1>4, <1>5, <1>6, <1>7, <1>8, <1>9
     DEF CuratedNext, LoadState, FindFinal, RefindRoot, CheckpointRoot, ReconcileItemAgain, ListOld, CheckStripped,
         PersistRoot, SaveState, Kill, NoTreeChange, curatedVars

\* syncAdditionalCollections, createItemTree and updateCollection, for any document and
\* any number of runs that fail, are killed or find the collection gone: a run that
\* succeeds leaves each item once and nothing old, no half-created root is forgotten
\* where the tracked state is written at once, and new items follow the old ones' removal.
THEOREM TreeUpdateSafe == CuratedSpec => TreeUpdateIsSafe
<1>1. CuratedInv /\ [CuratedNext]_curatedVars =>
        [CuratedTypeOK' /\ WholeWhenDone' /\ NoForgottenRoot' /\ NewAfterOld]_curatedVars
  <2>1. CuratedInv' => CuratedTypeOK' /\ WholeWhenDone' /\ NoForgottenRoot'
    BY CuratedInvImplies, PTL
  <2> QED
    BY <2>1, CuratedKeeps, AddsAfterOld
<1> QED
  BY <1>1, CuratedInitOK, CuratedKeeps, PTL DEF CuratedSpec, TreeUpdateIsSafe

-----------------------------------------------------------------------------
(* The files of the curated collections                                    *)

\* What a sort returns.
LEMMA AscendingSorts ==
    ASSUME NEW S, IsFiniteSet(S), NEW R,
           \A x \in S : <<x, x>> \notin R,
           \A x, y, z \in S : <<x, y>> \in R /\ <<y, z>> \in R => <<x, z>> \in R,
           \A x, y \in S : x = y \/ <<x, y>> \in R \/ <<y, x>> \in R
    PROVE  /\ Cardinality(S) \in Nat
           /\ Ascending(S, R) \in [1..Cardinality(S) -> S]
           /\ \A x \in S : \E k \in 1..Cardinality(S) : Ascending(S, R)[k] = x
           /\ \A j, k \in 1..Cardinality(S) : j < k => <<Ascending(S, R)[j], Ascending(S, R)[k]>> \in R
<1> DEFINE n == Cardinality(S)
           Less(x) == {y \in S : <<y, x>> \in R}
           rank == [x \in S |-> Cardinality(Less(x))]
<1>1. n \in Nat
  BY FS_CardinalityType
<1>2. \A x \in S : IsFiniteSet(Less(x)) /\ Cardinality(Less(x)) \in Nat /\ Cardinality(Less(x)) < n
  <2> SUFFICES ASSUME NEW x \in S PROVE IsFiniteSet(Less(x)) /\ Cardinality(Less(x)) \in Nat /\ Cardinality(Less(x)) < n
    OBVIOUS
  <2>1. Less(x) \in SUBSET S /\ x \notin Less(x)
    OBVIOUS
  <2>2. Less(x) # S
    BY <2>1
  <2> HIDE DEF Less
  <2>3. IsFiniteSet(Less(x)) /\ Cardinality(Less(x)) <= n /\ (n = Cardinality(Less(x)) => S = Less(x))
    BY <2>1, FS_Subset
  <2>4. Cardinality(Less(x)) \in Nat
    BY <2>3, FS_CardinalityType
  <2> QED
    BY <2>2, <2>3, <2>4, <1>1
<1>3. \A x, y \in S : <<x, y>> \in R => rank[x] < rank[y]
  <2> SUFFICES ASSUME NEW x \in S, NEW y \in S, <<x, y>> \in R PROVE Cardinality(Less(x)) < Cardinality(Less(y))
    OBVIOUS
  <2>1. Less(x) \in SUBSET Less(y) /\ x \in Less(y) /\ x \notin Less(x)
    OBVIOUS
  <2>2. Less(x) # Less(y)
    BY <2>1
  <2>3. IsFiniteSet(Less(y)) /\ Cardinality(Less(y)) \in Nat /\ Cardinality(Less(x)) \in Nat
    BY <1>2
  <2> HIDE DEF Less
  <2>4. Cardinality(Less(x)) <= Cardinality(Less(y)) /\ (Cardinality(Less(y)) = Cardinality(Less(x)) => Less(y) = Less(x))
    BY <2>1, <2>3, FS_Subset
  <2> QED
    BY <2>2, <2>3, <2>4
<1>4. \A x \in S : rank[x] \in 0..(n - 1)
  <2> HIDE DEF Less
  <2> QED
    BY <1>1, <1>2
<1> HIDE DEF rank
<1>5. \A x, y \in S : rank[x] = rank[y] => x = y
  <2> SUFFICES ASSUME NEW x \in S, NEW y \in S, rank[x] = rank[y], x # y PROVE FALSE
    OBVIOUS
  <2>1. rank[x] < rank[y] \/ rank[y] < rank[x]
    BY <1>3
  <2>2. rank[x] \in Int /\ rank[y] \in Int
    BY <1>4, <1>1
  <2> QED
    BY <2>1, <2>2
<1>6. rank \in [S -> 0..(n - 1)]
  <2>1. rank = [x \in S |-> rank[x]]
    BY DEF rank
  <2> QED
    BY <2>1, <1>4
<1>7. rank \in Injection(S, 0..(n - 1))
  BY <1>5, <1>6 DEF Injection, IsInjective
<1>8. IsFiniteSet(0..(n - 1)) /\ Cardinality(0..(n - 1)) = n
  <2>1. n - 1 \in Int /\ (0 > n - 1 => n = 0)
    BY <1>1
  <2> HIDE DEF n
  <2>2. IsFiniteSet(0..(n - 1)) /\ Cardinality(0..(n - 1)) = IF 0 > n - 1 THEN 0 ELSE (n - 1) - 0 + 1
    BY <2>1, FS_Interval
  <2> QED
    BY <2>1, <2>2, <1>1
<1>9. rank \in Surjection(S, 0..(n - 1))
  BY <1>7, <1>8, FS_Injection
<1>10. \A k \in 1..n : \E x \in S : rank[x] = k - 1
  <2>1. \A k \in 1..n : k - 1 \in 0..(n - 1)
    BY <1>1
  <2>2. \A t \in 0..(n - 1) : \E x \in S : rank[x] = t
    BY <1>9 DEF Surjection
  <2> QED
    BY <2>1, <2>2
<1> DEFINE q == Ascending(S, R)
<1>11. q = [k \in 1..n |-> CHOOSE x \in S : Cardinality({y \in S : <<y, x>> \in R}) = k - 1]
  BY DEF Ascending
<1>12. \A k \in 1..n : q[k] \in S /\ rank[q[k]] = k - 1
  <2> TAKE k \in 1..n
  <2>1. \A x \in S : rank[x] = Cardinality({y \in S : <<y, x>> \in R})
    BY DEF rank
  <2>2. \E x \in S : Cardinality({y \in S : <<y, x>> \in R}) = k - 1
    BY <1>10, <2>1
  <2>3. q[k] = CHOOSE x \in S : Cardinality({y \in S : <<y, x>> \in R}) = k - 1
    BY <1>11
  <2> HIDE DEF q, n
  <2>4. q[k] \in S /\ Cardinality({y \in S : <<y, q[k]>> \in R}) = k - 1
    BY <2>2, <2>3
  <2> QED
    BY <2>1, <2>4
<1> HIDE DEF q, n
<1>13. q \in [1..n -> S]
  BY <1>11, <1>12
<1>14. \A x \in S : \E k \in 1..n : q[k] = x
  <2> TAKE x \in S
  <2>1. rank[x] + 1 \in 1..n /\ (rank[x] + 1) - 1 = rank[x]
    BY <1>4, <1>1
  <2>2. rank[q[rank[x] + 1]] = rank[x] /\ q[rank[x] + 1] \in S
    BY <2>1, <1>12
  <2> QED
    BY <2>1, <2>2, <1>5
<1>15. \A j, k \in 1..n : j < k => <<q[j], q[k]>> \in R
  <2> SUFFICES ASSUME NEW j \in 1..n, NEW k \in 1..n, j < k PROVE <<q[j], q[k]>> \in R
    OBVIOUS
  <2>1. q[j] \in S /\ q[k] \in S /\ rank[q[j]] = j - 1 /\ rank[q[k]] = k - 1
    BY <1>12
  <2>2. rank[q[j]] < rank[q[k]]
    BY <2>1, <1>1
  <2>3. q[j] # q[k] /\ ~ (rank[q[k]] < rank[q[j]])
    BY <2>1, <2>2, <1>1
  <2> QED
    BY <2>1, <2>3, <1>3
<1> QED
  BY <1>1, <1>13, <1>14, <1>15 DEF q, n

-----------------------------------------------------------------------------
(* The files of additional-collections-dir                                 *)

FileSyncStages == {"load", "refused", "sync", "done", "failed"}
CloudText == {"", "deleted", "half"} \cup DOMAIN Titles
CloudTitle == {"", "temporary"} \cup {Titles[t] : t \in DOMAIN Titles}
Tracking == [LocalPaths -> CloudIds \cup {0}]
FileRun ==
    [pc : FileSyncStages, full : BOOLEAN, ids : Tracking,
     files : Seq([path : LocalPaths, known : CloudIds \cup {0}]), at : Nat \ {0},
     clear : BOOLEAN, made : SUBSET (LocalPaths \X CloudIds), runs : Nat, faults : Nat]
FileSyncTypes ==
    /\ layout \in Layouts
    /\ trackedIds \in Tracking
    /\ hosted \in [CloudIds -> [title : CloudTitle, text : CloudText]]
    /\ fileSync \in FileRun

DocOf(L, f) == L.holds[f.path]
NameOf(L, f) == Titles[L.holds[f.path]]

\* An id that is tracked is one that the service has given out.
GivenOut(ids, all) == \A p \in LocalPaths : ids[p] # 0 => all[ids[p]] # NoCloud
\* So is one that a file was loaded with; all files of a path are loaded alike.
LoadedOK(L, files, all) ==
    /\ \A k \in DOMAIN files : DocOf(L, files[k]) \in DOMAIN Titles
    /\ \A k \in DOMAIN files : files[k].known # 0 => all[files[k].known] # NoCloud
    /\ \A j, k \in DOMAIN files : files[j].path = files[k].path => files[j].known = files[k].known
\* The files before at are in the collections that the run tracks them as, the
\* last of a collection in full; a known one that exists is the one tracked.
FilesHold(L, files, n, ids, all) ==
    \A k \in DOMAIN files : k < n =>
        /\ ids[files[k].path] \in CloudIds /\ all[ids[files[k].path]].title # ""
        /\ \E l \in DOMAIN files :
              /\ l < n /\ ids[files[l].path] = ids[files[k].path]
              /\ all[ids[files[k].path]] = [title |-> NameOf(L, files[l]), text |-> DocOf(L, files[l])]
              /\ \A j \in DOMAIN files : j < n /\ ids[files[j].path] = ids[files[k].path] => j <= l
        /\ files[k].known # 0 /\ all[files[k].known].title # "" => ids[files[k].path] = files[k].known
\* What the run has created bears its file's title, and is no id it loaded.
MadeOK(L, files, made, all) ==
    /\ \A m \in made : /\ L.holds[m[1]] \in DOMAIN Titles
                       /\ all[m[2]].title = Titles[L.holds[m[1]]]
                       /\ \A k \in DOMAIN files : files[k].known # m[2]
    /\ \A m, n \in made : m[1] = n[1] \/ all[m[2]].title = all[n[2]].title => m = n
\* Where the files are clear of one another, each tracks a collection of its own.
ClearOK(L, files, all) ==
    \A j, k \in DOMAIN files : files[j].path # files[k].path =>
        /\ NameOf(L, files[j]) # NameOf(L, files[k])
        /\ files[k].known # 0 => files[j].known # files[k].known
                                 /\ all[files[k].known].title # NameOf(L, files[j])
FilesApart(files, n, ids) ==
    \A j, k \in DOMAIN files :
        j < n /\ k < n /\ ids[files[j].path] = ids[files[k].path] => files[j].path = files[k].path

FileSyncInv ==
    /\ FileSyncTypes
    /\ GivenOut(trackedIds, hosted) /\ GivenOut(fileSync.ids, hosted)
    /\ LoadedOK(layout, fileSync.files, hosted)
    /\ MadeOK(layout, fileSync.files, fileSync.made, hosted)
    /\ fileSync.pc = "load" => fileSync.at = 1 /\ fileSync.made = {}
    /\ fileSync.pc \in {"sync", "done"} =>
          /\ fileSync.at <= Len(fileSync.files) + 1
          /\ FilesHold(layout, fileSync.files, fileSync.at, fileSync.ids, hosted)
          /\ fileSync.clear = TRUE => /\ ClearOK(layout, fileSync.files, hosted)
                                      /\ FilesApart(fileSync.files, fileSync.at, fileSync.ids)
    /\ fileSync.pc = "done" => fileSync.at = Len(fileSync.files) + 1 /\ trackedIds = fileSync.ids
FileRow == [path : LocalPaths, known : CloudIds \cup {0}]
CloudSet == [CloudIds -> [title : CloudTitle, text : CloudText]]
DocRow(L, f) == [title |-> NameOf(L, f), text |-> DocOf(L, f)]
\* Where the n-th file may go: its known collection, or the only one of its name,
\* or a fresh one when there is none.
GoesTo(L, files, n, i, all) ==
    \/ files[n].known = i /\ all[i].title # ""
    \/ /\ files[n].known = 0 \/ all[files[n].known].title = ""
       /\ \A j \in CloudIds : all[j].title = NameOf(L, files[n]) => j = i
       /\ all[i].title = NameOf(L, files[n]) \/ all[i] = NoCloud

\* One write keeps what the invariant says of the files, of what was created and of ids.
LEMMA FileSaved ==
    ASSUME NEW L, NEW files \in Seq(FileRow), NEW n \in DOMAIN files, NEW all \in CloudSet,
           NEW ids \in Tracking, NEW i \in CloudIds, GoesTo(L, files, n, i, all),
           NEW all2, all2 = [all EXCEPT ![i] = DocRow(L, files[n])],
           NEW ids2, ids2 = [ids EXCEPT ![files[n].path] = i],
           LoadedOK(L, files, all)
    PROVE  /\ all2 \in CloudSet /\ ids2 \in Tracking
           /\ LoadedOK(L, files, all2)
           /\ \A old \in Tracking : GivenOut(old, all) => GivenOut(old, all2)
           /\ GivenOut(ids, all) => GivenOut(ids2, all2)
           /\ FilesHold(L, files, n, ids, all) => FilesHold(L, files, n + 1, ids2, all2)
           /\ ClearOK(L, files, all) => ClearOK(L, files, all2)
           /\ ClearOK(L, files, all) /\ FilesHold(L, files, n, ids, all) /\ FilesApart(files, n, ids)
                => FilesApart(files, n + 1, ids2)
<1>z. 0 \notin CloudIds /\ \A t \in DOMAIN Titles : Titles[t] # ""
  BY CuratedFilesAssumption
<1>s. \A k \in DOMAIN files : k \in Nat
  OBVIOUS
<1>t. /\ \A k \in DOMAIN files : k \in Nat /\ files[k].path \in LocalPaths /\ files[k].known \in CloudIds \cup {0}
      /\ 0 \notin CloudIds
  <2>1. \A k \in DOMAIN files : files[k] \in FileRow
    OBVIOUS
  <2> QED
    BY <2>1, <1>s, <1>z DEF FileRow
<1>n. /\ DocOf(L, files[n]) \in DOMAIN Titles /\ NameOf(L, files[n]) # ""
      /\ \A k \in DOMAIN files : NameOf(L, files[k]) # ""
  BY <1>z DEF LoadedOK, DocOf, NameOf
<1>d. /\ DocRow(L, files[n]) \in [title : CloudTitle, text : CloudText]
      /\ DocRow(L, files[n]).title = NameOf(L, files[n]) /\ DocRow(L, files[n]) # NoCloud
  BY <1>n DEF DocRow, NoCloud, CloudTitle, CloudText, NameOf, DocOf
<1>a. /\ all2 \in CloudSet /\ all2[i] = DocRow(L, files[n])
      /\ \A j \in CloudIds : j # i => all2[j] = all[j]
  BY <1>d DEF CloudSet
<1>i. /\ ids2 \in Tracking /\ ids2[files[n].path] = i
      /\ \A p \in LocalPaths : p # files[n].path => ids2[p] = ids[p]
  BY <1>t DEF Tracking
<1>1. \A j \in CloudIds : all[j] # NoCloud => all2[j] # NoCloud
  BY <1>a, <1>d
<1>2. LoadedOK(L, files, all2)
  BY <1>1, <1>t DEF LoadedOK
<1>3. \A old \in Tracking : GivenOut(old, all) => GivenOut(old, all2)
  BY <1>1 DEF GivenOut, Tracking
<1>4. GivenOut(ids, all) => GivenOut(ids2, all2)
  <2> SUFFICES ASSUME GivenOut(ids, all), NEW p \in LocalPaths, ids2[p] # 0 PROVE all2[ids2[p]] # NoCloud
    BY DEF GivenOut
  <2>1. CASE p = files[n].path
    BY <2>1, <1>i, <1>a, <1>d
  <2>2. CASE p # files[n].path
    BY <2>2, <1>i, <1>3 DEF GivenOut
  <2> QED
    BY <2>1, <2>2
<1>e. \A j \in CloudIds : all[j] # NoCloud /\ all2[j].title # "" /\ j = i => all[j].title # ""
  BY <1>n, <1>d DEF GoesTo
<1>f. \A j \in CloudIds : all[j] # NoCloud /\ all2[j].title # "" /\ j # i => all[j].title # ""
  BY <1>a
<1>k. \A k \in DOMAIN files : files[k].known # 0 =>
        files[k].known \in CloudIds /\ all[files[k].known] # NoCloud
  BY <1>t DEF LoadedOK
<1>5. ASSUME FilesHold(L, files, n, ids, all) PROVE FilesHold(L, files, n + 1, ids2, all2)
  <2> SUFFICES ASSUME NEW k \in DOMAIN files, k < n + 1
               PROVE  /\ ids2[files[k].path] \in CloudIds /\ all2[ids2[files[k].path]].title # ""
                      /\ \E l \in DOMAIN files :
                           /\ l < n + 1 /\ ids2[files[l].path] = ids2[files[k].path]
                           /\ all2[ids2[files[k].path]] = DocRow(L, files[l])
                           /\ \A j \in DOMAIN files : j < n + 1 /\ ids2[files[j].path] = ids2[files[k].path] => j <= l
                      /\ files[k].known # 0 /\ all2[files[k].known].title # "" => ids2[files[k].path] = files[k].known
    BY DEF FilesHold, DocRow
  <2>0. n \in Nat /\ k \in Nat /\ n < n + 1 /\ (k < n \/ k = n)
    BY <1>t
  <2>1. ASSUME k < n
        PROVE /\ ids[files[k].path] \in CloudIds /\ all[ids[files[k].path]].title # ""
              /\ \E l \in DOMAIN files :
                    /\ l < n /\ ids[files[l].path] = ids[files[k].path]
                    /\ all[ids[files[k].path]] = DocRow(L, files[l])
                    /\ \A j \in DOMAIN files : j < n /\ ids[files[j].path] = ids[files[k].path] => j <= l
              /\ files[k].known # 0 /\ all[files[k].known].title # "" => ids[files[k].path] = files[k].known
    BY <1>5, <2>1 DEF FilesHold, DocRow
  <2>2. CASE ids2[files[k].path] = i
    <3>1. files[k].known # 0 /\ all2[files[k].known].title # "" => files[k].known = i
      <4> SUFFICES ASSUME files[k].known # 0, all2[files[k].known].title # "", files[k].known # i PROVE FALSE
        OBVIOUS
      <4>1. all[files[k].known].title # "" /\ files[k].known \in CloudIds
        BY <1>f, <1>k
      <4>2. CASE files[k].path = files[n].path
        <5>1. files[k].known = files[n].known
          BY <4>2 DEF LoadedOK
        <5> QED
          BY <5>1, <4>1 DEF GoesTo
      <4>3. CASE files[k].path # files[n].path
        <5>1. k < n /\ ids[files[k].path] = i
          BY <4>3, <2>0, <2>2, <1>i, <1>t
        <5> QED
          BY <5>1, <4>1, <2>1
      <4> QED
        BY <4>2, <4>3
    <3>2. \A j \in DOMAIN files : j < n + 1 => j <= n
      BY <2>0, <1>t
    <3>3. ids2[files[n].path] = ids2[files[k].path] /\ all2[ids2[files[k].path]] = DocRow(L, files[n])
      BY <2>2, <1>i, <1>a
    <3> QED
      BY <3>1, <3>2, <3>3, <2>0, <2>2, <1>n, <1>d
  <2>3. CASE ids2[files[k].path] # i
    <3>1. files[k].path # files[n].path /\ k < n /\ ids2[files[k].path] = ids[files[k].path]
      BY <2>3, <2>0, <1>i, <1>t
    <3> DEFINE o == ids[files[k].path]
    <3>2. o \in CloudIds /\ all[o].title # "" /\ o # i /\ all2[o] = all[o]
      BY <3>1, <2>1, <2>3, <1>a
    <3>3. PICK l \in DOMAIN files : /\ l < n /\ ids[files[l].path] = o /\ all[o] = DocRow(L, files[l])
                                    /\ \A j \in DOMAIN files : j < n /\ ids[files[j].path] = o => j <= l
      BY <3>1, <2>1
    <3>4. files[l].path # files[n].path
      <4> SUFFICES ASSUME files[l].path = files[n].path PROVE FALSE
        OBVIOUS
      <4>1. all[o].title = NameOf(L, files[n])
        BY <3>3 DEF DocRow, NameOf
      <4>2. files[n].known = i /\ all[i].title # ""
        BY <4>1, <3>2 DEF GoesTo
      <4>3. files[l].known = i
        BY <4>2 DEF LoadedOK
      <4>4. ids[files[l].path] = i
        BY <1>5, <3>3, <4>2, <4>3, <1>t DEF FilesHold
      <4> QED
        BY <4>4, <3>3, <3>2
    <3>5. ids2[files[l].path] = o
      BY <3>3, <3>4, <1>i, <1>t
    <3>6. \A j \in DOMAIN files : j < n + 1 /\ ids2[files[j].path] = o => j <= l
      <4> SUFFICES ASSUME NEW j \in DOMAIN files, j < n + 1, ids2[files[j].path] = o PROVE j <= l
        OBVIOUS
      <4>1. files[j].path # files[n].path
        BY <3>2, <1>i
      <4>2. j < n /\ ids[files[j].path] = o
        BY <4>1, <1>i, <1>t, <2>0
      <4> QED
        BY <4>2, <3>3
    <3>7. files[k].known # 0 /\ all2[files[k].known].title # "" => o = files[k].known
      BY <1>e, <1>f, <1>k, <3>1, <2>1
    <3>8. l < n + 1
      BY <3>3, <2>0, <1>t
    <3> HIDE DEF o
    <3>9. ids2[files[k].path] = o
      BY <3>1 DEF o
    <3> QED
      BY <3>2, <3>3, <3>5, <3>6, <3>7, <3>8, <3>9
  <2> QED
    BY <2>2, <2>3
<1>6. ASSUME ClearOK(L, files, all) PROVE ClearOK(L, files, all2)
  <2> SUFFICES ASSUME NEW j \in DOMAIN files, NEW k \in DOMAIN files, files[j].path # files[k].path, files[k].known # 0
               PROVE  all2[files[k].known].title # NameOf(L, files[j])
    BY <1>6 DEF ClearOK
  <2>1. all[files[k].known].title # NameOf(L, files[j]) /\ files[k].known \in CloudIds /\ all[files[k].known] # NoCloud
    BY <1>6, <1>k DEF ClearOK
  <2>2. CASE files[k].known # i
    BY <2>1, <2>2, <1>a
  <2>3. CASE files[k].known = i
    <3>1. files[k].path = files[n].path
      <4> SUFFICES ASSUME files[k].path # files[n].path PROVE FALSE
        OBVIOUS
      <4>1. all[files[k].known].title # NameOf(L, files[n]) /\ files[n].known # files[k].known
        BY <1>6 DEF ClearOK
      <4> QED
        BY <4>1, <2>1, <2>3 DEF GoesTo
    <3>2. all2[i].title = NameOf(L, files[k])
      BY <3>1, <1>a, <1>d DEF NameOf
    <3>3. NameOf(L, files[k]) # NameOf(L, files[j])
      BY <1>6 DEF ClearOK
    <3> QED
      BY <2>3, <3>2, <3>3
  <2> QED
    BY <2>2, <2>3
<1>7. ASSUME ClearOK(L, files, all), FilesHold(L, files, n, ids, all), FilesApart(files, n, ids)
      PROVE  FilesApart(files, n + 1, ids2)
  <2>1. \A j \in DOMAIN files : j < n /\ files[j].path # files[n].path => ids[files[j].path] # i
    <3> SUFFICES ASSUME NEW j \in DOMAIN files, j < n, files[j].path # files[n].path, ids[files[j].path] = i PROVE FALSE
      OBVIOUS
    <3>1. PICK l \in DOMAIN files : l < n /\ ids[files[l].path] = i /\ all[i] = DocRow(L, files[l])
      BY <1>7 DEF FilesHold, DocRow
    <3>2. files[l].path = files[j].path
      BY <3>1, <1>7 DEF FilesApart
    <3>3. all[i].title = NameOf(L, files[j])
      BY <3>1, <3>2 DEF DocRow, NameOf
    <3>4. NameOf(L, files[j]) # NameOf(L, files[n])
      BY <1>7 DEF ClearOK
    <3>5. all[i] # NoCloud
      <4>1. NoCloud.title = "" /\ NameOf(L, files[j]) # ""
        BY <1>n DEF NoCloud
      <4> QED
        BY <3>3, <4>1
    <3>6. files[n].known = i
      BY <3>3, <3>4, <3>5 DEF GoesTo
    <3>7. files[n].known # 0
      BY <3>6, <1>t
    <3>8. all[files[n].known].title # NameOf(L, files[j])
      BY <1>7, <3>7 DEF ClearOK
    <3> QED
      BY <3>3, <3>6, <3>8
  <2> SUFFICES ASSUME NEW j \in DOMAIN files, NEW k \in DOMAIN files, j < n + 1, k < n + 1,
                      ids2[files[j].path] = ids2[files[k].path], files[j].path # files[k].path
               PROVE  FALSE
    BY DEF FilesApart
  <2>2. (files[j].path = files[n].path \/ j < n) /\ (files[k].path = files[n].path \/ k < n)
    BY <1>t
  <2>3. CASE files[j].path = files[n].path
    BY <2>1, <2>2, <2>3, <1>i, <1>t
  <2>4. CASE files[k].path = files[n].path
    BY <2>1, <2>2, <2>4, <1>i, <1>t
  <2>5. CASE files[j].path # files[n].path /\ files[k].path # files[n].path
    <3>1. ids[files[j].path] = ids[files[k].path]
      BY <2>5, <1>i, <1>t
    <3> QED
      BY <3>1, <2>2, <2>5, <1>7 DEF FilesApart
  <2> QED
    BY <2>3, <2>4, <2>5
<1> QED
  BY <1>a, <1>i, <1>2, <1>3, <1>4, <1>5, <1>6, <1>7

\* A write creates nothing that it created before; MadeOK holds on.
LEMMA MadeWritten ==
    ASSUME NEW L, NEW files \in Seq(FileRow), NEW n \in DOMAIN files, NEW all \in CloudSet,
           NEW i \in CloudIds, GoesTo(L, files, n, i, all),
           NEW all2, all2 = [all EXCEPT ![i] = DocRow(L, files[n])],
           LoadedOK(L, files, all), NEW made \in SUBSET (LocalPaths \X CloudIds), MadeOK(L, files, made, all)
    PROVE  /\ MadeOK(L, files, made, all2)
           /\ /\ \A j \in CloudIds : all[j].title # NameOf(L, files[n])
              /\ files[n].known = 0 \/ all[files[n].known].title = ""
              => MadeOK(L, files, made \cup {<<files[n].path, i>>}, all2)
<1>z. 0 \notin CloudIds /\ \A t \in DOMAIN Titles : Titles[t] # ""
  BY CuratedFilesAssumption
<1>t. \A k \in DOMAIN files : files[k].path \in LocalPaths /\ files[k].known \in CloudIds \cup {0}
  <2>1. \A k \in DOMAIN files : files[k] \in FileRow
    OBVIOUS
  <2> QED
    BY <2>1 DEF FileRow
<1>n. DocOf(L, files[n]) \in DOMAIN Titles /\ NameOf(L, files[n]) # "" /\ L.holds[files[n].path] \in DOMAIN Titles
  BY <1>z DEF LoadedOK, DocOf, NameOf
<1>a. /\ all2[i].title = NameOf(L, files[n])
      /\ \A j \in CloudIds : j # i => all2[j] = all[j]
  BY DEF CloudSet, DocRow
<1>m. \A m \in made : /\ m[1] \in LocalPaths /\ m[2] \in CloudIds /\ L.holds[m[1]] \in DOMAIN Titles
                      /\ all[m[2]].title = Titles[L.holds[m[1]]] /\ Titles[L.holds[m[1]]] # ""
                      /\ \A k \in DOMAIN files : files[k].known # m[2]
  BY <1>z DEF MadeOK
<1>1. \A m \in made : all2[m[2]].title = all[m[2]].title
  <2> SUFFICES ASSUME NEW m \in made PROVE all2[m[2]].title = all[m[2]].title
    OBVIOUS
  <2>1. CASE m[2] # i
    BY <2>1, <1>a, <1>m
  <2>2. CASE m[2] = i
    <3>1. files[n].known # i /\ all[i].title # ""
      BY <2>2, <1>m
    <3>2. all[i] # NoCloud
      <4>1. NoCloud.title = ""
        BY DEF NoCloud
      <4> QED
        BY <3>1, <4>1
    <3>3. all[i].title = NameOf(L, files[n])
      BY <3>1, <3>2 DEF GoesTo
    <3> QED
      BY <2>2, <3>3, <1>a
  <2> QED
    BY <2>1, <2>2
<1>2. MadeOK(L, files, made, all2)
  <2>1. \A m, k \in made : m[1] = k[1] \/ all2[m[2]].title = all2[k[2]].title => m = k
    BY <1>1 DEF MadeOK
  <2>2. \A m \in made : all2[m[2]].title = Titles[L.holds[m[1]]]
    BY <1>1, <1>m
  <2> QED
    BY <1>m, <2>1, <2>2 DEF MadeOK
<1>3. ASSUME \A j \in CloudIds : all[j].title # NameOf(L, files[n]),
             files[n].known = 0 \/ all[files[n].known].title = ""
      PROVE  MadeOK(L, files, made \cup {<<files[n].path, i>>}, all2)
  <2> DEFINE new == <<files[n].path, i>>
  <2>0. new[1] = files[n].path /\ new[2] = i
    OBVIOUS
  <2>1. all[i] = NoCloud
    <3>1. ~ (files[n].known = i /\ all[i].title # "")
      BY <1>3, <1>z
    <3> QED
      BY <3>1, <1>3 DEF GoesTo
  <2>2. \A k \in DOMAIN files : files[k].known # i
    BY <2>1, <1>z DEF LoadedOK
  <2>3. \A m \in made : m[1] # files[n].path /\ all2[m[2]].title # all2[i].title
    <3> SUFFICES ASSUME NEW m \in made PROVE m[1] # files[n].path /\ all2[m[2]].title # all2[i].title
      OBVIOUS
    <3>1. all[m[2]].title # NameOf(L, files[n]) /\ all2[m[2]].title = all[m[2]].title
      BY <1>1, <1>m, <1>3
    <3>2. m[1] = files[n].path => all[m[2]].title = NameOf(L, files[n])
      BY <1>m DEF NameOf
    <3> QED
      BY <3>1, <3>2, <1>a
  <2> HIDE DEF new
  <2>4. \A m, k \in made \cup {new} : m[1] = k[1] \/ all2[m[2]].title = all2[k[2]].title => m = k
    <3>1. \A m, k \in made : m[1] = k[1] \/ all2[m[2]].title = all2[k[2]].title => m = k
      BY <1>2 DEF MadeOK
    <3>2. \A m \in made : m[1] # new[1] /\ all2[m[2]].title # all2[new[2]].title
      BY <2>3, <2>0
    <3> QED
      BY <3>1, <3>2
  <2>5. \A m \in made \cup {new} : /\ L.holds[m[1]] \in DOMAIN Titles
                                   /\ all2[m[2]].title = Titles[L.holds[m[1]]]
                                   /\ \A k \in DOMAIN files : files[k].known # m[2]
    <3>1. /\ L.holds[new[1]] \in DOMAIN Titles
          /\ all2[new[2]].title = Titles[L.holds[new[1]]]
          /\ \A k \in DOMAIN files : files[k].known # new[2]
      BY <2>0, <2>2, <1>n, <1>a DEF NameOf
    <3> QED
      BY <3>1, <1>m, <1>1
  <2>6. MadeOK(L, files, made \cup {new}, all2)
    BY <2>4, <2>5 DEF MadeOK
  <2> QED
    BY <2>6 DEF new
<1> QED
  BY <1>2, <1>3

\* Nor does a call that breaks off, with the text of an existing collection or the
\* first of a fresh one.
LEMMA BrokenOff ==
    ASSUME NEW L, NEW files \in Seq(FileRow), NEW all \in CloudSet, NEW i \in CloudIds, NEW row,
           row \in [title : CloudTitle, text : CloudText], row # NoCloud,
           all[i] = NoCloud \/ row.title = all[i].title,
           LoadedOK(L, files, all), NEW made \in SUBSET (LocalPaths \X CloudIds), MadeOK(L, files, made, all),
           NEW all2, all2 = [all EXCEPT ![i] = row]
    PROVE  /\ all2 \in CloudSet /\ LoadedOK(L, files, all2) /\ MadeOK(L, files, made, all2)
           /\ \A old \in Tracking : GivenOut(old, all) => GivenOut(old, all2)
           /\ \A old \in Tracking, p \in LocalPaths :
                 GivenOut(old, all) => GivenOut([old EXCEPT ![p] = i], all2)
<1>z. 0 \notin CloudIds /\ \A t \in DOMAIN Titles : Titles[t] # ""
  BY CuratedFilesAssumption
<1>t. \A k \in DOMAIN files : files[k].known \in CloudIds \cup {0}
  <2>1. \A k \in DOMAIN files : files[k] \in FileRow
    OBVIOUS
  <2> QED
    BY <2>1 DEF FileRow
<1>a. /\ all2 \in CloudSet /\ all2[i] = row
      /\ \A j \in CloudIds : j # i => all2[j] = all[j]
  BY DEF CloudSet
<1>b. \A j \in CloudIds : all[j] # NoCloud => all2[j] # NoCloud /\ all2[j].title = all[j].title
  BY <1>a
<1>1. LoadedOK(L, files, all2)
  BY <1>b, <1>t DEF LoadedOK
<1>2. MadeOK(L, files, made, all2)
  <2>1. \A m \in made : m[2] \in CloudIds /\ all[m[2]].title # ""
    BY <1>z DEF MadeOK
  <2>2. \A m \in made : all[m[2]] # NoCloud
    <3>1. NoCloud.title = ""
      BY DEF NoCloud
    <3> QED
      BY <2>1, <3>1
  <2>3. \A m \in made : all2[m[2]].title = all[m[2]].title
    BY <1>b, <2>1, <2>2
  <2> QED
    BY <2>3 DEF MadeOK
<1>3. \A old \in Tracking : GivenOut(old, all) => GivenOut(old, all2)
  BY <1>b DEF GivenOut, Tracking
<1>4. \A old \in Tracking, p \in LocalPaths : GivenOut(old, all) => GivenOut([old EXCEPT ![p] = i], all2)
  <2> SUFFICES ASSUME NEW old \in Tracking, NEW p \in LocalPaths, GivenOut(old, all), NEW r \in LocalPaths,
                      [old EXCEPT ![p] = i][r] # 0
               PROVE  all2[[old EXCEPT ![p] = i][r]] # NoCloud
    BY DEF GivenOut
  <2>1. [old EXCEPT ![p] = i][r] = IF r = p THEN i ELSE old[r]
    BY DEF Tracking
  <2>2. CASE r = p
    BY <2>1, <2>2, <1>a
  <2>3. CASE r # p
    BY <2>1, <2>3, <1>3 DEF GivenOut
  <2> QED
    BY <2>2, <2>3
<1> QED
  BY <1>a, <1>1, <1>2, <1>3, <1>4

\* The files of a directory that is not refused, in order.
LEMMA LoadedFiles ==
    ASSUME FileSyncTypes, ~ RefusedWalk(layout)
    PROVE  /\ Loaded(layout) \in Seq(FileRow)
           /\ \A k \in DOMAIN Loaded(layout) :
                 /\ Loaded(layout)[k].known = trackedIds[Loaded(layout)[k].path]
                 /\ layout.holds[Loaded(layout)[k].path] \in DOMAIN Titles
<1> DEFINE found == Found(layout) \cup {<<p, p>> : p \in Views(layout)}
           before == {r \in found \X found :
                        r[1][1] < r[2][1] \/ (r[1][1] = r[2][1] /\ r[1][2] < r[2][2])}
           order == Ascending(found, before)
<1>1. /\ LocalPaths \subseteq Nat /\ IsFiniteSet(LocalPaths) /\ LocalFiles \subseteq LocalPaths
      /\ LocalFolders \subseteq LocalPaths
      /\ layout.views \subseteq LocalFolders /\ \A p \in layout.views : layout.holds[p] \in DOMAIN Titles
  BY CuratedFilesAssumption DEF FileSyncTypes, LocalPaths
<1>2. found \in SUBSET (LocalPaths \X LocalPaths)
  <2>1. Walked(layout) \subseteq LocalFolders /\ Views(layout) \subseteq LocalFolders
    BY <1>1 DEF Walked, Views
  <2>2. Found(layout) \subseteq LocalFiles \X Walked(layout)
    BY DEF Found
  <2>3. Found(layout) \subseteq LocalPaths \X LocalPaths
    BY <1>1, <2>1, <2>2
  <2>4. \A p \in Views(layout) : <<p, p>> \in LocalPaths \X LocalPaths
    BY <1>1, <2>1
  <2> QED
    BY <2>3, <2>4
<1>3. \A f \in found : f[1] \in LocalPaths /\ f[2] \in LocalPaths /\ f = <<f[1], f[2]>>
                       /\ f[1] \in Nat /\ f[2] \in Nat
  BY <1>1, <1>2
<1>4. IsFiniteSet(found)
  <2>1. IsFiniteSet(LocalPaths \X LocalPaths)
    BY <1>1, FS_Product
  <2> HIDE DEF found
  <2> QED
    BY <2>1, <1>2, FS_Subset
<1>5. \A f \in found : layout.holds[f[1]] \in DOMAIN Titles
  <2>1. \A f \in Found(layout) : layout.holds[f[1]] \in DOMAIN Titles
    BY DEF RefusedWalk
  <2>2. \A p \in Views(layout) : layout.holds[p] \in DOMAIN Titles
    BY <1>1 DEF Views
  <2> QED
    BY <2>1, <2>2
<1> HIDE DEF found
<1>6. \A x, y \in found : <<x, y>> \in before <=> x[1] < y[1] \/ (x[1] = y[1] /\ x[2] < y[2])
  OBVIOUS
<1> HIDE DEF before
<1>7. \A x \in found : <<x, x>> \notin before
  BY <1>3, <1>6
<1>8. \A x, y, z \in found : <<x, y>> \in before /\ <<y, z>> \in before => <<x, z>> \in before
  <2> SUFFICES ASSUME NEW x \in found, NEW y \in found, NEW z \in found,
                      <<x, y>> \in before, <<y, z>> \in before PROVE <<x, z>> \in before
    OBVIOUS
  <2>1. x[1] < y[1] \/ (x[1] = y[1] /\ x[2] < y[2])
    BY <1>6
  <2>2. y[1] < z[1] \/ (y[1] = z[1] /\ y[2] < z[2])
    BY <1>6
  <2>3. x[1] < z[1] \/ (x[1] = z[1] /\ x[2] < z[2])
    BY <2>1, <2>2, <1>3
  <2> QED
    BY <2>3, <1>6
<1>9. \A x, y \in found : x = y \/ <<x, y>> \in before \/ <<y, x>> \in before
  <2> SUFFICES ASSUME NEW x \in found, NEW y \in found, x # y PROVE <<x, y>> \in before \/ <<y, x>> \in before
    OBVIOUS
  <2>1. x[1] # y[1] \/ x[2] # y[2]
    BY <1>3
  <2>2. (x[1] < y[1] \/ (x[1] = y[1] /\ x[2] < y[2])) \/ (y[1] < x[1] \/ (y[1] = x[1] /\ y[2] < x[2]))
    BY <2>1, <1>3
  <2> QED
    BY <2>2, <1>6
<1>10. Cardinality(found) \in Nat /\ order \in [1..Cardinality(found) -> found]
  BY <1>4, <1>7, <1>8, <1>9, AscendingSorts
<1>11. Loaded(layout) = [k \in DOMAIN order |-> [path |-> order[k][1], known |-> trackedIds[order[k][1]]]]
  BY DEF Loaded, order, found, before
<1> HIDE DEF order
<1>12. DOMAIN order = 1..Cardinality(found) /\ \A k \in DOMAIN order : order[k] \in found
  BY <1>10
<1>13. \A k \in DOMAIN order : [path |-> order[k][1], known |-> trackedIds[order[k][1]]] \in FileRow
  BY <1>12, <1>3 DEF FileRow, FileSyncTypes, Tracking
<1>14. Loaded(layout) \in [1..Cardinality(found) -> FileRow]
  BY <1>11, <1>12, <1>13
<1>15. Loaded(layout) \in Seq(FileRow)
  BY <1>14, <1>10
<1> QED
  BY <1>11, <1>12, <1>15, <1>5

LEMMA FreshRun ==
    ASSUME NEW full \in BOOLEAN, NEW ids \in Tracking
    PROVE  FreshSync(full, ids) \in FileRun
<1>1. <<>> \in Seq([path : LocalPaths, known : CloudIds \cup {0}]) /\ {} \in SUBSET (LocalPaths \X CloudIds)
      /\ 1 \in Nat \ {0} /\ 0 \in Nat /\ "load" \in FileSyncStages /\ FALSE \in BOOLEAN
  BY DEF FileSyncStages
<1> QED
  BY <1>1 DEF FreshSync, FileRun

LEMMA FileSyncInitOK == FileSyncInit => FileSyncInv
<1> SUFFICES ASSUME FileSyncInit PROVE FileSyncInv
  OBVIOUS
<1>1. NothingTracked \in Tracking /\ \A p \in LocalPaths : NothingTracked[p] = 0
  BY DEF NothingTracked, Tracking
<1>2. PICK full \in BOOLEAN : fileSync = FreshSync(full, trackedIds)
  BY DEF FileSyncInit
<1>3. FreshSync(full, trackedIds) \in FileRun
  <2>1. trackedIds \in Tracking
    BY <1>1 DEF FileSyncInit
  <2> QED
    BY <2>1, FreshRun
<1>4. FileSyncTypes
  BY <1>1, <1>2, <1>3 DEF FileSyncTypes, FileSyncInit, NoCloud, CloudTitle, CloudText
<1>5. trackedIds = NothingTracked /\ fileSync.ids = NothingTracked /\ fileSync.files = <<>> /\ fileSync.made = {}
      /\ fileSync.pc = "load" /\ fileSync.at = 1
  BY <1>2 DEF FileSyncInit, FreshSync
<1> QED
  BY <1>1, <1>4, <1>5 DEF FileSyncInv, GivenOut, LoadedOK, MadeOK

LEMMA LoadFilesKeeps == FileSyncInv /\ LoadFiles => FileSyncInv'
<1> SUFFICES ASSUME FileSyncInv, LoadFiles PROVE FileSyncInv'
  OBVIOUS
<1> USE DEF FileSyncInv
<1>1. fileSync \in FileRun /\ fileSync.pc = "load" /\ layout' = layout /\ trackedIds' = trackedIds /\ hosted' = hosted
  BY DEF LoadFiles, FileSyncTypes
<1>2. CASE fileSync' = [fileSync EXCEPT !.pc = "refused"]
  <2>1. fileSync' \in FileRun /\ fileSync'.pc = "refused" /\ fileSync'.ids = fileSync.ids
        /\ fileSync'.files = fileSync.files /\ fileSync'.made = fileSync.made
    BY <1>1, <1>2 DEF FileRun, FileSyncStages
  <2> QED
    BY <1>1, <2>1 DEF FileSyncTypes
<1>3. CASE ~ (fileSync' = [fileSync EXCEPT !.pc = "refused"])
  <2>1. /\ ~ RefusedWalk(layout)
        /\ fileSync' = [fileSync EXCEPT !.pc = "sync", !.files = Loaded(layout), !.clear = Unrelated(Loaded(layout))]
    BY <1>3 DEF LoadFiles
  <2> DEFINE files == Loaded(layout)
  <2>2. /\ files \in Seq(FileRow)
        /\ \A k \in DOMAIN files : /\ files[k].known = trackedIds[files[k].path]
                                   /\ layout.holds[files[k].path] \in DOMAIN Titles
    BY <2>1, LoadedFiles
  <2>3. \A k \in DOMAIN files : files[k].path \in LocalPaths
    <3> HIDE DEF files
    <3>1. \A k \in DOMAIN files : files[k] \in FileRow
      BY <2>2
    <3> QED
      BY <3>1 DEF FileRow
  <2> HIDE DEF files
  <2>4. LoadedOK(layout, files, hosted)
    BY <2>2, <2>3 DEF LoadedOK, DocOf, GivenOut
  <2>5. /\ fileSync'.pc = "sync" /\ fileSync'.files = files /\ fileSync'.made = {} /\ fileSync'.at = 1
        /\ fileSync'.ids = fileSync.ids /\ fileSync'.clear = Unrelated(files) /\ fileSync' \in FileRun
    <3>1. Unrelated(files) \in BOOLEAN
      BY DEF Unrelated
    <3>2. files \in Seq([path : LocalPaths, known : CloudIds \cup {0}])
      BY <2>2 DEF FileRow
    <3> QED
      BY <2>1, <3>1, <3>2, <1>1 DEF FileRun, FileSyncStages, files
  <2>6. FileSyncTypes'
    BY <2>5, <1>1 DEF FileSyncTypes
  <2>7. MadeOK(layout, files, {}, hosted)
    BY DEF MadeOK
  <2>8. \A k \in DOMAIN files : ~ (k < 1)
    BY <2>2
  <2>9. FilesHold(layout, files, 1, fileSync.ids, hosted) /\ FilesApart(files, 1, fileSync.ids)
    BY <2>8 DEF FilesHold, FilesApart
  <2>10. Unrelated(files) => ClearOK(layout, files, hosted)
    BY DEF Unrelated, ClearOK, NameOf
  <2>11. 1 <= Len(files) + 1
    BY <2>2
  <2>12. fileSync'.pc # "done" /\ fileSync'.pc # "load"
    BY <2>5
  <2> QED
    BY <1>1, <2>4, <2>5, <2>6, <2>7, <2>9, <2>10, <2>11, <2>12
<1> QED
  BY <1>2, <1>3

LEMMA Counted ==
    ASSUME NEW files \in Seq(FileRow), NEW n \in Nat \ {0}, n <= Len(files)
    PROVE  n \in DOMAIN files /\ n + 1 <= Len(files) + 1 /\ n + 1 \in Nat \ {0} /\ files[n] \in FileRow
<1>1. Len(files) \in Nat /\ DOMAIN files = 1..Len(files)
  OBVIOUS
<1>2. n \in 1..Len(files) /\ n + 1 <= Len(files) + 1 /\ n + 1 \in Nat \ {0}
  BY <1>1
<1> QED
  BY <1>1, <1>2

\* The file that a run is at.
LEMMA AtFile ==
    ASSUME FileSyncInv, fileSync.pc = "sync", fileSync.at <= Len(fileSync.files)
    PROVE  /\ fileSync \in FileRun /\ fileSync.files \in Seq(FileRow) /\ fileSync.at \in DOMAIN fileSync.files
           /\ fileSync.at \in Nat \ {0} /\ fileSync.at + 1 \in Nat \ {0} /\ fileSync.at + 1 <= Len(fileSync.files) + 1
           /\ hosted \in CloudSet /\ fileSync.ids \in Tracking /\ trackedIds \in Tracking
           /\ LoadedOK(layout, fileSync.files, hosted)
           /\ fileSync.made \in SUBSET (LocalPaths \X CloudIds)
           /\ MadeOK(layout, fileSync.files, fileSync.made, hosted)
           /\ Current = fileSync.files[fileSync.at]
           /\ Current.path \in LocalPaths /\ Current.known \in CloudIds \cup {0}
           /\ Document = DocRow(layout, Current)
           /\ Document \in [title : CloudTitle, text : CloudText] /\ Document # NoCloud
           /\ NameOf(layout, Current) = TitleAt(fileSync.at) /\ NameOf(layout, Current) # ""
<1>1. fileSync \in FileRun /\ hosted \in CloudSet /\ trackedIds \in Tracking
  BY DEF FileSyncInv, FileSyncTypes, CloudSet
<1>2. /\ fileSync.files \in Seq(FileRow) /\ fileSync.at \in Nat \ {0} /\ fileSync.ids \in Tracking
      /\ fileSync.made \in SUBSET (LocalPaths \X CloudIds)
  BY <1>1 DEF FileRun, FileRow
<1>3. /\ fileSync.at \in DOMAIN fileSync.files /\ fileSync.at + 1 \in Nat \ {0} /\ fileSync.at + 1 <= Len(fileSync.files) + 1
      /\ fileSync.files[fileSync.at] \in FileRow
  BY <1>2, Counted
<1>4. LoadedOK(layout, fileSync.files, hosted) /\ MadeOK(layout, fileSync.files, fileSync.made, hosted)
  BY DEF FileSyncInv
<1>5. Current = fileSync.files[fileSync.at] /\ Current \in FileRow
  BY <1>3 DEF Current
<1>6. layout.holds[Current.path] \in DOMAIN Titles
  BY <1>3, <1>4, <1>5 DEF LoadedOK, DocOf
<1>7. NameOf(layout, Current) = TitleAt(fileSync.at) /\ NameOf(layout, Current) # ""
  <2>1. \A t \in DOMAIN Titles : Titles[t] # ""
    BY CuratedFilesAssumption
  <2> QED
    BY <2>1, <1>5, <1>6 DEF NameOf, TitleAt
<1>8. Document = DocRow(layout, Current) /\ Document.title = NameOf(layout, Current)
      /\ Document \in [title : CloudTitle, text : CloudText]
  BY <1>6, <1>7 DEF Document, DocRow, DocOf, NameOf, CloudTitle, CloudText
<1>9. Document # NoCloud
  <2>1. NoCloud.title = ""
    BY DEF NoCloud
  <2> QED
    BY <2>1, <1>7, <1>8
<1>10. Current.path \in LocalPaths /\ Current.known \in CloudIds \cup {0}
  BY <1>5 DEF FileRow
<1> QED
  BY <1>1, <1>2, <1>3, <1>4, <1>5, <1>7, <1>8, <1>9, <1>10

\* What a write makes of the state.
LEMMA WrittenState ==
    ASSUME FileSyncInv, fileSync.pc = "sync", fileSync.at <= Len(fileSync.files), NEW i \in CloudIds,
           GoesTo(layout, fileSync.files, fileSync.at, i, hosted),
           NEW new, new = [hosted EXCEPT ![i] = Document], NEW ids, ids = TrackedAs(i)
    PROVE  /\ new \in CloudSet /\ ids \in Tracking /\ LoadedOK(layout, fileSync.files, new)
           /\ GivenOut(ids, new) /\ GivenOut(trackedIds, new)
           /\ FilesHold(layout, fileSync.files, fileSync.at + 1, ids, new)
           /\ fileSync.clear = TRUE => ClearOK(layout, fileSync.files, new) /\ FilesApart(fileSync.files, fileSync.at + 1, ids)
           /\ MadeOK(layout, fileSync.files, fileSync.made, new)
           /\ /\ \A j \in CloudIds : hosted[j].title # NameOf(layout, Current)
              /\ Current.known = 0 \/ hosted[Current.known].title = ""
              => MadeOK(layout, fileSync.files, fileSync.made \cup {<<Current.path, i>>}, new)
<1> DEFINE L == layout
           files == fileSync.files
           n == fileSync.at
           old == fileSync.ids
           made == fileSync.made
<1>1. /\ files \in Seq(FileRow) /\ n \in DOMAIN files /\ hosted \in CloudSet /\ old \in Tracking /\ trackedIds \in Tracking
      /\ LoadedOK(L, files, hosted) /\ made \in SUBSET (LocalPaths \X CloudIds) /\ MadeOK(L, files, made, hosted)
      /\ Current = files[n]
  BY AtFile
<1>2. new = [hosted EXCEPT ![i] = DocRow(L, files[n])] /\ ids = [old EXCEPT ![files[n].path] = i]
  BY AtFile DEF TrackedAs
<1>3. GoesTo(L, files, n, i, hosted)
  OBVIOUS
<1>4. /\ FilesHold(L, files, n, old, hosted) /\ GivenOut(old, hosted) /\ GivenOut(trackedIds, hosted)
      /\ fileSync.clear = TRUE => ClearOK(L, files, hosted) /\ FilesApart(files, n, old)
  BY DEF FileSyncInv
<1> HIDE DEF L, files, n, old, made
<1>5. /\ new \in CloudSet /\ ids \in Tracking
      /\ LoadedOK(L, files, new)
      /\ \A kept \in Tracking : GivenOut(kept, hosted) => GivenOut(kept, new)
      /\ GivenOut(old, hosted) => GivenOut(ids, new)
      /\ FilesHold(L, files, n, old, hosted) => FilesHold(L, files, n + 1, ids, new)
      /\ ClearOK(L, files, hosted) => ClearOK(L, files, new)
      /\ ClearOK(L, files, hosted) /\ FilesHold(L, files, n, old, hosted) /\ FilesApart(files, n, old)
           => FilesApart(files, n + 1, ids)
  BY <1>1, <1>2, <1>3, FileSaved
<1>6. /\ MadeOK(L, files, made, new)
      /\ /\ \A j \in CloudIds : hosted[j].title # NameOf(L, files[n])
         /\ files[n].known = 0 \/ hosted[files[n].known].title = ""
         => MadeOK(L, files, made \cup {<<files[n].path, i>>}, new)
  BY <1>1, <1>2, <1>3, MadeWritten
<1>7. LoadedOK(L, files, new) /\ GivenOut(ids, new) /\ GivenOut(trackedIds, new)
      /\ FilesHold(L, files, n + 1, ids, new)
  BY <1>1, <1>4, <1>5
<1>8. fileSync.clear = TRUE => ClearOK(L, files, new) /\ FilesApart(files, n + 1, ids)
  BY <1>4, <1>5
<1> QED
  BY <1>1, <1>5, <1>6, <1>7, <1>8 DEF L, files, n, made

\* A run goes on to the next file.
LEMMA SyncedIntoKeeps ==
    ASSUME FileSyncInv, fileSync.pc = "sync", fileSync.at <= Len(fileSync.files), NEW i \in CloudIds,
           GoesTo(layout, fileSync.files, fileSync.at, i, hosted),
           hosted' = [hosted EXCEPT ![i] = Document], Write(TrackedAs(i)), layout' = layout,
           NEW made, made \in SUBSET (LocalPaths \X CloudIds),
           fileSync' = [fileSync EXCEPT !.at = @ + 1, !.ids = TrackedAs(i), !.made = made],
           \/ made = fileSync.made
           \/ /\ \A j \in CloudIds : hosted[j].title # NameOf(layout, Current)
              /\ Current.known = 0 \/ hosted[Current.known].title = ""
              /\ made = fileSync.made \cup {<<Current.path, i>>}
    PROVE  FileSyncInv'
<1>1. /\ hosted' \in CloudSet /\ TrackedAs(i) \in Tracking /\ LoadedOK(layout, fileSync.files, hosted')
      /\ GivenOut(TrackedAs(i), hosted') /\ GivenOut(trackedIds, hosted')
      /\ FilesHold(layout, fileSync.files, fileSync.at + 1, TrackedAs(i), hosted')
      /\ fileSync.clear = TRUE => /\ ClearOK(layout, fileSync.files, hosted')
                                  /\ FilesApart(fileSync.files, fileSync.at + 1, TrackedAs(i))
      /\ MadeOK(layout, fileSync.files, fileSync.made, hosted')
      /\ /\ \A j \in CloudIds : hosted[j].title # NameOf(layout, Current)
         /\ Current.known = 0 \/ hosted[Current.known].title = ""
         => MadeOK(layout, fileSync.files, fileSync.made \cup {<<Current.path, i>>}, hosted')
  BY WrittenState
<1>2. fileSync \in FileRun /\ fileSync.at + 1 \in Nat \ {0} /\ fileSync.at + 1 <= Len(fileSync.files) + 1
      /\ trackedIds \in Tracking
  BY AtFile
<1>3. MadeOK(layout, fileSync.files, made, hosted')
  BY <1>1
<1>4. /\ fileSync' \in FileRun /\ fileSync'.pc = "sync" /\ fileSync'.files = fileSync.files
      /\ fileSync'.at = fileSync.at + 1
      /\ fileSync'.ids = TrackedAs(i) /\ fileSync'.clear = fileSync.clear /\ fileSync'.made = made
  BY <1>1, <1>2 DEF FileRun
<1>5. trackedIds' \in Tracking /\ GivenOut(trackedIds', hosted')
  <2>1. trackedIds' = trackedIds \/ trackedIds' = TrackedAs(i)
    BY DEF Write
  <2> QED
    BY <2>1, <1>1, <1>2
<1>6. FileSyncTypes'
  BY <1>1, <1>4, <1>5 DEF FileSyncTypes, CloudSet, FileSyncInv
<1> QED
  BY <1>1, <1>2, <1>3, <1>4, <1>5, <1>6 DEF FileSyncInv

\* A run ends where a call breaks off.
LEMMA BreaksOffKeeps ==
    ASSUME FileSyncInv, fileSync.pc = "sync", fileSync.at <= Len(fileSync.files), NEW i \in CloudIds, NEW row,
           row \in [title : CloudTitle, text : CloudText], row # NoCloud,
           hosted[i] = NoCloud \/ row.title = hosted[i].title,
           hosted' = [hosted EXCEPT ![i] = row], layout' = layout,
           trackedIds' = trackedIds \/ trackedIds' = TrackedAs(i),
           fileSync' = [fileSync EXCEPT !.pc = "failed", !.faults = @ + 1]
    PROVE  FileSyncInv'
<1>1. /\ fileSync \in FileRun /\ fileSync.files \in Seq(FileRow) /\ hosted \in CloudSet /\ fileSync.ids \in Tracking
      /\ trackedIds \in Tracking /\ LoadedOK(layout, fileSync.files, hosted)
      /\ fileSync.made \in SUBSET (LocalPaths \X CloudIds) /\ MadeOK(layout, fileSync.files, fileSync.made, hosted)
      /\ Current = fileSync.files[fileSync.at] /\ Current.path \in LocalPaths
  BY AtFile
<1>2. /\ hosted' \in CloudSet /\ LoadedOK(layout, fileSync.files, hosted') /\ MadeOK(layout, fileSync.files, fileSync.made, hosted')
      /\ \A old \in Tracking : GivenOut(old, hosted) => GivenOut(old, hosted')
      /\ \A old \in Tracking, p \in LocalPaths :
            GivenOut(old, hosted) => GivenOut([old EXCEPT ![p] = i], hosted')
  BY <1>1, BrokenOff
<1>3. GivenOut(trackedIds, hosted) /\ GivenOut(fileSync.ids, hosted)
  BY DEF FileSyncInv
<1>4. TrackedAs(i) \in Tracking /\ GivenOut(TrackedAs(i), hosted')
  BY <1>1, <1>2, <1>3 DEF TrackedAs, Tracking
<1>5. trackedIds' \in Tracking /\ GivenOut(trackedIds', hosted') /\ GivenOut(fileSync.ids, hosted')
  BY <1>1, <1>2, <1>3, <1>4
<1>6. /\ fileSync' \in FileRun /\ fileSync'.pc = "failed" /\ fileSync'.files = fileSync.files
      /\ fileSync'.ids = fileSync.ids /\ fileSync'.made = fileSync.made
  <2>1. fileSync.faults + 1 \in Nat /\ "failed" \in FileSyncStages
    BY <1>1 DEF FileRun, FileSyncStages
  <2> QED
    BY <1>1, <2>1 DEF FileRun
<1>7. FileSyncTypes'
  BY <1>2, <1>5, <1>6 DEF FileSyncTypes, CloudSet, FileSyncInv
<1> QED
  BY <1>2, <1>5, <1>6, <1>7 DEF FileSyncInv

\* A half-written collection keeps its title.
LEMMA HalfWritten ==
    ASSUME FileSyncInv, NEW i \in CloudIds, hosted[i].title # ""
    PROVE  \E row \in [title : CloudTitle, text : CloudText] :
              /\ row # NoCloud /\ row.title = hosted[i].title
              /\ [hosted EXCEPT ![i].text = "half"] = [hosted EXCEPT ![i] = row]
<1> DEFINE row == [hosted[i] EXCEPT !.text = "half"]
<1>1. hosted[i] \in [title : CloudTitle, text : CloudText]
  BY DEF FileSyncInv, FileSyncTypes
<1>2. "half" \in CloudText
  BY DEF CloudText
<1>3. row \in [title : CloudTitle, text : CloudText] /\ row.title = hosted[i].title
  BY <1>1, <1>2
<1>4. NoCloud.title = ""
  BY DEF NoCloud
<1>5. [hosted EXCEPT ![i].text = "half"] = [hosted EXCEPT ![i] = row]
  OBVIOUS
<1> HIDE DEF row
<1>6. row # NoCloud
  BY <1>3, <1>4
<1> QED
  BY <1>3, <1>5, <1>6

LEMMA UpdateKnownKeeps == FileSyncInv /\ UpdateKnown => FileSyncInv'
<1> SUFFICES ASSUME FileSyncInv, UpdateKnown PROVE FileSyncInv'
  OBVIOUS
<1> DEFINE i == Current.known
<1>1. fileSync.pc = "sync" /\ fileSync.at <= Len(fileSync.files) /\ i \in CloudIds /\ hosted[i].title # "" /\ layout' = layout
  BY DEF UpdateKnown, Existing
<1>2. CASE SyncedInto(i)
  <2>1. GoesTo(layout, fileSync.files, fileSync.at, i, hosted)
    BY <1>1 DEF GoesTo, Current
  <2>2. /\ fileSync.made \subseteq LocalPaths \X CloudIds
        /\ fileSync' = [fileSync EXCEPT !.at = @ + 1, !.ids = TrackedAs(i), !.made = fileSync.made]
    <3>1. fileSync \in FileRun
      BY DEF FileSyncInv, FileSyncTypes
    <3> QED
      BY <3>1, <1>2 DEF SyncedInto, FileRun
  <2>3. hosted' = [hosted EXCEPT ![i] = Document] /\ Write(TrackedAs(i))
    BY <1>2 DEF SyncedInto
  <2> HIDE DEF i
  <2> QED
    BY <1>1, <2>1, <2>2, <2>3, SyncedIntoKeeps
<1>3. CASE BreaksOff(i) /\ UNCHANGED trackedIds
  <2>1. hosted' = [hosted EXCEPT ![i].text = "half"] /\ trackedIds' = trackedIds
        /\ fileSync' = [fileSync EXCEPT !.pc = "failed", !.faults = @ + 1]
    BY <1>3 DEF BreaksOff
  <2> HIDE DEF i
  <2>2. PICK row \in [title : CloudTitle, text : CloudText] :
              /\ row # NoCloud /\ row.title = hosted[i].title
              /\ [hosted EXCEPT ![i].text = "half"] = [hosted EXCEPT ![i] = row]
    BY <1>1, HalfWritten
  <2> QED
    BY <1>1, <2>1, <2>2, BreaksOffKeeps
<1> QED
  BY <1>2, <1>3 DEF UpdateKnown

LEMMA CreateCollectionKeeps == FileSyncInv /\ CreateCollection => FileSyncInv'
<1> SUFFICES ASSUME FileSyncInv, CreateCollection PROVE FileSyncInv'
  OBVIOUS
<1>1. fileSync.pc = "sync" /\ fileSync.at <= Len(fileSync.files) /\ layout' = layout /\ Current.known \notin Existing
  BY DEF CreateCollection
<1>2. /\ fileSync \in FileRun /\ Current = fileSync.files[fileSync.at] /\ Current.path \in LocalPaths
      /\ Current.known \in CloudIds \cup {0} /\ fileSync.made \in SUBSET (LocalPaths \X CloudIds)
      /\ NameOf(layout, Current) = TitleAt(fileSync.at) /\ NameOf(layout, Current) # ""
  BY <1>1, AtFile
<1>3. Current.known = 0 \/ hosted[Current.known].title = ""
  BY <1>1, <1>2 DEF Existing
<1>4. ASSUME Titled = {}, NEW i \in FreshIds, Write(TrackedAs(i)),
             hosted' = [hosted EXCEPT ![i] = Document],
             fileSync' = [fileSync EXCEPT !.at = @ + 1, !.ids = TrackedAs(i),
                                          !.made = @ \cup {<<Current.path, i>>}]
      PROVE  FileSyncInv'
  <2>1. i \in CloudIds /\ hosted[i] = NoCloud
    BY DEF FreshIds
  <2>2. \A j \in CloudIds : hosted[j].title # NameOf(layout, Current)
    BY <1>2, <1>4 DEF Titled
  <2>3. GoesTo(layout, fileSync.files, fileSync.at, i, hosted)
    BY <1>2, <1>3, <2>1, <2>2 DEF GoesTo
  <2>4. fileSync.made \cup {<<Current.path, i>>} \in SUBSET (LocalPaths \X CloudIds)
    <3>1. <<Current.path, i>> \in LocalPaths \X CloudIds
      BY <1>2, <2>1
    <3> QED
      BY <3>1, <1>2
  <2>5. fileSync' = [fileSync EXCEPT !.at = @ + 1, !.ids = TrackedAs(i), !.made = fileSync.made \cup {<<Current.path, i>>}]
    BY <1>4
  <2> QED
    BY <1>1, <1>3, <1>4, <2>1, <2>2, <2>3, <2>4, <2>5, SyncedIntoKeeps
<1>5. ASSUME NEW i \in FreshIds, Write(TrackedAs(i)),
             hosted' = [hosted EXCEPT ![i] = [title |-> "temporary", text |-> "half"]],
             fileSync' = [fileSync EXCEPT !.pc = "failed", !.faults = @ + 1]
      PROVE  FileSyncInv'
  <2>1. i \in CloudIds /\ hosted[i] = NoCloud
    BY DEF FreshIds
  <2>2. trackedIds' = trackedIds \/ trackedIds' = TrackedAs(i)
    BY <1>5 DEF Write
  <2>3. [title |-> "temporary", text |-> "half"] \in [title : CloudTitle, text : CloudText]
        /\ [title |-> "temporary", text |-> "half"] # NoCloud
    BY DEF CloudTitle, CloudText, NoCloud
  <2> QED
    BY <1>1, <1>5, <2>1, <2>2, <2>3, BreaksOffKeeps
<1>6. ASSUME NEW i \in Titled, Titled = {i}, SyncedInto(i) PROVE FileSyncInv'
  <2>1. i \in CloudIds /\ hosted[i].title = NameOf(layout, Current)
        /\ \A j \in CloudIds : hosted[j].title = NameOf(layout, Current) => j = i
    BY <1>2, <1>6 DEF Titled
  <2>2. GoesTo(layout, fileSync.files, fileSync.at, i, hosted)
    BY <1>2, <1>3, <2>1 DEF GoesTo
  <2>3. /\ hosted' = [hosted EXCEPT ![i] = Document] /\ Write(TrackedAs(i))
        /\ fileSync' = [fileSync EXCEPT !.at = @ + 1, !.ids = TrackedAs(i), !.made = fileSync.made]
    BY <1>2, <1>6 DEF SyncedInto, FileRun
  <2> QED
    BY <1>1, <1>2, <2>1, <2>2, <2>3, SyncedIntoKeeps
<1>7. ASSUME NEW i \in Titled, BreaksOff(i), trackedIds' = trackedIds PROVE FileSyncInv'
  <2>1. i \in CloudIds /\ hosted[i].title # ""
    BY <1>2 DEF Titled
  <2>2. PICK row \in [title : CloudTitle, text : CloudText] :
              /\ row # NoCloud /\ row.title = hosted[i].title
              /\ [hosted EXCEPT ![i].text = "half"] = [hosted EXCEPT ![i] = row]
    BY <2>1, HalfWritten
  <2>3. hosted' = [hosted EXCEPT ![i] = row] /\ fileSync' = [fileSync EXCEPT !.pc = "failed", !.faults = @ + 1]
    BY <1>7, <2>2 DEF BreaksOff
  <2> QED
    BY <1>1, <1>7, <2>1, <2>2, <2>3, BreaksOffKeeps
<1>8. ASSUME fileSync' = [fileSync EXCEPT !.pc = "failed"], UNCHANGED <<trackedIds, hosted>> PROVE FileSyncInv'
  <2>1. /\ fileSync' \in FileRun /\ fileSync'.pc = "failed" /\ fileSync'.files = fileSync.files
        /\ fileSync'.ids = fileSync.ids /\ fileSync'.made = fileSync.made
    BY <1>2, <1>8 DEF FileRun, FileSyncStages
  <2>2. FileSyncTypes'
    BY <1>1, <1>8, <2>1 DEF FileSyncTypes, FileSyncInv
  <2> QED
    BY <1>1, <1>8, <2>1, <2>2 DEF FileSyncInv
<1>9. \/ /\ Titled = {}
         /\ \E i \in FreshIds :
               /\ Write(TrackedAs(i))
               /\ \/ /\ hosted' = [hosted EXCEPT ![i] = Document]
                     /\ fileSync' = [fileSync EXCEPT !.at = @ + 1, !.ids = TrackedAs(i),
                                                     !.made = @ \cup {<<Current.path, i>>}]
                  \/ /\ hosted' = [hosted EXCEPT ![i] = [title |-> "temporary", text |-> "half"]]
                     /\ fileSync' = [fileSync EXCEPT !.pc = "failed", !.faults = @ + 1]
      \/ \E i \in Titled : Titled = {i} /\ (SyncedInto(i) \/ (BreaksOff(i) /\ trackedIds' = trackedIds))
      \/ fileSync' = [fileSync EXCEPT !.pc = "failed"] /\ UNCHANGED <<trackedIds, hosted>>
  BY DEF CreateCollection
<1> QED
  BY <1>4, <1>5, <1>6, <1>7, <1>8, <1>9

LEMMA EndSyncKeeps == FileSyncInv /\ EndSync => FileSyncInv'
<1> SUFFICES ASSUME FileSyncInv, EndSync PROVE FileSyncInv'
  OBVIOUS
<1>1. fileSync \in FileRun /\ fileSync.pc = "sync" /\ fileSync.at > Len(fileSync.files) /\ trackedIds' = fileSync.ids
      /\ fileSync' = [fileSync EXCEPT !.pc = "done"] /\ layout' = layout /\ hosted' = hosted
  BY DEF EndSync, FileSyncInv, FileSyncTypes
<1>2. /\ fileSync' \in FileRun /\ fileSync'.pc = "done" /\ fileSync'.files = fileSync.files /\ fileSync'.at = fileSync.at
      /\ fileSync'.ids = fileSync.ids /\ fileSync'.made = fileSync.made /\ fileSync'.clear = fileSync.clear
      /\ fileSync.ids \in Tracking
  BY <1>1 DEF FileRun, FileSyncStages
<1>3. fileSync.at = Len(fileSync.files) + 1
  <2>1. fileSync.at \in Nat /\ fileSync.files \in Seq(FileRow)
    BY <1>1 DEF FileRun, FileRow
  <2>2. Len(fileSync.files) \in Nat
    BY <2>1
  <2>3. fileSync.at <= Len(fileSync.files) + 1
    BY <1>1 DEF FileSyncInv
  <2> QED
    BY <2>1, <2>2, <2>3, <1>1
<1>4. FileSyncTypes'
  BY <1>1, <1>2 DEF FileSyncTypes, FileSyncInv
<1> QED
  BY <1>1, <1>2, <1>3, <1>4 DEF FileSyncInv

LEMMA NextSyncKeeps == FileSyncInv /\ NextSync => FileSyncInv'
<1> SUFFICES ASSUME FileSyncInv, NextSync PROVE FileSyncInv'
  OBVIOUS
<1>1. fileSync \in FileRun /\ layout' \in Layouts /\ trackedIds' \in {trackedIds, NothingTracked}
      /\ hosted \in CloudSet /\ trackedIds \in Tracking /\ GivenOut(trackedIds, hosted)
  BY DEF NextSync, FileSyncInv, FileSyncTypes, CloudSet
<1>2. PICK gone \in Existing \cup {0} : hosted' = [i \in CloudIds |-> IF i = gone THEN Deleted ELSE hosted[i]]
  BY DEF NextSync
<1>3. hosted' \in CloudSet /\ \A i \in CloudIds : hosted[i] # NoCloud => hosted'[i] # NoCloud
  <2>1. Deleted \in [title : CloudTitle, text : CloudText] /\ Deleted # NoCloud
    BY DEF Deleted, NoCloud, CloudTitle, CloudText
  <2> QED
    BY <2>1, <1>1, <1>2 DEF CloudSet
<1>4. trackedIds' \in Tracking /\ GivenOut(trackedIds', hosted')
  <2>1. NothingTracked \in Tracking /\ \A p \in LocalPaths : NothingTracked[p] = 0
    BY DEF NothingTracked, Tracking
  <2>2. GivenOut(trackedIds, hosted')
    BY <1>1, <1>3 DEF GivenOut, Tracking
  <2> QED
    BY <1>1, <2>1, <2>2 DEF GivenOut
<1>5. PICK full \in BOOLEAN :
         fileSync' = [FreshSync(full, trackedIds') EXCEPT !.runs = fileSync.runs + 1, !.faults = fileSync.faults]
  BY DEF NextSync
<1>6. FreshSync(full, trackedIds') \in FileRun
  BY <1>4, FreshRun
<1>7. /\ fileSync' \in FileRun /\ fileSync'.pc = "load" /\ fileSync'.files = <<>> /\ fileSync'.ids = trackedIds'
      /\ fileSync'.made = {} /\ fileSync'.at = 1
  <2>1. fileSync.runs + 1 \in Nat /\ fileSync.faults \in Nat
    BY <1>1 DEF FileRun
  <2>2. fileSync' \in FileRun
    BY <1>5, <1>6, <2>1 DEF FileRun
  <2> QED
    BY <2>2, <1>5 DEF FreshSync
<1>8. FileSyncTypes'
  BY <1>1, <1>3, <1>4, <1>7 DEF FileSyncTypes, CloudSet
<1>9. LoadedOK(layout', <<>>, hosted') /\ MadeOK(layout', <<>>, {}, hosted')
  BY DEF LoadedOK, MadeOK
<1> QED
  BY <1>4, <1>7, <1>8, <1>9 DEF FileSyncInv

LEMMA FileSyncKeeps == FileSyncInv /\ [FileSyncNext]_fileSyncVars => FileSyncInv'
<1> SUFFICES ASSUME FileSyncInv, [FileSyncNext]_fileSyncVars PROVE FileSyncInv'
  OBVIOUS
<1>1. CASE UNCHANGED fileSyncVars
  BY <1>1 DEF FileSyncInv, FileSyncTypes, fileSyncVars
<1> QED
  BY <1>1, LoadFilesKeeps, UpdateKnownKeeps, CreateCollectionKeeps, EndSyncKeeps, NextSyncKeeps DEF FileSyncNext

\* When a run is done, each of its files is in place.
LEMMA DoneInPlace ==
    ASSUME FileSyncInv, fileSync.pc = "done", NEW k \in DOMAIN fileSync.files
    PROVE  LET path(j) == fileSync.files[j].path
               i == trackedIds[path(k)]
           IN  /\ i \in CloudIds /\ hosted[i].title # ""
               /\ \E l \in DOMAIN fileSync.files :
                     /\ trackedIds[path(l)] = i
                     /\ hosted[i] = DocRow(layout, fileSync.files[l])
                     /\ \A j \in DOMAIN fileSync.files : trackedIds[path(j)] = i => j <= l
               /\ fileSync.clear = TRUE =>
                     \A j \in DOMAIN fileSync.files : trackedIds[path(j)] = i => path(j) = path(k)
<1>1. /\ fileSync.files \in Seq(FileRow) /\ trackedIds = fileSync.ids /\ fileSync.at = Len(fileSync.files) + 1
      /\ FilesHold(layout, fileSync.files, fileSync.at, fileSync.ids, hosted)
      /\ fileSync.clear = TRUE => FilesApart(fileSync.files, fileSync.at, fileSync.ids)
  BY DEF FileSyncInv, FileSyncTypes, FileRun, FileRow
<1>2. \A j \in DOMAIN fileSync.files : j < fileSync.at
  <2>1. Len(fileSync.files) \in Nat /\ DOMAIN fileSync.files = 1..Len(fileSync.files)
    BY <1>1
  <2> QED
    BY <1>1, <2>1
<1> QED
  BY <1>1, <1>2 DEF FilesHold, FilesApart, DocRow

LEMMA FileSyncInvImplies == FileSyncInv => FilesAreSynced
<1> SUFFICES ASSUME FileSyncInv PROVE FilesAreSynced
  OBVIOUS
<1>1. EachFileItsOwn
  <2> SUFFICES ASSUME fileSync.pc = "done", fileSync.clear, NEW k \in DOMAIN fileSync.files
               PROVE  LET i == trackedIds[fileSync.files[k].path] IN
                      /\ i \in Existing
                      /\ hosted[i] = [title |-> TitleAt(k), text |-> layout.holds[fileSync.files[k].path]]
                      /\ \A j \in DOMAIN fileSync.files :
                            trackedIds[fileSync.files[j].path] = i => fileSync.files[j].path = fileSync.files[k].path
    BY DEF EachFileItsOwn
  <2> DEFINE i == trackedIds[fileSync.files[k].path]
  <2>0. fileSync.clear = TRUE
    BY DEF FileSyncInv, FileSyncTypes, FileRun
  <2>1. i \in CloudIds /\ hosted[i].title # ""
    BY DoneInPlace
  <2>2. PICK l \in DOMAIN fileSync.files : trackedIds[fileSync.files[l].path] = i
                                           /\ hosted[i] = DocRow(layout, fileSync.files[l])
    BY DoneInPlace
  <2>3. \A j \in DOMAIN fileSync.files :
            trackedIds[fileSync.files[j].path] = i => fileSync.files[j].path = fileSync.files[k].path
    BY <2>0, DoneInPlace
  <2>4. fileSync.files[l].path = fileSync.files[k].path
    BY <2>2, <2>3
  <2>5. hosted[i] = [title |-> TitleAt(k), text |-> layout.holds[fileSync.files[k].path]]
    BY <2>2, <2>4 DEF DocRow, NameOf, DocOf, TitleAt
  <2> QED
    BY <2>1, <2>3, <2>5 DEF Existing
<1>2. LastFileWins
  <2> SUFFICES ASSUME fileSync.pc = "done", NEW k \in DOMAIN fileSync.files
               PROVE  LET i == trackedIds[fileSync.files[k].path]
                          same == {j \in DOMAIN fileSync.files : trackedIds[fileSync.files[j].path] = i}
                          last == CHOOSE j \in same : \A l \in same : l <= j
                      IN  i \in Existing => hosted[i].text = layout.holds[fileSync.files[last].path]
    BY DEF LastFileWins
  <2> DEFINE i == trackedIds[fileSync.files[k].path]
             same == {j \in DOMAIN fileSync.files : trackedIds[fileSync.files[j].path] = i}
             last == CHOOSE j \in same : \A l \in same : l <= j
  <2>1. PICK m \in DOMAIN fileSync.files :
              /\ trackedIds[fileSync.files[m].path] = i /\ hosted[i] = DocRow(layout, fileSync.files[m])
              /\ \A j \in DOMAIN fileSync.files : trackedIds[fileSync.files[j].path] = i => j <= m
    BY DoneInPlace
  <2>2. m \in same /\ \A j \in same : j <= m
    BY <2>1
  <2>3. same \subseteq Nat
    <3>1. fileSync.files \in Seq(FileRow)
      BY DEF FileSyncInv, FileSyncTypes, FileRun, FileRow
    <3>2. DOMAIN fileSync.files \subseteq Nat
      BY <3>1
    <3> QED
      BY <3>2
  <2> HIDE DEF same
  <2>4. last \in same /\ \A j \in same : j <= last
    BY <2>2
  <2> HIDE DEF last
  <2>5. last = m
    BY <2>2, <2>3, <2>4
  <2>6. hosted[i].text = layout.holds[fileSync.files[last].path]
    BY <2>1, <2>5 DEF DocRow, DocOf
  <2> QED
    BY <2>6 DEF last, same
<1>3. OneCollectionPerFile
  BY DEF OneCollectionPerFile, FileSyncInv, MadeOK
<1> QED
  BY <1>1, <1>2, <1>3 DEF FilesAreSynced

\* syncAdditionalCollections over loadAdditionalCollectionFiles, for any directories with
\* links and Local Views, any number of runs, and any calls that break off: a file that is
\* clear of the others has a collection of its own, a shared one holds its last file, and
\* no file makes two collections.
THEOREM FilesSynced == FileSyncSpec => []FilesAreSynced
<1>1. FileSyncSpec => []FileSyncInv
  BY FileSyncInitOK, FileSyncKeeps, PTL DEF FileSyncSpec
<1> QED
  BY <1>1, FileSyncInvImplies, PTL

\* Both of a curated collection: it is whole when its run is done, and is of one file.
THEOREM CuratedSafe == CuratedSpec /\ FileSyncSpec => CuratedIsSafe
  BY TreeUpdateSafe, FilesSynced DEF CuratedIsSafe

-----------------------------------------------------------------------------
(* The multi-file specification                                            *)

BundleSet == [root : Paths, files : FileSets]

\* What is left of a plan: the differences that remain, each once, new files first
\* and stale ones last, with the root's in between.
PlanOK(b, goal, ops) ==
    /\ \A k \in DOMAIN ops : /\ ops[k] = Op(b, goal, ops[k].path)
                             /\ b.files[ops[k].path] # goal.files[ops[k].path]
    /\ \A p \in Paths : b.files[p] # goal.files[p] => \E k \in DOMAIN ops : ops[k].path = p
    /\ \A j, k \in DOMAIN ops : j < k =>
          /\ ops[j].path # ops[k].path
          /\ ops[j].kind = "delete" \/ ops[j].path = b.root => ops[k].kind = "delete"

LEMMA PlannedOpsOK ==
    ASSUME NEW b \in BundleSet, NEW goal \in BundleSet
    PROVE  PlannedOps(b, goal) \in Seq(FileOps) /\ PlanOK(b, goal, PlannedOps(b, goal))
<1> DEFINE differ == {q \in Paths : b.files[q] # goal.files[q]}
           ops == {Op(b, goal, p) : p \in differ}
           before == {r \in ops \X ops : Sooner(b, r[1], r[2])}
           order == Ascending(ops, before)
           Rank(o) == IF o.kind = "delete" THEN 2 ELSE IF o.path = b.root THEN 1 ELSE 0
<1>1. IsFiniteSet(Paths) /\ Paths \subseteq Nat
  BY FileAssumption
<1>2. IsFiniteSet(differ)
  <2>1. differ \in SUBSET Paths
    OBVIOUS
  <2> HIDE DEF differ
  <2> QED
    BY <1>1, <2>1, FS_Subset
<1>3. \A p \in Paths : Op(b, goal, p) \in FileOps /\ Op(b, goal, p).path = p
  BY DEF Op, FileOps
<1>4. \A o \in ops : /\ o \in FileOps /\ o.path \in differ /\ o = Op(b, goal, o.path) /\ o.path \in Nat
                     /\ Rank(o) \in {0, 1, 2} /\ (Rank(o) = 1 => o.path = b.root)
  BY <1>1, <1>3
<1>5. \A p \in differ : Op(b, goal, p) \in ops
  OBVIOUS
<1>6. IsFiniteSet(ops)
  <2> DEFINE f == [p \in differ |-> Op(b, goal, p)]
  <2>1. f \in Surjection(differ, ops)
    BY DEF Surjection
  <2> HIDE DEF f, ops, differ
  <2> QED
    BY <1>2, <2>1, FS_Surjection
<1>7. \A x, y \in ops : <<x, y>> \in before <=> Rank(x) < Rank(y) \/ (Rank(x) = Rank(y) /\ x.path < y.path)
  BY DEF Sooner
<1>8. \A x, y \in ops : x.path = y.path => x = y
  BY <1>4
<1> HIDE DEF differ, ops, before, Rank
<1>9. \A x \in ops : <<x, x>> \notin before
  BY <1>4, <1>7
<1>10. \A x, y, z \in ops : <<x, y>> \in before /\ <<y, z>> \in before => <<x, z>> \in before
  <2> SUFFICES ASSUME NEW x \in ops, NEW y \in ops, NEW z \in ops,
                      <<x, y>> \in before, <<y, z>> \in before PROVE <<x, z>> \in before
    OBVIOUS
  <2>1. Rank(x) < Rank(y) \/ (Rank(x) = Rank(y) /\ x.path < y.path)
    BY <1>7
  <2>2. Rank(y) < Rank(z) \/ (Rank(y) = Rank(z) /\ y.path < z.path)
    BY <1>7
  <2>3. \A o \in ops : Rank(o) \in Nat /\ o.path \in Nat
    BY <1>4
  <2>4. Rank(x) < Rank(z) \/ (Rank(x) = Rank(z) /\ x.path < z.path)
    BY <2>1, <2>2, <2>3
  <2> QED
    BY <2>4, <1>7
<1>11. \A x, y \in ops : x = y \/ <<x, y>> \in before \/ <<y, x>> \in before
  <2> SUFFICES ASSUME NEW x \in ops, NEW y \in ops, x # y PROVE <<x, y>> \in before \/ <<y, x>> \in before
    OBVIOUS
  <2>1. x.path # y.path /\ Rank(x) \in Nat /\ Rank(y) \in Nat /\ x.path \in Nat /\ y.path \in Nat
    BY <1>4, <1>8
  <2>2. (Rank(x) < Rank(y) \/ (Rank(x) = Rank(y) /\ x.path < y.path)) \/ (Rank(y) < Rank(x) \/ (Rank(y) = Rank(x) /\ y.path < x.path))
    BY <2>1
  <2> QED
    BY <2>2, <1>7
<1>12. /\ Cardinality(ops) \in Nat /\ order \in [1..Cardinality(ops) -> ops]
       /\ \A x \in ops : \E k \in 1..Cardinality(ops) : order[k] = x
       /\ \A j, k \in 1..Cardinality(ops) : j < k => <<order[j], order[k]>> \in before
  BY <1>6, <1>9, <1>10, <1>11, AscendingSorts
<1>13. PlannedOps(b, goal) = order
  BY DEF PlannedOps, order, before, ops, differ
<1> HIDE DEF order
<1>14. DOMAIN order = 1..Cardinality(ops) /\ \A k \in DOMAIN order : order[k] \in ops
  BY <1>12
<1>15. order \in Seq(FileOps)
  <2>1. order \in [1..Cardinality(ops) -> FileOps]
    BY <1>4, <1>12
  <2> QED
    BY <2>1, <1>12
<1>16. \A k \in DOMAIN order : order[k] = Op(b, goal, order[k].path) /\ b.files[order[k].path] # goal.files[order[k].path]
  BY <1>4, <1>14 DEF differ
<1>17. \A p \in Paths : b.files[p] # goal.files[p] => \E k \in DOMAIN order : order[k].path = p
  <2> SUFFICES ASSUME NEW p \in Paths, b.files[p] # goal.files[p] PROVE \E k \in DOMAIN order : order[k].path = p
    OBVIOUS
  <2>1. Op(b, goal, p) \in ops
    BY <1>5 DEF differ
  <2> QED
    BY <2>1, <1>3, <1>12, <1>14
<1>18. \A j, k \in DOMAIN order : j < k =>
          /\ order[j].path # order[k].path
          /\ order[j].kind = "delete" \/ order[j].path = b.root => order[k].kind = "delete"
  <2> SUFFICES ASSUME NEW j \in DOMAIN order, NEW k \in DOMAIN order, j < k
               PROVE  /\ order[j].path # order[k].path
                      /\ order[j].kind = "delete" \/ order[j].path = b.root => order[k].kind = "delete"
    OBVIOUS
  <2>1. order[j] \in ops /\ order[k] \in ops /\ <<order[j], order[k]>> \in before
    BY <1>12, <1>14
  <2>2. order[j] # order[k]
    BY <2>1, <1>9
  <2>3. order[j].path # order[k].path
    BY <2>1, <2>2, <1>8
  <2>4. ~ (Rank(order[k]) < Rank(order[j]))
    BY <2>1, <1>4, <1>7
  <2>5. order[j].kind = "delete" => Rank(order[k]) = 2
    BY <2>1, <2>4, <1>4 DEF Rank
  <2>6. order[j].path = b.root => Rank(order[k]) = 2
    <3> SUFFICES ASSUME order[j].path = b.root PROVE Rank(order[k]) = 2
      OBVIOUS
    <3>1. Rank(order[j]) \in {1, 2}
      BY DEF Rank
    <3>2. Rank(order[k]) # 1
      BY <2>1, <2>3, <1>4
    <3> QED
      BY <3>1, <3>2, <2>1, <2>4, <1>4
  <2>7. Rank(order[k]) = 2 => order[k].kind = "delete"
    BY DEF Rank
  <2> QED
    BY <2>3, <2>5, <2>6, <2>7
<1> QED
  BY <1>13, <1>15, <1>16, <1>17, <1>18 DEF PlanOK

\* One call of a plan takes its difference away.
LEMMA PlanStep ==
    ASSUME NEW b \in BundleSet, NEW goal \in BundleSet, NEW ops \in Seq(FileOps), ops # <<>>,
           PlanOK(b, goal, ops), Landing(b, Head(ops).path) = Head(ops).path
    PROVE  /\ ~ FileRefused(b, Head(ops))
           /\ FileWritten(b, Head(ops), goal) = [b EXCEPT !.files[Head(ops).path] = goal.files[Head(ops).path]]
           /\ PlanOK(FileWritten(b, Head(ops), goal), goal, Tail(ops))
<1> DEFINE o == Head(ops)
           b2 == [b EXCEPT !.files[o.path] = goal.files[o.path]]
<1>1. /\ 1 \in DOMAIN ops /\ o = ops[1] /\ o \in FileOps /\ Len(ops) \in Nat /\ DOMAIN ops = 1..Len(ops)
      /\ Tail(ops) \in Seq(FileOps) /\ DOMAIN Tail(ops) = 1..(Len(ops) - 1)
      /\ \A k \in DOMAIN Tail(ops) : Tail(ops)[k] = ops[k + 1] /\ k + 1 \in DOMAIN ops /\ k \in Nat /\ 1 < k + 1
  OBVIOUS
<1>2. o.path \in Paths /\ o = Op(b, goal, o.path) /\ b.files[o.path] # goal.files[o.path]
  BY <1>1 DEF PlanOK, FileOps
<1>3. o.kind = "create" => o.path \notin Has(b)
  BY <1>2 DEF Op, Has
<1>4. ~ FileRefused(b, o)
  BY <1>3 DEF FileRefused
<1>5. FileWritten(b, o, goal) = b2
  BY <1>3 DEF FileWritten
<1>6. /\ b2.root = b.root /\ b2.files[o.path] = goal.files[o.path]
      /\ \A p \in Paths : p # o.path => b2.files[p] = b.files[p]
  BY <1>2 DEF BundleSet, FileSets
<1> HIDE DEF b2, o
<1>7. \A k \in DOMAIN ops : ops[k] \in FileOps /\ ops[k].path \in Paths
  <2>1. \A k \in DOMAIN ops : ops[k] \in FileOps
    BY <1>1
  <2> QED
    BY <2>1 DEF FileOps
<1>8. \A k \in DOMAIN Tail(ops) : Tail(ops)[k].path # o.path /\ Tail(ops)[k].path \in Paths
  BY <1>1, <1>7 DEF PlanOK
<1>9. \A k \in DOMAIN Tail(ops) : /\ Tail(ops)[k] = Op(b2, goal, Tail(ops)[k].path)
                                  /\ b2.files[Tail(ops)[k].path] # goal.files[Tail(ops)[k].path]
  <2> SUFFICES ASSUME NEW k \in DOMAIN Tail(ops)
               PROVE  /\ Tail(ops)[k] = Op(b2, goal, Tail(ops)[k].path)
                      /\ b2.files[Tail(ops)[k].path] # goal.files[Tail(ops)[k].path]
    OBVIOUS
  <2>1. Tail(ops)[k] = Op(b, goal, Tail(ops)[k].path) /\ b.files[Tail(ops)[k].path] # goal.files[Tail(ops)[k].path]
    BY <1>1 DEF PlanOK
  <2>2. b2.files[Tail(ops)[k].path] = b.files[Tail(ops)[k].path]
    BY <1>6, <1>8
  <2> QED
    BY <2>1, <2>2 DEF Op
<1>10. \A p \in Paths : b2.files[p] # goal.files[p] => \E k \in DOMAIN Tail(ops) : Tail(ops)[k].path = p
  <2> SUFFICES ASSUME NEW p \in Paths, b2.files[p] # goal.files[p] PROVE \E k \in DOMAIN Tail(ops) : Tail(ops)[k].path = p
    OBVIOUS
  <2>1. p # o.path /\ b.files[p] # goal.files[p]
    BY <1>6
  <2>2. PICK k \in DOMAIN ops : ops[k].path = p
    BY <2>1 DEF PlanOK
  <2>3. k # 1
    BY <1>1, <2>1, <2>2
  <2>4. k - 1 \in DOMAIN Tail(ops) /\ (k - 1) + 1 = k
    BY <1>1, <2>3
  <2>5. Tail(ops)[k - 1] = ops[k]
    BY <1>1, <2>4
  <2> QED
    BY <2>2, <2>4, <2>5
<1>11. \A j, k \in DOMAIN Tail(ops) : j < k =>
          /\ Tail(ops)[j].path # Tail(ops)[k].path
          /\ Tail(ops)[j].kind = "delete" \/ Tail(ops)[j].path = b2.root => Tail(ops)[k].kind = "delete"
  <2> SUFFICES ASSUME NEW j \in DOMAIN Tail(ops), NEW k \in DOMAIN Tail(ops), j < k
               PROVE  /\ Tail(ops)[j].path # Tail(ops)[k].path
                      /\ Tail(ops)[j].kind = "delete" \/ Tail(ops)[j].path = b2.root => Tail(ops)[k].kind = "delete"
    OBVIOUS
  <2>1. j + 1 < k + 1 /\ j + 1 \in DOMAIN ops /\ k + 1 \in DOMAIN ops
    BY <1>1
  <2> QED
    BY <2>1, <1>1, <1>6 DEF PlanOK
<1> QED
  <2>1. PlanOK(b2, goal, Tail(ops))
    BY <1>9, <1>10, <1>11 DEF PlanOK
  <2> QED
    BY <2>1, <1>4, <1>5 DEF o, b2

\* What is kept of two bundles of one root while a specification goes from one to the other.
Between(b, one, other) ==
    /\ b.root = one.root
    /\ b.files[b.root] # NoFile
    /\ Has(b) \subseteq Has(one) \cup Has(other)
    /\ \A c \in {one, other} :
          one.files[one.root] # other.files[one.root] /\ b.files[one.root] = c.files[one.root]
          => Has(c) \subseteq Has(b)

\* A call of the plan keeps it: a new file disturbs nothing, the root's content comes when
\* no new file is left, and a stale file goes when the root's content is there.
LEMMA BetweenStep ==
    ASSUME NEW b \in BundleSet, NEW one \in Bundles, NEW other \in Bundles, NEW goal \in {one, other},
           one.root = other.root, Between(b, one, other),
           NEW ops \in Seq(FileOps), ops # <<>>, PlanOK(b, goal, ops)
    PROVE  Between([b EXCEPT !.files[Head(ops).path] = goal.files[Head(ops).path]], one, other)
<1> DEFINE o == Head(ops)
           b2 == [b EXCEPT !.files[o.path] = goal.files[o.path]]
           root == one.root
<1>1. /\ one \in BundleSet /\ other \in BundleSet /\ goal \in BundleSet
      /\ goal.root = root /\ goal.files[root] # NoFile /\ root \in Paths /\ b.root = root
  BY FileAssumption DEF BundleSet, Between
<1>2. /\ 1 \in DOMAIN ops /\ o = ops[1] /\ Len(ops) \in Nat /\ DOMAIN ops = 1..Len(ops) /\ o \in FileOps
  OBVIOUS
<1>3. o.path \in Paths /\ o = Op(b, goal, o.path) /\ b.files[o.path] # goal.files[o.path]
  BY <1>2 DEF PlanOK, FileOps
<1>4. /\ b2.root = root /\ b2.files[o.path] = goal.files[o.path]
      /\ \A p \in Paths : p # o.path => b2.files[p] = b.files[p]
  BY <1>1, <1>3 DEF BundleSet, FileSets
<1>5. Has(b2) = IF goal.files[o.path] = NoFile THEN Has(b) \ {o.path} ELSE Has(b) \cup {o.path}
  BY <1>3, <1>4 DEF Has
<1>6. Has(goal) \subseteq Has(one) \cup Has(other)
  OBVIOUS
<1>7. Has(b2) \subseteq Has(one) \cup Has(other)
  BY <1>3, <1>5, <1>6 DEF Between, Has
<1>8. b2.files[root] # NoFile
  BY <1>1, <1>4 DEF Between
<1>9. ASSUME NEW c \in {one, other}, one.files[root] # other.files[root], b2.files[root] = c.files[root]
      PROVE  Has(c) \subseteq Has(b2)
  <2>1. CASE o.path = root
    <3>1. c = goal
      BY <2>1, <1>4, <1>9
    <3>2. \A p \in Paths : goal.files[p] # NoFile /\ b.files[p] = NoFile => FALSE
      <4> SUFFICES ASSUME NEW p \in Paths, goal.files[p] # NoFile, b.files[p] = NoFile PROVE FALSE
        OBVIOUS
      <4>1. PICK k \in DOMAIN ops : ops[k].path = p
        BY DEF PlanOK
      <4>2. ops[k].kind = "create"
        <5>1. ops[k] = Op(b, goal, p)
          BY <4>1 DEF PlanOK
        <5> QED
          BY <5>1 DEF Op
      <4>3. p # root
        BY <1>1 DEF Between
      <4>4. k # 1
        BY <4>1, <4>3, <2>1, <1>2
      <4>5. 1 < k
        BY <4>4, <1>2
      <4>6. ops[k].kind = "delete"
        BY <4>5, <1>1, <1>2, <2>1 DEF PlanOK
      <4> QED
        BY <4>2, <4>6
    <3>3. Has(goal) \subseteq Has(b)
      BY <3>2 DEF Has
    <3> QED
      BY <3>1, <3>3, <1>5 DEF Has
  <2>2. CASE o.path # root
    <3>1. b.files[root] = c.files[root] /\ Has(c) \subseteq Has(b)
      BY <2>2, <1>1, <1>4, <1>9 DEF Between
    <3>2. CASE goal.files[o.path] # NoFile
      BY <3>1, <3>2, <1>5
    <3>3. CASE goal.files[o.path] = NoFile
      <4>1. o.kind = "delete"
        BY <1>3, <3>3 DEF Op
      <4>2. b.files[root] = goal.files[root]
        <5> SUFFICES ASSUME b.files[root] # goal.files[root] PROVE FALSE
          OBVIOUS
        <5>1. PICK k \in DOMAIN ops : ops[k].path = root
          BY <1>1 DEF PlanOK
        <5>2. ops[k] = Op(b, goal, root)
          BY <5>1 DEF PlanOK
        <5>3. ops[k].kind # "delete"
          BY <5>2, <1>1 DEF Op
        <5>4. 1 < k
          BY <5>1, <2>2, <1>2
        <5> QED
          BY <5>3, <5>4, <4>1, <1>2 DEF PlanOK
      <4>3. c.files[root] = goal.files[root]
        BY <3>1, <4>2
      <4>4. c = goal
        BY <4>3, <1>9
      <4>5. o.path \notin Has(c)
        BY <4>4, <3>3 DEF Has
      <4> QED
        BY <4>5, <3>1, <1>5, <3>3
    <3> QED
      BY <3>2, <3>3
  <2> QED
    BY <2>1, <2>2
<1> HIDE DEF b2
<1>10. Between(b2, one, other)
  BY <1>1, <1>4, <1>7, <1>8, <1>9 DEF Between
<1> QED
  BY <1>10 DEF b2

LEMMA BetweenEnds ==
    ASSUME NEW one \in Bundles, NEW other \in Bundles, one.root = other.root, NEW goal \in {one, other}
    PROVE  Between(goal, one, other)
<1>1. one \in BundleSet /\ other \in BundleSet /\ one.files[one.root] # NoFile /\ other.files[other.root] # NoFile
  BY FileAssumption DEF BundleSet
<1> QED
  BY <1>1 DEF Between

\* A bulk request with the whole plan makes the specification the bundle.
LEMMA BulkWrittenIsGoal ==
    ASSUME NEW b \in BundleSet, NEW goal \in BundleSet, NEW ops \in Seq(FileOps), PlanOK(b, goal, ops), b.root = goal.root
    PROVE  BulkWritten(b, ToSet(ops), goal) = goal
<1> DEFINE b2 == BulkWritten(b, ToSet(ops), goal)
<1>1. b2 = [b EXCEPT !.files = [p \in Paths |-> IF \E o \in ToSet(ops) : o.path = p THEN goal.files[p] ELSE b.files[p]]]
  BY DEF BulkWritten
<1>2. \A p \in Paths : (\E o \in ToSet(ops) : o.path = p) \/ b.files[p] = goal.files[p]
  <2> SUFFICES ASSUME NEW p \in Paths, b.files[p] # goal.files[p] PROVE \E o \in ToSet(ops) : o.path = p
    OBVIOUS
  <2>1. PICK k \in DOMAIN ops : ops[k].path = p
    BY DEF PlanOK
  <2> QED
    BY <2>1 DEF ToSet
<1>3. \A p \in Paths : (IF \E o \in ToSet(ops) : o.path = p THEN goal.files[p] ELSE b.files[p]) = goal.files[p]
  BY <1>2
<1>4. [p \in Paths |-> IF \E o \in ToSet(ops) : o.path = p THEN goal.files[p] ELSE b.files[p]] = [p \in Paths |-> goal.files[p]]
  BY <1>3
<1>5. goal.files = [p \in Paths |-> goal.files[p]]
  BY DEF BundleSet, FileSets
<1>6. b2 = [b EXCEPT !.files = goal.files]
  BY <1>1, <1>4, <1>5
<1> HIDE DEF b2
<1>7. b2 = goal
  BY <1>6 DEF BundleSet
<1> QED
  BY <1>7 DEF b2

LEMMA WritesTyped ==
    ASSUME NEW b \in BundleSet, NEW goal \in BundleSet
    PROVE  /\ \A ops \in SUBSET FileOps : BulkWritten(b, ops, goal) \in BundleSet
           /\ \A o \in FileOps : FileWritten(b, o, goal) \in BundleSet
           /\ BulkWritten(b, {}, goal) = b
<1>1. \A ops \in SUBSET FileOps : BulkWritten(b, ops, goal) \in BundleSet
  <2> TAKE ops \in SUBSET FileOps
  <2>1. [p \in Paths |-> IF \E o \in ops : o.path = p THEN goal.files[p] ELSE b.files[p]] \in FileSets
    BY DEF BundleSet, FileSets
  <2> QED
    BY <2>1 DEF BulkWritten, BundleSet
<1>2. \A o \in FileOps : FileWritten(b, o, goal) \in BundleSet
  <2> SUFFICES ASSUME NEW o \in FileOps PROVE FileWritten(b, o, goal) \in BundleSet
    OBVIOUS
  <2>1. o.path \in Paths /\ Landing(b, o.path) \in Paths
    BY FileAssumption DEF FileOps, Landing
  <2>2. \A p \in Paths : [b EXCEPT !.files[p] = goal.files[o.path]] \in BundleSet
    BY <2>1 DEF BundleSet, FileSets
  <2> QED
    BY <2>1, <2>2 DEF FileWritten
<1>3. BulkWritten(b, {}, goal) = b
  <2>1. b.files = [p \in Paths |-> b.files[p]]
    BY DEF BundleSet, FileSets
  <2>2. BulkWritten(b, {}, goal) = [b EXCEPT !.files = b.files]
    BY <2>1 DEF BulkWritten
  <2> QED
    BY <2>2 DEF BundleSet
<1> QED
  BY <1>1, <1>2, <1>3

\* The runs that ClosureKept is about, and what it takes.
Guarded(s) ==
    s.tracked = TRUE /\ s.policy # "bulk" /\ s.prior.root = s.target.root
    /\ ~ (s.policy = "perFile" /\ \E p \in Has(s.prior) \cup Has(s.target) : Directory[p] # TopDirectory)
GoalOf(s) == IF s.restoring = TRUE THEN s.prior ELSE s.target
Reconciling == {"read", "bulk", "files", "failedWrite", "verify"}
Creating == {"post", "recover", "elect", "readback", "cleanup"}

RunRests(s, stored, own, shared) ==
    /\ s.pc \in Reconciling \cup Creating => s.goal = GoalOf(s)
    /\ s.restoring = TRUE => s.tracked = TRUE /\ s.pc \in Reconciling \cup {"restored", "unrestored"}
    /\ s.pc \in {"later", "published"} => stored = s.target
    /\ s.pc = "restored" => stored = s.prior
    /\ s.pc \notin SyncEnded => s.tries < RestoreAttempts
    /\ s.tracked = TRUE => s.pc \notin {"idle"} \cup Creating /\ s.created = FALSE
    /\ s.pc = "idle" => own = "none"
    /\ s.pc \in {"elect", "readback", "cleanup"} => own = "own"
    /\ s.created = TRUE /\ s.pc \notin SyncEnded => own = "own" /\ shared = FALSE
    /\ s.created = TRUE => s.pc \in {"later", "delete"} \cup SyncEnded
    /\ s.pc = "delete" => s.created = TRUE
    /\ s.pc \in {"files", "bulk"} => (s.policy = "perFile" <=> s.pc = "files")
    /\ s.pc = "bulk" => PlanOK(stored, s.goal, s.ops) /\ stored.root = s.goal.root
    /\ Guarded(s) => /\ Between(stored, s.prior, s.target)
                     /\ s.pc = "files" => PlanOK(stored, s.goal, s.ops)

ReconcileInv == SpecFilesTypeOK /\ RunRests(sync, cloud, holder, contended)

LEMMA ReconcileInvImplies == ReconcileInv => SpecFilesTypeOK /\ FilesAsReported /\ ClosureKept
<1> SUFFICES ASSUME ReconcileInv PROVE FilesAsReported /\ ClosureKept
  BY DEF ReconcileInv
<1>1. FilesAsReported
  BY DEF ReconcileInv, RunRests, FilesAsReported, SyncAt
<1>2. ClosureKept
  <2> SUFFICES ASSUME sync.tracked, sync.policy # "bulk", ~Strays, sync.prior.root = sync.target.root,
                      NEW b \in {sync.prior, sync.target}, NEW other \in {sync.prior, sync.target},
                      b.files[b.root] # other.files[b.root], cloud.files[b.root] = b.files[b.root]
               PROVE  Has(b) \subseteq Has(cloud)
    BY DEF ClosureKept
  <2>1. sync.tracked = TRUE
    BY DEF ReconcileInv, SpecFilesTypeOK, SyncState
  <2>2. Guarded(sync)
    BY <2>1 DEF Guarded, Strays
  <2>3. Between(cloud, sync.prior, sync.target)
    BY <2>2 DEF ReconcileInv, RunRests
  <2> QED
    BY <2>3 DEF Between
<1> QED
  BY <1>1, <1>2

LEMMA SyncTyped ==
    ASSUME ReconcileInv
    PROVE  /\ sync \in SyncState /\ cloud \in BundleSet /\ Bundles \subseteq BundleSet /\ sync.goal \in Bundles
           /\ sync.prior \in Bundles /\ sync.target \in Bundles /\ sync.tries \in Nat /\ sync.ops \in Seq(FileOps)
           /\ sync.policy \in Policies /\ RestoreAttempts \in Nat \ {0}
           /\ (sync.tracked = TRUE \/ sync.tracked = FALSE) /\ (sync.created = TRUE \/ sync.created = FALSE)
           /\ (sync.restoring = TRUE \/ sync.restoring = FALSE)
<1>1. sync \in SyncState /\ cloud \in BundleSet
  BY DEF ReconcileInv, SpecFilesTypeOK, BundleSet
<1>2. Bundles \subseteq BundleSet /\ RestoreAttempts \in Nat \ {0}
  BY FileAssumption DEF BundleSet
<1>3. sync.tries \in 0..RestoreAttempts
  BY <1>1 DEF SyncState
<1> QED
  BY <1>1, <1>2, <1>3 DEF SyncState

\* A failed reconcile, or a later stage that fails.
LEMMA FailingOK ==
    ASSUME ReconcileInv, sync.pc \in Reconciling \cup {"later"}
    PROVE  Failing \in SyncState /\ RunRests(Failing, cloud, holder, contended)
<1> DEFINE f == Failing
<1>t. /\ sync \in SyncState /\ sync.prior \in Bundles /\ sync.tries \in Nat /\ RestoreAttempts \in Nat \ {0}
      /\ (sync.tracked = TRUE \/ sync.tracked = FALSE) /\ (sync.created = TRUE \/ sync.created = FALSE)
      /\ (sync.restoring = TRUE \/ sync.restoring = FALSE)
  BY SyncTyped
<1>g. Guarded(sync) => Between(cloud, sync.prior, sync.target)
  BY DEF ReconcileInv, RunRests
<1>r. RunRests(sync, cloud, holder, contended)
  BY DEF ReconcileInv
<1>1. CASE sync.restoring = FALSE
  <2> DEFINE to == IF sync.created THEN "delete" ELSE IF sync.tracked THEN "read" ELSE "failed"
  <2>1. f = [sync EXCEPT !.pc = to, !.restoring = sync.tracked, !.goal = sync.prior, !.tries = 0]
    BY <1>1 DEF Failing
  <2>2. to \in SyncStages /\ 0 \in 0..RestoreAttempts
    BY <1>t DEF SyncStages
  <2>3. /\ f \in SyncState /\ f.pc = to /\ f.restoring = sync.tracked /\ f.goal = sync.prior /\ f.tries = 0
        /\ f.policy = sync.policy /\ f.tracked = sync.tracked /\ f.created = sync.created
        /\ f.prior = sync.prior /\ f.target = sync.target
    BY <1>t, <2>1, <2>2 DEF SyncState
  <2>4. sync.pc \notin SyncEnded
    BY DEF Reconciling, SyncEnded
  <2>5. sync.created = TRUE => sync.tracked = FALSE /\ holder = "own" /\ contended = FALSE
    BY <1>t, <1>r, <2>4 DEF RunRests
  <2>6. 0 < RestoreAttempts
    BY <1>t
  <2>7. Guarded(f) => Between(cloud, f.prior, f.target)
    BY <1>g, <2>3 DEF Guarded
  <2> HIDE DEF f
  <2>8. ASSUME sync.created = TRUE PROVE RunRests(f, cloud, holder, contended)
    <3>1. f.pc = "delete" /\ f.restoring = FALSE /\ f.tracked = FALSE /\ f.created = TRUE /\ f.tries = 0
      BY <2>3, <2>5, <2>8
    <3> QED
      BY <2>5, <2>6, <2>8, <3>1 DEF RunRests, Reconciling, Creating, SyncEnded, Guarded
  <2>9. ASSUME sync.created = FALSE /\ sync.tracked = TRUE PROVE RunRests(f, cloud, holder, contended)
    <3>1. f.pc = "read" /\ f.restoring = TRUE /\ f.tracked = TRUE /\ f.created = FALSE /\ f.tries = 0 /\ f.goal = f.prior
      BY <2>3, <2>9
    <3> QED
      BY <2>6, <2>7, <3>1 DEF RunRests, Reconciling, Creating, SyncEnded, GoalOf
  <2>10. ASSUME sync.created = FALSE /\ sync.tracked = FALSE PROVE RunRests(f, cloud, holder, contended)
    <3>1. f.pc = "failed" /\ f.restoring = FALSE /\ f.tracked = FALSE /\ f.created = FALSE /\ f.tries = 0
      BY <2>3, <2>10
    <3> QED
      BY <2>6, <3>1 DEF RunRests, Reconciling, Creating, SyncEnded, Guarded
  <2> QED
    BY <1>t, <2>3, <2>8, <2>9, <2>10 DEF f
<1>2. CASE sync.restoring = TRUE
  <2> DEFINE to == IF sync.tries + 1 < RestoreAttempts THEN "read" ELSE "unrestored"
  <2>1. f = [sync EXCEPT !.pc = to, !.tries = @ + 1]
    BY <1>2 DEF Failing
  <2>2. sync.tries < RestoreAttempts /\ sync.tracked = TRUE /\ sync.pc \in Reconciling /\ sync.created = FALSE
    BY <1>2, <1>r DEF RunRests, Reconciling, Creating, SyncEnded
  <2>3. to \in SyncStages /\ sync.tries + 1 \in 0..RestoreAttempts
    BY <1>t, <2>2 DEF SyncStages
  <2>4. /\ f \in SyncState /\ f.pc = to /\ f.restoring = sync.restoring /\ f.goal = sync.goal /\ f.tries = sync.tries + 1
        /\ f.policy = sync.policy /\ f.tracked = sync.tracked /\ f.created = sync.created
        /\ f.prior = sync.prior /\ f.target = sync.target
    BY <1>t, <2>1, <2>3 DEF SyncState
  <2>5. f.goal = GoalOf(f)
    BY <2>2, <2>4, <1>r DEF RunRests, GoalOf
  <2>6. Guarded(f) => Between(cloud, f.prior, f.target)
    BY <1>g, <2>4 DEF Guarded
  <2>7. f.pc \notin SyncEnded => f.tries < RestoreAttempts
    BY <2>4 DEF SyncEnded
  <2>8. f.restoring = TRUE /\ f.tracked = TRUE /\ f.created = FALSE /\ f.pc \in {"read", "unrestored"}
    BY <1>2, <2>2, <2>4
  <2> HIDE DEF f, to
  <2>9. RunRests(f, cloud, holder, contended)
    BY <2>5, <2>6, <2>7, <2>8 DEF RunRests, Reconciling, Creating, SyncEnded
  <2> QED
    BY <2>4, <2>9 DEF f
<1> QED
  BY <1>t, <1>1, <1>2

LEMMA SucceedingOK ==
    ASSUME ReconcileInv, sync.pc \in Reconciling, cloud = sync.goal
    PROVE  Succeeding \in SyncState /\ RunRests(Succeeding, cloud, holder, contended)
<1> DEFINE f == Succeeding
           to == IF sync.restoring THEN "restored" ELSE "later"
<1>t. /\ sync \in SyncState /\ (sync.restoring = TRUE \/ sync.restoring = FALSE)
      /\ (sync.tracked = TRUE \/ sync.tracked = FALSE) /\ (sync.created = TRUE \/ sync.created = FALSE)
  BY SyncTyped
<1>r. RunRests(sync, cloud, holder, contended)
  BY DEF ReconcileInv
<1>1. /\ f \in SyncState /\ f.pc = to /\ f.restoring = sync.restoring /\ f.tries = sync.tries
      /\ f.policy = sync.policy /\ f.tracked = sync.tracked /\ f.created = sync.created
      /\ f.prior = sync.prior /\ f.target = sync.target
  <2>1. to \in SyncStages
    BY DEF SyncStages
  <2> QED
    BY <1>t, <2>1 DEF Succeeding, SyncState
<1>2. /\ sync.goal = GoalOf(sync) /\ sync.tries < RestoreAttempts /\ sync.created = FALSE
      /\ sync.restoring = TRUE => sync.tracked = TRUE
  BY <1>t, <1>r DEF RunRests, Reconciling, Creating, SyncEnded
<1>3. /\ f.pc = "later" => cloud = f.target /\ f.restoring = FALSE
      /\ f.pc = "restored" => cloud = f.prior
  BY <1>1, <1>2, <1>t DEF GoalOf
<1>4. Guarded(f) => Between(cloud, f.prior, f.target)
  BY <1>1, <1>r DEF RunRests, Guarded
<1>5. f.pc \in {"later", "restored"} /\ (f.restoring = TRUE => f.pc = "restored")
  BY <1>1
<1> HIDE DEF f, to
<1>6. RunRests(f, cloud, holder, contended)
  BY <1>1, <1>2, <1>3, <1>4, <1>5 DEF RunRests, Reconciling, Creating, SyncEnded
<1> QED
  BY <1>1, <1>6 DEF f

LEMMA ReconcileInitOK == SpecFilesInit => ReconcileInv
<1> SUFFICES ASSUME SpecFilesInit PROVE ReconcileInv
  OBVIOUS
<1>1. FirstBundle \in Bundles /\ Bundles \subseteq BundleSet /\ RestoreAttempts \in Nat \ {0} /\ MaxFileFaults \in Nat
  BY FileAssumption DEF FirstBundle, BundleSet
<1>2. 0 \in 0..RestoreAttempts /\ 0 < RestoreAttempts /\ 0 \in 0..MaxFileFaults /\ <<>> \in Seq(FileOps)
  BY <1>1
<1>3. /\ sync.pc = "idle" /\ sync.tracked = FALSE /\ sync.created = FALSE /\ sync.restoring = FALSE /\ sync.tries = 0
      /\ sync \in SyncState /\ holder = "none"
  BY <1>1, <1>2 DEF SpecFilesInit, SyncState, SyncStages, Policies
<1>4. SpecFilesTypeOK
  BY <1>1, <1>2, <1>3 DEF SpecFilesInit, SpecFilesTypeOK, BundleSet
<1>5. RunRests(sync, cloud, holder, contended)
  BY <1>2, <1>3 DEF RunRests, Reconciling, Creating, SyncEnded, Guarded
<1> QED
  BY <1>4, <1>5 DEF ReconcileInv

LEMMA FaultTyped == ReconcileInv /\ (FileFault \/ FilesWork) => fileFaults' \in 0..MaxFileFaults
  BY FileAssumption DEF ReconcileInv, SpecFilesTypeOK, FileFault, FilesWork

\* Every call counts what fails.
LEMMA FaultsCounted == SpecFilesNext => FileFault \/ FilesWork
  BY DEF SpecFilesNext, BeginSync, ReadPrior, ApplyBulk, ApplyFile, ReadAfterFailure, VerifyGoal,
         PostBundle, RecoverPost, ElectBundle, ReadBackCreated, CleanupCreated, Later, DeleteCreated

\* The invariant of a step from its parts.
LEMMA ReconcileParts ==
    ASSUME ReconcileInv, FileFault \/ FilesWork, cloud' \in BundleSet, holder' \in {"none", "own", "peer"},
           contended' \in BOOLEAN, sync' \in SyncState, RunRests(sync', cloud', holder', contended')
    PROVE  ReconcileInv'
  BY FaultTyped DEF ReconcileInv, SpecFilesTypeOK, BundleSet

\* A run that is in a call's stage and goes to another, nothing else being changed.
LEMMA SyncGotoFields ==
    ASSUME ReconcileInv, NEW to \in SyncStages, SyncGoto(to)
    PROVE  /\ sync' \in SyncState /\ sync'.pc = to /\ sync'.restoring = sync.restoring /\ sync'.goal = sync.goal
           /\ sync'.tries = sync.tries /\ sync'.policy = sync.policy /\ sync'.tracked = sync.tracked
           /\ sync'.created = sync.created /\ sync'.prior = sync.prior /\ sync'.target = sync.target
           /\ sync'.ops = sync.ops
           /\ Guarded(sync') <=> Guarded(sync)
  BY SyncTyped DEF SyncGoto, SyncState, Guarded

LEMMA BeginSyncKeeps == ReconcileInv /\ BeginSync => ReconcileInv'
<1> SUFFICES ASSUME ReconcileInv, BeginSync PROVE ReconcileInv'
  OBVIOUS
<1>1. PICK before \in Bundles, target \in Bundles, policy \in Policies, known \in {"tracked", "found", "none"} :
          /\ cloud' = before
          /\ holder' = IF known = "none" THEN "none" ELSE "peer"
          /\ sync' = [sync EXCEPT !.pc = IF known = "none" THEN "post" ELSE "read",
                         !.policy = policy, !.tracked = known = "tracked",
                         !.prior = before, !.target = target, !.goal = target]
  BY DEF BeginSync
<1>2. sync.pc = "idle" /\ contended' = contended /\ FilesWork /\ contended \in BOOLEAN
  BY DEF BeginSync, SyncAt, ReconcileInv, SpecFilesTypeOK
<1>3. /\ sync \in SyncState /\ Bundles \subseteq BundleSet
      /\ (sync.created = TRUE \/ sync.created = FALSE) /\ (sync.restoring = TRUE \/ sync.restoring = FALSE)
  BY SyncTyped
<1>4. sync.created = FALSE /\ sync.restoring = FALSE /\ sync.tries < RestoreAttempts
  BY <1>2, <1>3 DEF ReconcileInv, RunRests, Reconciling, Creating, SyncEnded
<1>5. /\ sync' \in SyncState /\ sync'.pc = (IF known = "none" THEN "post" ELSE "read") /\ sync'.tries = sync.tries
      /\ sync'.created = FALSE /\ sync'.restoring = FALSE /\ sync'.prior = before /\ sync'.target = target
      /\ sync'.goal = target
      /\ (sync'.tracked = TRUE <=> known = "tracked")
  BY <1>1, <1>3, <1>4 DEF SyncState, SyncStages
<1>6. sync'.prior.root = sync'.target.root => Between(cloud', sync'.prior, sync'.target)
  BY <1>1, <1>5, BetweenEnds
<1>7. Guarded(sync') => Between(cloud', sync'.prior, sync'.target)
  BY <1>6 DEF Guarded
<1>8. sync'.pc \in {"post", "read"} /\ (sync'.tracked = TRUE => sync'.pc = "read")
  BY <1>5
<1>9. RunRests(sync', cloud', holder', contended')
  BY <1>4, <1>5, <1>7, <1>8 DEF RunRests, Reconciling, Creating, SyncEnded, GoalOf
<1>10. cloud' \in BundleSet /\ holder' \in {"none", "own", "peer"}
  BY <1>1, <1>3
<1> QED
  BY <1>2, <1>5, <1>9, <1>10, ReconcileParts

LEMMA ReadPriorKeeps == ReconcileInv /\ ReadPrior => ReconcileInv'
<1> SUFFICES ASSUME ReconcileInv, ReadPrior PROVE ReconcileInv'
  OBVIOUS
<1>1. /\ sync.pc = "read" /\ cloud' = cloud /\ holder' = holder /\ contended' = contended
      /\ FileFault \/ FilesWork
  BY DEF ReadPrior, SyncAt, CloudIdle
<1>2. cloud \in BundleSet /\ holder \in {"none", "own", "peer"} /\ contended \in BOOLEAN
  BY DEF ReconcileInv, SpecFilesTypeOK, BundleSet
<1>3. sync.pc \in Reconciling
  BY <1>1 DEF Reconciling
<1>4. CASE cloud = sync.goal /\ sync' = Succeeding
  BY <1>1, <1>2, <1>3, <1>4, SucceedingOK, ReconcileParts
<1>5. CASE sync' = Failing
  BY <1>1, <1>2, <1>3, <1>5, FailingOK, ReconcileParts
<1>6. CASE /\ cloud # sync.goal /\ cloud.root = sync.goal.root
           /\ sync' = [sync EXCEPT !.pc = IF sync.policy = "perFile" THEN "files" ELSE "bulk",
                                   !.ops = PlannedOps(cloud, sync.goal)]
  <2>1. /\ sync \in SyncState /\ sync.goal \in BundleSet
        /\ (sync.created = TRUE \/ sync.created = FALSE) /\ (sync.tracked = TRUE \/ sync.tracked = FALSE)
    BY SyncTyped
  <2>2. PlannedOps(cloud, sync.goal) \in Seq(FileOps) /\ PlanOK(cloud, sync.goal, PlannedOps(cloud, sync.goal))
    BY <1>2, <2>1, PlannedOpsOK
  <2>3. /\ sync' \in SyncState /\ sync'.pc = (IF sync.policy = "perFile" THEN "files" ELSE "bulk") /\ sync'.tries = sync.tries
        /\ sync'.created = sync.created /\ sync'.restoring = sync.restoring /\ sync'.prior = sync.prior
        /\ sync'.target = sync.target /\ sync'.policy = sync.policy /\ sync'.tracked = sync.tracked
        /\ sync'.goal = sync.goal /\ sync'.ops = PlannedOps(cloud, sync.goal)
    BY <1>6, <2>1, <2>2 DEF SyncState, SyncStages
  <2>4. RunRests(sync, cloud, holder, contended)
    BY DEF ReconcileInv
  <2>5. /\ sync.goal = GoalOf(sync) /\ sync.tries < RestoreAttempts /\ sync.created = FALSE
        /\ sync.restoring = TRUE => sync.tracked = TRUE
        /\ Guarded(sync) => Between(cloud, sync.prior, sync.target)
    BY <1>1, <2>1, <2>4 DEF RunRests, Reconciling, Creating, SyncEnded
  <2>6. GoalOf(sync') = GoalOf(sync) /\ (Guarded(sync') <=> Guarded(sync))
    BY <2>3 DEF GoalOf, Guarded
  <2>7. sync'.pc \in {"files", "bulk"} /\ (sync'.policy = "perFile" <=> sync'.pc = "files")
    BY <2>3
  <2>8. PlanOK(cloud, sync'.goal, sync'.ops) /\ cloud.root = sync'.goal.root
    BY <1>6, <2>2, <2>3
  <2>9. /\ sync'.goal = GoalOf(sync') /\ sync'.tries < RestoreAttempts /\ sync'.created = FALSE
        /\ sync'.restoring = TRUE => sync'.tracked = TRUE
        /\ Guarded(sync') => Between(cloud, sync'.prior, sync'.target)
    BY <2>3, <2>5, <2>6
  <2>10. RunRests(sync', cloud, holder, contended)
    BY <2>7, <2>8, <2>9 DEF RunRests, Reconciling, Creating, SyncEnded
  <2> QED
    BY <1>1, <1>2, <2>3, <2>10, ReconcileParts
<1> QED
  BY <1>4, <1>5, <1>6 DEF ReadPrior

\* From writing to reading back.
LEMMA WroteOK ==
    ASSUME ReconcileInv, sync.pc \in {"bulk", "files"}, NEW to \in {"verify", "failedWrite"}, SyncGoto(to),
           NEW b, Guarded(sync) => Between(b, sync.prior, sync.target)
    PROVE  sync' \in SyncState /\ RunRests(sync', b, holder, contended)
<1>1. to \in SyncStages
  BY DEF SyncStages
<1>2. /\ sync' \in SyncState /\ sync'.pc = to /\ sync'.restoring = sync.restoring /\ sync'.goal = sync.goal
      /\ sync'.tries = sync.tries /\ sync'.policy = sync.policy /\ sync'.tracked = sync.tracked
      /\ sync'.created = sync.created /\ sync'.prior = sync.prior /\ sync'.target = sync.target
      /\ Guarded(sync') <=> Guarded(sync)
  BY <1>1, SyncGotoFields
<1>3. /\ (sync.created = TRUE \/ sync.created = FALSE)
  BY SyncTyped
<1>4. /\ sync.goal = GoalOf(sync) /\ sync.tries < RestoreAttempts /\ sync.created = FALSE
      /\ sync.restoring = TRUE => sync.tracked = TRUE
  BY <1>3 DEF ReconcileInv, RunRests, Reconciling, Creating, SyncEnded
<1>5. /\ sync'.goal = GoalOf(sync') /\ sync'.tries < RestoreAttempts /\ sync'.created = FALSE
      /\ sync'.restoring = TRUE => sync'.tracked = TRUE
      /\ Guarded(sync') => Between(b, sync'.prior, sync'.target)
  BY <1>2, <1>4 DEF GoalOf
<1>6. sync'.pc \in {"verify", "failedWrite"}
  BY <1>2
<1>7. RunRests(sync', b, holder, contended)
  BY <1>5, <1>6 DEF RunRests, Reconciling, Creating, SyncEnded
<1> QED
  BY <1>2, <1>7

LEMMA ApplyBulkKeeps == ReconcileInv /\ ApplyBulk => ReconcileInv'
<1> SUFFICES ASSUME ReconcileInv, ApplyBulk PROVE ReconcileInv'
  OBVIOUS
<1>1. sync.pc = "bulk" /\ holder' = holder /\ contended' = contended /\ (FileFault \/ FilesWork)
  BY DEF ApplyBulk, SyncAt
<1>2. cloud \in BundleSet /\ holder \in {"none", "own", "peer"} /\ contended \in BOOLEAN
  BY DEF ReconcileInv, SpecFilesTypeOK, BundleSet
<1>3. sync.goal \in Bundles /\ sync.goal \in BundleSet /\ sync.ops \in Seq(FileOps) /\ ToSet(sync.ops) \in SUBSET FileOps
      /\ sync.policy \in Policies /\ sync.prior \in Bundles /\ sync.target \in Bundles
  BY SyncTyped DEF ToSet
<1>4. PlanOK(cloud, sync.goal, sync.ops) /\ cloud.root = sync.goal.root /\ sync.policy # "perFile"
      /\ sync.goal \in {sync.prior, sync.target} /\ (Guarded(sync) => Between(cloud, sync.prior, sync.target))
  BY <1>1 DEF ReconcileInv, RunRests, Reconciling, Creating, GoalOf
<1>5. BulkWritten(cloud, ToSet(sync.ops), sync.goal) = sync.goal
  BY <1>2, <1>3, <1>4, BulkWrittenIsGoal
<1>6. Guarded(sync) => Between(sync.goal, sync.prior, sync.target)
  BY <1>3, <1>4, BetweenEnds DEF Guarded
<1>7. CASE cloud' = BulkWritten(cloud, ToSet(sync.ops), sync.goal) /\ (SyncGoto("verify") \/ SyncGoto("failedWrite"))
  <2>1. sync' \in SyncState /\ RunRests(sync', cloud', holder, contended)
    BY <1>1, <1>5, <1>6, <1>7, WroteOK
  <2> QED
    BY <1>1, <1>2, <1>3, <1>5, <1>7, <2>1, ReconcileParts
<1>8. ASSUME NEW part \in SUBSET ToSet(sync.ops), sync.policy = "atomicBulk" => part = {},
             cloud' = BulkWritten(cloud, part, sync.goal), SyncGoto("failedWrite")
      PROVE  ReconcileInv'
  <2>1. cloud' \in BundleSet /\ (part = {} => cloud' = cloud)
    BY <1>2, <1>3, <1>8, WritesTyped
  <2>2. Guarded(sync) => sync.policy = "atomicBulk"
    BY <1>3, <1>4 DEF Guarded, Policies
  <2>3. Guarded(sync) => Between(cloud', sync.prior, sync.target)
    BY <1>4, <1>8, <2>1, <2>2
  <2>4. sync' \in SyncState /\ RunRests(sync', cloud', holder, contended)
    BY <1>1, <1>8, <2>3, WroteOK
  <2> QED
    BY <1>1, <1>2, <2>1, <2>4, ReconcileParts
<1>9. \/ cloud' = BulkWritten(cloud, ToSet(sync.ops), sync.goal) /\ (SyncGoto("verify") \/ SyncGoto("failedWrite"))
      \/ \E part \in SUBSET ToSet(sync.ops) :
            /\ sync.policy = "atomicBulk" => part = {}
            /\ cloud' = BulkWritten(cloud, part, sync.goal)
            /\ SyncGoto("failedWrite")
  BY DEF ApplyBulk
<1> QED
  BY <1>7, <1>8, <1>9

LEMMA ApplyFileKeeps == ReconcileInv /\ ApplyFile => ReconcileInv'
<1> SUFFICES ASSUME ReconcileInv, ApplyFile PROVE ReconcileInv'
  OBVIOUS
<1> DEFINE o == Head(sync.ops)
           b == FileWritten(cloud, o, sync.goal)
<1>1. sync.pc = "files" /\ holder' = holder /\ contended' = contended /\ (FileFault \/ FilesWork)
  BY DEF ApplyFile, SyncAt
<1>2. cloud \in BundleSet /\ holder \in {"none", "own", "peer"} /\ contended \in BOOLEAN
  BY DEF ReconcileInv, SpecFilesTypeOK, BundleSet
<1>3. /\ sync \in SyncState /\ sync.goal \in BundleSet /\ sync.ops \in Seq(FileOps)
      /\ sync.prior \in Bundles /\ sync.target \in Bundles
      /\ (sync.created = TRUE \/ sync.created = FALSE)
  BY SyncTyped
<1>4. RunRests(sync, cloud, holder, contended)
  BY DEF ReconcileInv
<1>5. /\ sync.goal \in {sync.prior, sync.target} /\ sync.policy = "perFile"
      /\ Guarded(sync) => Between(cloud, sync.prior, sync.target) /\ PlanOK(cloud, sync.goal, sync.ops)
  BY <1>1, <1>4 DEF RunRests, Reconciling, Creating, GoalOf
<1>6. CASE sync.ops = <<>> /\ SyncGoto("verify") /\ cloud' = cloud
  <2>1. sync' \in SyncState /\ RunRests(sync', cloud, holder, contended)
    BY <1>1, <1>5, <1>6, WroteOK
  <2> QED
    BY <1>1, <1>2, <1>6, <2>1, ReconcileParts
<1>7. ASSUME sync.ops # <<>>
      PROVE  /\ b \in BundleSet /\ Tail(sync.ops) \in Seq(FileOps)
             /\ Guarded(sync) => /\ Between(b, sync.prior, sync.target)
                                 /\ PlanOK(b, sync.goal, Tail(sync.ops))
  <2>1. o \in FileOps /\ Tail(sync.ops) \in Seq(FileOps)
    BY <1>3, <1>7
  <2> HIDE DEF o
  <2>2. b \in BundleSet
    BY <1>2, <1>3, <2>1, WritesTyped
  <2>3. ASSUME Guarded(sync)
        PROVE  Between(b, sync.prior, sync.target) /\ PlanOK(b, sync.goal, Tail(sync.ops))
    <3>1. Between(cloud, sync.prior, sync.target) /\ PlanOK(cloud, sync.goal, sync.ops) /\ sync.prior.root = sync.target.root
      BY <1>5, <2>3 DEF Guarded
    <3>2. \A p \in Has(sync.prior) \cup Has(sync.target) : Directory[p] = TopDirectory
      BY <1>5, <2>3 DEF Guarded
    <3>3. o.path \in Paths /\ cloud.files[o.path] # sync.goal.files[o.path]
      <4>1. o = sync.ops[1] /\ 1 \in DOMAIN sync.ops
        BY <1>3, <1>7 DEF o
      <4> QED
        BY <4>1, <2>1, <3>1 DEF PlanOK, FileOps
    <3>4. o.path \in Has(cloud) \cup Has(sync.goal)
      BY <3>3 DEF Has
    <3>5. o.path \in Has(sync.prior) \cup Has(sync.target)
      BY <3>1, <3>4, <1>5 DEF Between
    <3>6. Landing(cloud, o.path) = o.path
      BY <3>2, <3>5 DEF Landing
    <3>7. b = [cloud EXCEPT !.files[o.path] = sync.goal.files[o.path]] /\ PlanOK(b, sync.goal, Tail(sync.ops))
      BY <1>2, <1>3, <1>7, <3>1, <3>6, PlanStep DEF o
    <3>8. Between([cloud EXCEPT !.files[o.path] = sync.goal.files[o.path]], sync.prior, sync.target)
      BY <1>2, <1>3, <1>5, <1>7, <3>1, BetweenStep DEF o
    <3> QED
      BY <3>7, <3>8
  <2> QED
    BY <2>1, <2>2, <2>3
<1>8. CASE sync.ops # <<>> /\ cloud' = b /\ sync' = [sync EXCEPT !.pc = "failedWrite"]
  <2>1. SyncGoto("failedWrite")
    BY <1>8 DEF SyncGoto
  <2> HIDE DEF b
  <2>2. sync' \in SyncState /\ RunRests(sync', b, holder, contended)
    BY <1>1, <1>7, <1>8, <2>1, WroteOK
  <2> QED
    BY <1>1, <1>2, <1>7, <1>8, <2>2, ReconcileParts
<1>9. CASE sync.ops # <<>> /\ cloud' = b /\ sync' = [sync EXCEPT !.ops = Tail(@)]
  <2> HIDE DEF b
  <2>1. /\ sync' \in SyncState /\ sync'.pc = sync.pc /\ sync'.tries = sync.tries
        /\ sync'.created = sync.created /\ sync'.restoring = sync.restoring /\ sync'.prior = sync.prior
        /\ sync'.target = sync.target /\ sync'.policy = sync.policy /\ sync'.tracked = sync.tracked
        /\ sync'.goal = sync.goal /\ sync'.ops = Tail(sync.ops)
    BY <1>3, <1>7, <1>9 DEF SyncState
  <2>2. (Guarded(sync') <=> Guarded(sync)) /\ GoalOf(sync') = GoalOf(sync)
    BY <2>1 DEF Guarded, GoalOf
  <2>3. /\ sync.goal = GoalOf(sync) /\ sync.tries < RestoreAttempts /\ sync.created = FALSE
        /\ sync.restoring = TRUE => sync.tracked = TRUE
    BY <1>1, <1>3, <1>4 DEF RunRests, Reconciling, Creating, SyncEnded
  <2>4. Guarded(sync') => Between(b, sync'.prior, sync'.target) /\ PlanOK(b, sync'.goal, sync'.ops)
    BY <1>7, <1>9, <2>1, <2>2
  <2>5. /\ sync'.goal = GoalOf(sync') /\ sync'.tries < RestoreAttempts /\ sync'.created = FALSE
        /\ sync'.restoring = TRUE => sync'.tracked = TRUE
        /\ sync'.pc = "files" /\ sync'.policy = "perFile"
    BY <1>1, <1>5, <2>1, <2>2, <2>3
  <2>6. RunRests(sync', b, holder, contended)
    BY <2>4, <2>5 DEF RunRests, Reconciling, Creating, SyncEnded
  <2> QED
    BY <1>1, <1>2, <1>7, <1>9, <2>1, <2>6, ReconcileParts
<1>10. CASE sync.ops # <<>> /\ cloud' \in {cloud, b} /\ SyncGoto("failedWrite")
  <2> HIDE DEF b
  <2>1. cloud' \in BundleSet /\ (Guarded(sync) => Between(cloud', sync.prior, sync.target))
    BY <1>2, <1>5, <1>7, <1>10
  <2>2. sync' \in SyncState /\ RunRests(sync', cloud', holder, contended)
    BY <1>1, <1>10, <2>1, WroteOK
  <2> QED
    BY <1>1, <1>2, <2>1, <2>2, ReconcileParts
<1> QED
  BY <1>6, <1>8, <1>9, <1>10 DEF ApplyFile

LEMMA ComparedKeeps == ReconcileInv /\ (ReadAfterFailure \/ VerifyGoal) => ReconcileInv'
<1> SUFFICES ASSUME ReconcileInv, ReadAfterFailure \/ VerifyGoal PROVE ReconcileInv'
  OBVIOUS
<1>1. /\ sync.pc \in {"failedWrite", "verify"} /\ cloud' = cloud /\ holder' = holder /\ contended' = contended
      /\ FileFault \/ FilesWork
      /\ (cloud = sync.goal /\ sync' = Succeeding) \/ sync' = Failing
  BY DEF ReadAfterFailure, VerifyGoal, SyncAt, CloudIdle
<1>2. cloud \in BundleSet /\ holder \in {"none", "own", "peer"} /\ contended \in BOOLEAN
  BY DEF ReconcileInv, SpecFilesTypeOK, BundleSet
<1>3. sync.pc \in Reconciling
  BY <1>1 DEF Reconciling
<1>4. CASE cloud = sync.goal /\ sync' = Succeeding
  BY <1>1, <1>2, <1>3, <1>4, SucceedingOK, ReconcileParts
<1>5. CASE sync' = Failing
  BY <1>1, <1>2, <1>3, <1>5, FailingOK, ReconcileParts
<1> QED
  BY <1>1, <1>4, <1>5

\* The stages of a create go to one another with no specification tracked.
LEMMA UntrackedOK ==
    ASSUME ReconcileInv, sync.pc \in Creating,
           NEW to \in {"recover", "failed", "elect", "readback", "cleanup", "read"}, SyncGoto(to),
           NEW b, NEW own, NEW shared, to \in {"elect", "readback", "cleanup"} => own = "own"
    PROVE  sync' \in SyncState /\ RunRests(sync', b, own, shared)
<1>1. to \in SyncStages
  BY DEF SyncStages
<1>2. /\ sync' \in SyncState /\ sync'.pc = to /\ sync'.restoring = sync.restoring /\ sync'.goal = sync.goal
      /\ sync'.tries = sync.tries /\ sync'.tracked = sync.tracked
      /\ sync'.created = sync.created /\ sync'.target = sync.target
  BY <1>1, SyncGotoFields
<1>3. /\ (sync.created = TRUE \/ sync.created = FALSE) /\ (sync.tracked = TRUE \/ sync.tracked = FALSE)
      /\ (sync.restoring = TRUE \/ sync.restoring = FALSE)
  BY SyncTyped
<1>4. RunRests(sync, cloud, holder, contended)
  BY DEF ReconcileInv
<1>5. sync.created = FALSE /\ sync.tracked = FALSE /\ sync.restoring = FALSE /\ sync.tries < RestoreAttempts
  BY <1>3, <1>4 DEF RunRests, Reconciling, Creating, SyncEnded
<1>6. sync.goal = sync.target
  BY <1>4, <1>5 DEF RunRests, GoalOf
<1>7. RunRests(sync', b, own, shared)
  BY <1>2, <1>5, <1>6 DEF RunRests, Reconciling, Creating, SyncEnded, GoalOf, Guarded
<1> QED
  BY <1>2, <1>7

LEMMA CreatingKeeps == ReconcileInv /\ (PostBundle \/ RecoverPost \/ ElectBundle \/ CleanupCreated) => ReconcileInv'
<1> SUFFICES ASSUME ReconcileInv, PostBundle \/ RecoverPost \/ ElectBundle \/ CleanupCreated PROVE ReconcileInv'
  OBVIOUS
<1>1. PICK to \in {"recover", "failed", "elect", "readback", "cleanup", "read"} :
        /\ SyncGoto(to)
        /\ to \in {"elect", "readback", "cleanup"} => holder' = "own"
  <2>1. sync.pc = "elect" => holder = "own"
    BY DEF ReconcileInv, RunRests
  <2> QED
    BY <2>1 DEF PostBundle, RecoverPost, ElectBundle, CleanupCreated, CloudIdle, SyncAt
<1>2. sync.pc \in Creating /\ (FileFault \/ FilesWork)
  BY DEF PostBundle, RecoverPost, ElectBundle, CleanupCreated, SyncAt, Creating
<1>3. cloud \in BundleSet /\ holder \in {"none", "own", "peer"} /\ contended \in BOOLEAN
      /\ Bundles \subseteq BundleSet /\ sync.target \in Bundles
  BY SyncTyped DEF ReconcileInv, SpecFilesTypeOK, BundleSet
<1>4. cloud' \in BundleSet /\ holder' \in {"none", "own", "peer"} /\ contended' \in BOOLEAN
  BY <1>3 DEF PostBundle, RecoverPost, ElectBundle, CleanupCreated, CloudIdle
<1>5. sync' \in SyncState /\ RunRests(sync', cloud', holder', contended')
  BY <1>1, <1>2, UntrackedOK
<1> QED
  BY <1>2, <1>4, <1>5, ReconcileParts

LEMMA ReadBackKeeps == ReconcileInv /\ ReadBackCreated => ReconcileInv'
<1> SUFFICES ASSUME ReconcileInv, ReadBackCreated PROVE ReconcileInv'
  OBVIOUS
<1>1. sync.pc = "readback" /\ (FileFault \/ FilesWork) /\ cloud' = cloud /\ holder' = holder /\ contended' = contended
  BY DEF ReadBackCreated, SyncAt, CloudIdle
<1>2. cloud \in BundleSet /\ holder \in {"none", "own", "peer"} /\ (contended = TRUE \/ contended = FALSE)
  BY DEF ReconcileInv, SpecFilesTypeOK, BundleSet
<1>3. /\ sync \in SyncState
      /\ (sync.created = TRUE \/ sync.created = FALSE) /\ (sync.tracked = TRUE \/ sync.tracked = FALSE)
      /\ (sync.restoring = TRUE \/ sync.restoring = FALSE)
  BY SyncTyped
<1>4. sync.tracked = FALSE /\ sync.restoring = FALSE /\ sync.tries < RestoreAttempts /\ holder = "own"
  BY <1>1, <1>3 DEF ReconcileInv, RunRests, Reconciling, Creating, SyncEnded
<1>5. CASE cloud = sync.target /\ sync' = [sync EXCEPT !.pc = "later", !.created = ~contended]
  <2>1. /\ sync' \in SyncState /\ sync'.pc = "later" /\ sync'.created = ~contended /\ sync'.tracked = FALSE
        /\ sync'.restoring = FALSE /\ sync'.tries = sync.tries /\ sync'.target = sync.target
    BY <1>2, <1>3, <1>4, <1>5 DEF SyncState, SyncStages
  <2>2. sync'.created = TRUE => contended = FALSE
    BY <2>1, <1>2
  <2>3. RunRests(sync', cloud, holder, contended)
    BY <1>4, <1>5, <2>1, <2>2 DEF RunRests, Reconciling, Creating, SyncEnded, Guarded
  <2> QED
    BY <1>1, <1>2, <2>1, <2>3, ReconcileParts
<1>6. CASE SyncGoto("cleanup")
  <2>1. sync' \in SyncState /\ RunRests(sync', cloud, holder, contended)
    BY <1>1, <1>4, <1>6, UntrackedOK DEF Creating
  <2> QED
    BY <1>1, <1>2, <2>1, ReconcileParts
<1> QED
  BY <1>5, <1>6 DEF ReadBackCreated

LEMMA LaterKeeps == ReconcileInv /\ Later => ReconcileInv'
<1> SUFFICES ASSUME ReconcileInv, Later PROVE ReconcileInv'
  OBVIOUS
<1>1. sync.pc = "later" /\ (FileFault \/ FilesWork) /\ cloud' = cloud /\ holder' = holder /\ contended' = contended
  BY DEF Later, SyncAt, CloudIdle
<1>2. cloud \in BundleSet /\ holder \in {"none", "own", "peer"} /\ contended \in BOOLEAN
  BY DEF ReconcileInv, SpecFilesTypeOK, BundleSet
<1>3. CASE sync' = Failing
  BY <1>1, <1>2, <1>3, FailingOK, ReconcileParts
<1>4. CASE SyncGoto("published")
  <2>1. "published" \in SyncStages
    BY DEF SyncStages
  <2>2. /\ sync' \in SyncState /\ sync'.pc = "published" /\ sync'.restoring = sync.restoring
        /\ sync'.tracked = sync.tracked /\ sync'.prior = sync.prior
        /\ sync'.created = sync.created /\ sync'.target = sync.target /\ (Guarded(sync') <=> Guarded(sync))
    BY <1>4, <2>1, SyncGotoFields
  <2>3. (sync.restoring = TRUE \/ sync.restoring = FALSE) /\ RunRests(sync, cloud, holder, contended)
    BY SyncTyped DEF ReconcileInv
  <2>4. /\ sync.restoring = FALSE /\ cloud = sync.target /\ (sync.tracked = TRUE => sync.created = FALSE)
        /\ (Guarded(sync) => Between(cloud, sync.prior, sync.target))
    BY <1>1, <2>3 DEF RunRests, Reconciling, Creating
  <2>5. RunRests(sync', cloud, holder, contended)
    BY <2>2, <2>4 DEF RunRests, Reconciling, Creating, SyncEnded
  <2> QED
    BY <1>1, <1>2, <2>2, <2>5, ReconcileParts
<1> QED
  BY <1>3, <1>4 DEF Later

LEMMA DeleteCreatedKeeps == ReconcileInv /\ DeleteCreated => ReconcileInv'
<1> SUFFICES ASSUME ReconcileInv, DeleteCreated PROVE ReconcileInv'
  OBVIOUS
<1>1. sync.pc = "delete" /\ (FileFault \/ FilesWork) /\ cloud' = cloud /\ contended' = contended
  BY DEF DeleteCreated, SyncAt
<1>2. cloud \in BundleSet /\ holder \in {"none", "own", "peer"} /\ contended \in BOOLEAN
  BY DEF ReconcileInv, SpecFilesTypeOK, BundleSet
<1>3. /\ sync \in SyncState /\ (sync.tracked = TRUE \/ sync.tracked = FALSE)
      /\ (sync.restoring = TRUE \/ sync.restoring = FALSE) /\ sync.tries \in Nat /\ RestoreAttempts \in Nat
      /\ RunRests(sync, cloud, holder, contended)
  BY SyncTyped DEF ReconcileInv
<1>4. /\ sync.created = TRUE /\ holder = "own" /\ contended = FALSE /\ sync.tracked = FALSE /\ sync.restoring = FALSE
      /\ sync.tries < RestoreAttempts
  BY <1>1, <1>3 DEF RunRests, Reconciling, Creating, SyncEnded
<1>5. CASE holder' = "none" /\ SyncGoto("removed")
  <2>1. "removed" \in SyncStages
    BY DEF SyncStages
  <2>2. /\ sync' \in SyncState /\ sync'.pc = "removed" /\ sync'.restoring = FALSE
        /\ sync'.tracked = FALSE /\ sync'.created = TRUE
    BY <1>4, <1>5, <2>1, SyncGotoFields
  <2>3. RunRests(sync', cloud', holder', contended')
    BY <2>2 DEF RunRests, Reconciling, Creating, SyncEnded, Guarded
  <2> QED
    BY <1>1, <1>2, <1>5, <2>2, <2>3, ReconcileParts
<1>6. CASE /\ holder' = holder
           /\ sync' = [sync EXCEPT !.tries = @ + 1,
                          !.pc = IF sync.tries + 1 < RestoreAttempts THEN "delete" ELSE "unrestored"]
  <2> DEFINE to == IF sync.tries + 1 < RestoreAttempts THEN "delete" ELSE "unrestored"
  <2>1. to \in SyncStages /\ sync.tries + 1 \in 0..RestoreAttempts
    BY <1>3, <1>4 DEF SyncStages
  <2>2. sync' \in SyncState /\ sync'.pc = to /\ sync'.tries = sync.tries + 1 /\ sync'.restoring = FALSE
        /\ sync'.tracked = FALSE /\ sync'.created = TRUE
    BY <1>3, <1>4, <1>6, <2>1 DEF SyncState
  <2>3. sync'.pc \in {"delete", "unrestored"} /\ (sync'.pc = "delete" => sync'.tries < RestoreAttempts)
    BY <2>2
  <2> HIDE DEF to
  <2>4. RunRests(sync', cloud', holder', contended')
    BY <1>1, <1>4, <1>6, <2>2, <2>3 DEF RunRests, Reconciling, Creating, SyncEnded, Guarded
  <2> QED
    BY <1>1, <1>2, <1>6, <2>2, <2>4, ReconcileParts
<1> QED
  BY <1>5, <1>6 DEF DeleteCreated

LEMMA ReconcileKeeps == ReconcileInv /\ [SpecFilesNext]_fileVars => ReconcileInv'
<1> SUFFICES ASSUME ReconcileInv, [SpecFilesNext]_fileVars PROVE ReconcileInv'
  OBVIOUS
<1>1. CASE UNCHANGED fileVars
  BY <1>1 DEF ReconcileInv, SpecFilesTypeOK, fileVars
<1> QED
  BY <1>1, BeginSyncKeeps, ReadPriorKeeps, ApplyBulkKeeps, ApplyFileKeeps, ComparedKeeps, CreatingKeeps,
     ReadBackKeeps, LaterKeeps, DeleteCreatedKeeps DEF SpecFilesNext

\* Only the two calls that delete take a specification away: from a run that made it
\* and knows of no peer that has adopted it.
LEMMA OnlyUnsharedDeleted == ReconcileInv /\ [SpecFilesNext]_fileVars => [DeletesOnlyUnshared]_fileVars
<1> SUFFICES ASSUME ReconcileInv, SpecFilesNext, holder # "none", holder' = "none" PROVE holder = "own" /\ ~contended
  BY DEF DeletesOnlyUnshared, fileVars
<1>t. /\ holder \in {"none", "own", "peer"} /\ contended \in BOOLEAN
      /\ RunRests(sync, cloud, holder, contended)
  BY DEF ReconcileInv, SpecFilesTypeOK
<1>1. ~ BeginSync
  <2>1. BeginSync => sync.pc = "idle"
    BY DEF BeginSync, SyncAt
  <2> QED
    BY <2>1, <1>t DEF RunRests
<1>2. CASE CleanupCreated
  <2>1. sync.pc = "cleanup" /\ ~contended
    BY <1>2 DEF CleanupCreated, SyncAt
  <2> QED
    BY <2>1, <1>t DEF RunRests
<1>3. CASE DeleteCreated
  <2>1. sync.pc = "delete"
    BY <1>3 DEF DeleteCreated, SyncAt
  <2>2. sync.created = TRUE /\ sync.pc \notin SyncEnded
    BY <2>1, <1>t DEF RunRests, SyncEnded
  <2> QED
    BY <2>2, <1>t DEF RunRests
<1>4. holder' = holder \/ holder' \in {"own", "peer"} => FALSE
  OBVIOUS
<1> QED
  BY <1>1, <1>2, <1>3, <1>4
     DEF SpecFilesNext, ReadPrior, ApplyBulk, ApplyFile, ReadAfterFailure, VerifyGoal, PostBundle, RecoverPost,
         ElectBundle, ReadBackCreated, Later, CloudIdle

\* uploadSpecBundle, reconcileSpecBundle and the orchestrator's rollback, for any bundles,
\* any number of failing calls and any peer's adoption: what is reported published or
\* restored is exactly there, every reader finds the files that the root refers to, and
\* nothing is deleted that this run has not made or that a peer shares.
THEOREM ReconcileSafe == SpecFilesSpec => ReconcileIsSafe
<1>1. ReconcileInv /\ [SpecFilesNext]_fileVars =>
        [SpecFilesTypeOK' /\ FilesAsReported' /\ ClosureKept' /\ DeletesOnlyUnshared]_fileVars
  <2>1. ReconcileInv' => SpecFilesTypeOK' /\ FilesAsReported' /\ ClosureKept'
    BY ReconcileInvImplies, PTL
  <2> QED
    BY <2>1, ReconcileKeeps, OnlyUnsharedDeleted
<1> QED
  BY <1>1, ReconcileInitOK, ReconcileKeeps, PTL DEF SpecFilesSpec, ReconcileIsSafe


-----------------------------------------------------------------------------
(* Sequences without repetition: insertion, removal and order             *)

LEMMA LeastNat ==
    ASSUME NEW S \in SUBSET Nat, S # {}
    PROVE  \E x \in S : \A y \in S : x <= y
<1> DEFINE R == OpToRel(<, Nat)
<1>1. IsWellFoundedOn(R, Nat)
  BY NatLessThanWellFounded
<1>2. \A x, y \in Nat : <<y, x>> \in R <=> y < x
  BY DEF OpToRel
<1> HIDE DEF R
<1>3. PICK x \in S : \A y \in S : ~ (<<y, x>> \in R)
  BY <1>1, WFMin
<1>4. \A y \in S : ~ (y < x)
  BY <1>2, <1>3
<1>5. \A y \in S : x <= y
  BY <1>3, <1>4, SMT
<1> QED
  BY <1>5

LEMMA JoinOK ==
    ASSUME NEW D, NEW one \in Seq(D), NEW two \in Seq(D)
    PROVE  /\ one \o two \in Seq(D) /\ Len(one \o two) = Len(one) + Len(two)
           /\ \A m \in 1..(Len(one) + Len(two)) :
                 (one \o two)[m] = IF m <= Len(one) THEN one[m] ELSE two[m - Len(one)]
OBVIOUS

LEMMA PartOK ==
    ASSUME NEW D, NEW s \in Seq(D), NEW a \in Nat, NEW b \in Nat, 1 <= a, a <= b + 1, b <= Len(s)
    PROVE  /\ SubSeq(s, a, b) \in Seq(D) /\ Len(SubSeq(s, a, b)) = b - a + 1
           /\ \A m \in 1..(b - a + 1) : SubSeq(s, a, b)[m] = s[a + m - 1]
OBVIOUS

\* Where the items of a bucket are.
LEMMA PlaceOK ==
    ASSUME NEW D, NEW s \in Seq(D), IsInjective(s)
    PROVE  /\ \A i \in ToSet(s) : Place(s, i) \in 1..Len(s) /\ s[Place(s, i)] = i /\ i \in D
           /\ \A k \in 1..Len(s) : s[k] \in ToSet(s) /\ Place(s, s[k]) = k
           /\ Len(s) \in Nat
<1>1. DOMAIN s = 1..Len(s) /\ Len(s) \in Nat /\ \A k \in 1..Len(s) : s[k] \in D
  OBVIOUS
<1>2. \A i \in ToSet(s) : Place(s, i) \in 1..Len(s) /\ s[Place(s, i)] = i /\ i \in D
  <2> SUFFICES ASSUME NEW i \in ToSet(s) PROVE Place(s, i) \in 1..Len(s) /\ s[Place(s, i)] = i /\ i \in D
    OBVIOUS
  <2>1. PICK k \in 1..Len(s) : s[k] = i
    BY <1>1 DEF ToSet
  <2> QED
    BY <1>1, <2>1 DEF Place
<1>3. \A k \in 1..Len(s) : s[k] \in ToSet(s)
  BY <1>1 DEF ToSet
<1>4. \A j, k \in 1..Len(s) : s[j] = s[k] => j = k
  BY <1>1 DEF IsInjective
<1> QED
  BY <1>1, <1>2, <1>3, <1>4

LEMMA PlaceIs ==
    ASSUME NEW D, NEW s \in Seq(D), IsInjective(s), NEW k \in 1..Len(s), NEW i, s[k] = i
    PROVE  Place(s, i) = k /\ i \in ToSet(s)
BY PlaceOK

\* The sequence with an item more at place p.
Splices(e, s, p, i) ==
    /\ Len(e) = Len(s) + 1 /\ e[p] = i
    /\ \A m \in 1..Len(s) : m < p => e[m] = s[m]
    /\ \A m \in 1..Len(s) : m >= p => e[m + 1] = s[m]

LEMMA SpliceOK ==
    ASSUME NEW D, NEW s \in Seq(D), IsInjective(s), NEW i \in D, i \notin ToSet(s), NEW p \in 1..(Len(s) + 1),
           NEW e, e \in Seq(D), Splices(e, s, p, i)
    PROVE  /\ IsInjective(e) /\ ToSet(e) = ToSet(s) \cup {i}
           /\ Place(e, i) = p
           /\ \A x \in ToSet(s) : Place(e, x) = IF Place(s, x) < p THEN Place(s, x) ELSE Place(s, x) + 1
<1>1. /\ DOMAIN s = 1..Len(s) /\ Len(s) \in Nat /\ DOMAIN e = 1..(Len(s) + 1) /\ Len(e) = Len(s) + 1
      /\ p \in Nat
  BY DEF Splices
<1> DEFINE from(m) == IF m < p THEN m ELSE m - 1
<1>2. \A m \in 1..(Len(s) + 1) : m # p => from(m) \in 1..Len(s) /\ e[m] = s[from(m)]
  <2> SUFFICES ASSUME NEW m \in 1..(Len(s) + 1), m # p PROVE from(m) \in 1..Len(s) /\ e[m] = s[from(m)]
    OBVIOUS
  <2>1. CASE m < p
    BY <1>1, <2>1 DEF Splices
  <2>2. CASE m > p
    <3>1. m - 1 \in 1..Len(s) /\ m - 1 >= p /\ (m - 1) + 1 = m
      BY <1>1, <2>2
    <3> QED
      BY <1>1, <2>2, <3>1 DEF Splices
  <2> QED
    BY <1>1, <2>1, <2>2
<1>3. e[p] = i
  BY DEF Splices
<1>4. \A k \in 1..Len(s) : s[k] \in ToSet(s) /\ s[k] # i
  BY PlaceOK
<1>5. \A j, k \in 1..Len(s) : s[j] = s[k] => j = k
  BY <1>1 DEF IsInjective
<1>6. IsInjective(e)
  <2> SUFFICES ASSUME NEW j \in 1..(Len(s) + 1), NEW k \in 1..(Len(s) + 1), e[j] = e[k] PROVE j = k
    BY <1>1 DEF IsInjective
  <2>1. CASE j = p \/ k = p
    BY <2>1, <1>2, <1>3, <1>4
  <2>2. CASE j # p /\ k # p
    <3>1. from(j) = from(k)
      BY <2>2, <1>2, <1>5
    <3> QED
      BY <3>1, <2>2, <1>1
  <2> QED
    BY <2>1, <2>2
<1>7. Place(e, i) = p
  BY <1>1, <1>3, <1>6, PlaceIs
<1>8. \A x \in ToSet(s) : /\ Place(e, x) = IF Place(s, x) < p THEN Place(s, x) ELSE Place(s, x) + 1
                          /\ x \in ToSet(e)
  <2> SUFFICES ASSUME NEW x \in ToSet(s)
               PROVE  /\ Place(e, x) = IF Place(s, x) < p THEN Place(s, x) ELSE Place(s, x) + 1
                      /\ x \in ToSet(e)
    OBVIOUS
  <2> DEFINE m == Place(s, x)
  <2>1. m \in 1..Len(s) /\ s[m] = x
    BY PlaceOK
  <2> HIDE DEF m
  <2>2. CASE m < p
    <3>1. m \in 1..Len(e) /\ e[m] = x
      BY <1>1, <2>1, <2>2 DEF Splices
    <3>2. Place(e, x) = m /\ x \in ToSet(e)
      BY <3>1, <1>6, PlaceIs
    <3> QED
      BY <3>2, <2>2 DEF m
  <2>3. CASE ~(m < p)
    <3>1. m + 1 \in 1..Len(e) /\ e[m + 1] = x
      BY <1>1, <2>1, <2>3 DEF Splices
    <3>2. Place(e, x) = m + 1 /\ x \in ToSet(e)
      BY <3>1, <1>6, PlaceIs
    <3> QED
      BY <3>2, <2>3 DEF m
  <2> QED
    BY <2>2, <2>3
<1>9. ToSet(e) = ToSet(s) \cup {i}
  <2>1. i \in ToSet(e)
    BY <1>1, <1>3 DEF ToSet
  <2>2. \A y \in ToSet(e) : y = i \/ y \in ToSet(s)
    <3> SUFFICES ASSUME NEW y \in ToSet(e) PROVE y = i \/ y \in ToSet(s)
      OBVIOUS
    <3>1. PICK m \in 1..(Len(s) + 1) : e[m] = y
      BY <1>1 DEF ToSet
    <3> QED
      BY <3>1, <1>2, <1>3, <1>4
  <2> QED
    BY <2>1, <2>2, <1>8
<1> QED
  BY <1>6, <1>7, <1>8, <1>9

LEMMA InsertSplices ==
    ASSUME NEW D, NEW s \in Seq(D), NEW i \in D, NEW p \in 1..(Len(s) + 1)
    PROVE  InsertAt(s, p, i) \in Seq(D) /\ Splices(InsertAt(s, p, i), s, p, i)
<1> DEFINE one == SubSeq(s, 1, p - 1)
           two == SubSeq(s, p, Len(s))
           e == one \o <<i>> \o two
<1>1. Len(s) \in Nat /\ p \in Nat /\ p >= 1 /\ p <= Len(s) + 1
  OBVIOUS
<1>2. one \in Seq(D) /\ Len(one) = p - 1 /\ \A m \in 1..(p - 1) : one[m] = s[m]
  BY <1>1
<1>3. two \in Seq(D) /\ Len(two) = Len(s) - p + 1 /\ \A m \in 1..(Len(s) - p + 1) : two[m] = s[p + m - 1]
  BY <1>1
<1> HIDE DEF one, two
<1> DEFINE oneI == one \o <<i>>
<1>o. /\ oneI \in Seq(D) /\ Len(oneI) = p /\ oneI[p] = i
      /\ \A m \in 1..(p - 1) : oneI[m] = one[m]
  <2>1. <<i>> \in Seq(D) /\ Len(<<i>>) = 1 /\ <<i>>[1] = i
    OBVIOUS
  <2>2. \A m \in 1..(Len(one) + 1) : oneI[m] = IF m <= Len(one) THEN one[m] ELSE <<i>>[m - Len(one)]
    BY <1>2, <2>1
  <2> QED
    BY <1>1, <1>2, <2>1, <2>2
<1>e. /\ e \in Seq(D) /\ Len(e) = Len(s) + 1
      /\ \A m \in 1..(Len(s) + 1) : e[m] = IF m <= p THEN oneI[m] ELSE two[m - p]
  <2>1. e = oneI \o two
    OBVIOUS
  <2> HIDE DEF e, oneI
  <2>2. /\ e \in Seq(D) /\ Len(e) = Len(oneI) + Len(two)
        /\ \A m \in 1..(Len(oneI) + Len(two)) : e[m] = IF m <= Len(oneI) THEN oneI[m] ELSE two[m - Len(oneI)]
    BY <2>1, <1>o, <1>3, JoinOK
  <2>3. Len(oneI) + Len(two) = Len(s) + 1 /\ Len(oneI) = p
    BY <1>1, <1>o, <1>3
  <2> QED
    BY <2>2, <2>3
<1> HIDE DEF e, oneI
<1>4. /\ e \in Seq(D) /\ Len(e) = Len(s) + 1 /\ e[p] = i
      /\ \A m \in 1..Len(s) : m < p => e[m] = s[m]
  BY <1>1, <1>2, <1>o, <1>e
<1>5. \A m \in 1..Len(s) : m >= p => e[m + 1] = s[m]
  <2> SUFFICES ASSUME NEW m \in 1..Len(s), m >= p PROVE e[m + 1] = s[m]
    OBVIOUS
  <2>1. e[m + 1] = two[(m + 1) - p]
    BY <1>1, <1>e
  <2>3. (m + 1) - p = m - p + 1
    BY <1>1
  <2>2. m - p + 1 \in 1..(Len(s) - p + 1) /\ p + (m - p + 1) - 1 = m
    BY <1>1
  <2> QED
    BY <2>1, <2>2, <2>3, <1>3
<1>6. InsertAt(s, p, i) = e
  BY DEF InsertAt, one, two, e
<1> QED
  BY <1>4, <1>5, <1>6 DEF Splices

\* The sequence without an item.
LEMMA DropOK ==
    ASSUME NEW D, NEW s \in Seq(D), IsInjective(s), NEW i \in ToSet(s)
    PROVE  /\ Dropped(s, i) \in Seq(D) /\ IsInjective(Dropped(s, i)) /\ ToSet(Dropped(s, i)) = ToSet(s) \ {i}
           /\ Len(Dropped(s, i)) = Len(s) - 1
           /\ \A x \in ToSet(s) \ {i} :
                 Place(Dropped(s, i), x) = IF Place(s, x) < Place(s, i) THEN Place(s, x) ELSE Place(s, x) - 1
<1> DEFINE k == Place(s, i)
           d == Dropped(s, i)
           one == SubSeq(s, 1, k - 1)
           two == SubSeq(s, k + 1, Len(s))
<1>1. k \in 1..Len(s) /\ s[k] = i /\ Len(s) \in Nat /\ DOMAIN s = 1..Len(s)
  BY PlaceOK
<1>2. d = one \o two
  BY DEF Dropped, RemoveAt
<1> HIDE DEF k, d
<1>3. one \in Seq(D) /\ Len(one) = k - 1 /\ \A m \in 1..(k - 1) : one[m] = s[m]
  BY <1>1
<1>4. two \in Seq(D) /\ Len(two) = Len(s) - k /\ \A m \in 1..(Len(s) - k) : two[m] = s[k + m]
  <2>1. Len(s) - (k + 1) + 1 = Len(s) - k /\ \A m \in 1..(Len(s) - k) : (k + 1) + m - 1 = k + m
    BY <1>1
  <2>2. k + 1 \in Nat /\ 1 <= k + 1 /\ k + 1 <= Len(s) + 1 /\ Len(s) <= Len(s)
    BY <1>1
  <2>3. /\ two \in Seq(D) /\ Len(two) = Len(s) - (k + 1) + 1
        /\ \A m \in 1..(Len(s) - (k + 1) + 1) : two[m] = s[(k + 1) + m - 1]
    BY <1>1, <2>2, PartOK
  <2> HIDE DEF two
  <2> QED
    BY <2>1, <2>3
<1> HIDE DEF one, two
<1>5. d \in Seq(D) /\ Len(d) = Len(s) - 1 /\ DOMAIN d = 1..(Len(s) - 1)
  <2>1. d \in Seq(D) /\ Len(d) = Len(one) + Len(two)
    BY <1>2, <1>3, <1>4, JoinOK
  <2>2. Len(d) = Len(s) - 1
    BY <2>1, <1>1, <1>3, <1>4
  <2> QED
    BY <2>1, <2>2
<1>j. \A m \in 1..(Len(s) - 1) : d[m] = IF m <= k - 1 THEN one[m] ELSE two[m - (k - 1)]
  <2>1. Len(one) + Len(two) = Len(s) - 1 /\ Len(one) = k - 1
    BY <1>1, <1>3, <1>4
  <2>2. \A m \in 1..(Len(one) + Len(two)) : d[m] = IF m <= Len(one) THEN one[m] ELSE two[m - Len(one)]
    BY <1>2, <1>3, <1>4, JoinOK
  <2> QED
    BY <2>1, <2>2
<1>6. \A m \in 1..(Len(s) - 1) : d[m] = s[IF m < k THEN m ELSE m + 1]
  <2> SUFFICES ASSUME NEW m \in 1..(Len(s) - 1) PROVE d[m] = s[IF m < k THEN m ELSE m + 1]
    OBVIOUS
  <2>1. CASE m < k
    BY <1>1, <1>j, <1>3, <2>1
  <2>2. CASE ~(m < k)
    <3>1. d[m] = two[m - (k - 1)] /\ m - (k - 1) = m - k + 1
      BY <1>1, <1>j, <2>2
    <3>2. m - k + 1 \in 1..(Len(s) - k) /\ k + (m - k + 1) = m + 1
      BY <1>1, <2>2
    <3> QED
      BY <3>1, <3>2, <1>4, <2>2
  <2> QED
    BY <2>1, <2>2
<1>7. \A j, m \in 1..Len(s) : s[j] = s[m] => j = m
  BY <1>1 DEF IsInjective
<1>8. IsInjective(d)
  <2> SUFFICES ASSUME NEW j \in 1..(Len(s) - 1), NEW m \in 1..(Len(s) - 1), d[j] = d[m] PROVE j = m
    BY <1>5 DEF IsInjective
  <2>1. (IF j < k THEN j ELSE j + 1) = (IF m < k THEN m ELSE m + 1)
    BY <1>1, <1>6, <1>7
  <2> QED
    BY <2>1, <1>1
<1>9. \A x \in ToSet(s) \ {i} : /\ Place(d, x) = IF Place(s, x) < k THEN Place(s, x) ELSE Place(s, x) - 1
                                /\ x \in ToSet(d)
  <2> SUFFICES ASSUME NEW x \in ToSet(s), x # i
               PROVE  /\ Place(d, x) = IF Place(s, x) < k THEN Place(s, x) ELSE Place(s, x) - 1
                      /\ x \in ToSet(d)
    OBVIOUS
  <2> DEFINE m == Place(s, x)
  <2>1. m \in 1..Len(s) /\ s[m] = x
    BY PlaceOK
  <2>2. m # k
    BY <1>1, <2>1
  <2> HIDE DEF m
  <2> DEFINE at == IF m < k THEN m ELSE m - 1
  <2>3. at \in 1..Len(d) /\ d[at] = x
    <3>1. at \in 1..(Len(s) - 1) /\ (IF at < k THEN at ELSE at + 1) = m
      BY <1>1, <2>1, <2>2
    <3> QED
      BY <3>1, <2>1, <1>5, <1>6
  <2> HIDE DEF at
  <2>4. Place(d, x) = at /\ x \in ToSet(d)
    BY <2>3, <1>5, <1>8, PlaceIs
  <2> QED
    BY <2>4 DEF at, m
<1>10. ToSet(d) = ToSet(s) \ {i}
  <2> SUFFICES ASSUME NEW y \in ToSet(d) PROVE y \in ToSet(s) \ {i}
    BY <1>9
  <2>1. PICK m \in 1..(Len(s) - 1) : d[m] = y
    BY <1>5 DEF ToSet
  <2>2. PICK n \in 1..Len(s) : s[n] = y /\ n # k
    BY <2>1, <1>1, <1>6
  <2> QED
    BY <2>2, <1>1, <1>7 DEF ToSet
<1> QED
  BY <1>5, <1>8, <1>9, <1>10 DEF d, k

\* Two sequences of the same items in the same order are one.
LEMMA SameOrderSame ==
    ASSUME NEW D, NEW s \in Seq(D), NEW u \in Seq(D), IsInjective(s), IsInjective(u), ToSet(s) = ToSet(u),
           \A x, y \in ToSet(s) : Place(s, x) < Place(s, y) <=> Place(u, x) < Place(u, y)
    PROVE  s = u
<1> DEFINE differ == {k \in 1..Len(s) : ~ (k <= Len(u) /\ u[k] = s[k])}
<1>s. /\ Len(s) \in Nat /\ \A k \in 1..Len(s) : s[k] \in ToSet(s) /\ Place(s, s[k]) = k
      /\ \A x \in ToSet(s) : Place(s, x) \in 1..Len(s) /\ s[Place(s, x)] = x
  BY PlaceOK
<1>u. /\ Len(u) \in Nat /\ \A k \in 1..Len(u) : u[k] \in ToSet(s) /\ Place(u, u[k]) = k
      /\ \A x \in ToSet(s) : Place(u, x) \in 1..Len(u) /\ u[Place(u, x)] = x
  BY PlaceOK
<1>1. differ = {}
  <2> SUFFICES ASSUME differ # {} PROVE FALSE
    OBVIOUS
  <2>1. differ \in SUBSET Nat
    BY <1>s
  <2>2. PICK k \in differ : \A m \in differ : k <= m
    BY <2>1, LeastNat
  <2>3. k \in 1..Len(s) /\ ~ (k <= Len(u) /\ u[k] = s[k])
    BY <2>2
  <2>4. \A m \in 1..Len(s) : m < k => m <= Len(u) /\ u[m] = s[m]
    BY <2>2, <2>3, <1>s
  <2> DEFINE x == s[k]
             m == Place(u, x)
  <2>5. x \in ToSet(s) /\ Place(s, x) = k /\ m \in 1..Len(u) /\ u[m] = x
    BY <2>3, <1>s, <1>u
  <2>6. ~ (m < k)
    <3> SUFFICES ASSUME m < k PROVE FALSE
      OBVIOUS
    <3>1. m \in 1..Len(s)
      BY <2>3, <2>5, <1>s, <1>u
    <3>2. s[m] = x /\ Place(s, s[m]) = m
      BY <3>1, <2>4, <2>5, <1>s
    <3> QED
      BY <3>2, <2>5, <2>3, <1>s
  <2>7. k <= Len(u) /\ k < m
    BY <2>3, <2>5, <2>6, <1>s, <1>u
  <2> DEFINE y == u[k]
             n == Place(s, y)
  <2>8. y \in ToSet(s) /\ Place(u, y) = k /\ n \in 1..Len(s) /\ s[n] = y
    <3>1. k \in 1..Len(u)
      BY <2>3, <2>7, <1>s, <1>u
    <3> QED
      BY <3>1, <1>s, <1>u
  <2>9. ~ (n < k)
    <3> SUFFICES ASSUME n < k PROVE FALSE
      OBVIOUS
    <3>1. n <= Len(u) /\ u[n] = y
      BY <2>4, <2>8
    <3>2. n \in 1..Len(u)
      BY <3>1, <2>8, <1>s, <1>u
    <3>3. Place(u, u[n]) = n
      BY <3>2, <1>u
    <3> QED
      BY <3>1, <3>3, <2>8, <2>3, <1>s
  <2>10. n # k
    BY <2>3, <2>7, <2>8
  <2> HIDE DEF m, n, x, y
  <2>11. k < n
    BY <2>3, <2>8, <2>9, <2>10, <1>s
  <2>12. Place(u, y) < Place(u, x) /\ Place(s, x) < Place(s, y)
    BY <2>5, <2>7, <2>8, <2>11 DEF m, n
  <2>13. Place(s, y) < Place(s, x)
    BY <2>5, <2>8, <2>12
  <2> QED
    BY <2>12, <2>13, <2>5, <2>8, <1>s
<1>2. \A k \in 1..Len(s) : k <= Len(u) /\ u[k] = s[k]
  BY <1>1
<1>3. Len(u) <= Len(s)
  <2> SUFFICES ASSUME Len(u) > Len(s) PROVE FALSE
    BY <1>s, <1>u
  <2> DEFINE z == u[Len(u)]
  <2>1. Len(u) \in 1..Len(u)
    BY <1>s, <1>u
  <2>2. z \in ToSet(s) /\ Place(u, z) = Len(u)
    BY <2>1, <1>u
  <2>3. Place(s, z) \in 1..Len(s) /\ s[Place(s, z)] = z
    BY <2>2, <1>s
  <2>4. u[Place(s, z)] = z /\ Place(s, z) \in 1..Len(u)
    BY <2>3, <1>2, <1>s, <1>u
  <2>5. Place(u, z) = Place(s, z)
    BY <2>4, <1>u
  <2> QED
    BY <2>2, <2>3, <2>5, <1>s, <1>u
<1>4. Len(s) <= Len(u)
  <2>1. CASE Len(s) = 0
    BY <2>1, <1>u
  <2>2. CASE Len(s) > 0
    BY <2>2, <1>2, <1>s
  <2> QED
    BY <2>1, <2>2, <1>s
<1>5. Len(s) = Len(u)
  BY <1>3, <1>4, <1>s, <1>u
<1> QED
  BY <1>2, <1>5

LEMMA AppendSplices ==
    ASSUME NEW D, NEW s \in Seq(D), NEW i \in D
    PROVE  Append(s, i) \in Seq(D) /\ Splices(Append(s, i), s, Len(s) + 1, i) /\ Len(s) + 1 \in 1..(Len(s) + 1)
<1>1. /\ Len(s) \in Nat /\ Append(s, i) \in Seq(D) /\ Len(Append(s, i)) = Len(s) + 1
      /\ Append(s, i)[Len(s) + 1] = i /\ \A m \in 1..Len(s) : Append(s, i)[m] = s[m]
  OBVIOUS
<1>2. \A m \in 1..Len(s) : ~ (m >= Len(s) + 1)
  BY <1>1
<1>3. Len(s) + 1 \in 1..(Len(s) + 1)
  BY <1>1
<1> QED
  BY <1>1, <1>2, <1>3 DEF Splices

\* An item is taken out and put back at place p of the rest.
LEMMA ReplacedOK ==
    ASSUME NEW D, NEW s \in Seq(D), IsInjective(s), NEW i \in ToSet(s), NEW p \in 1..Len(s)
    PROVE  LET e == InsertAt(Dropped(s, i), p, i) IN
           /\ e \in Seq(D) /\ IsInjective(e) /\ ToSet(e) = ToSet(s)
           /\ \A x, y \in ToSet(s) \ {i} : Place(e, x) < Place(e, y) <=> Place(s, x) < Place(s, y)
           /\ \A x \in ToSet(s) \ {i} : /\ Place(e, x) < Place(e, i) <=> Place(Dropped(s, i), x) < p
                                        /\ Place(e, i) < Place(e, x) <=> ~ (Place(Dropped(s, i), x) < p)
<1> DEFINE d == Dropped(s, i)
           e == InsertAt(d, p, i)
<1>1. /\ d \in Seq(D) /\ IsInjective(d) /\ ToSet(d) = ToSet(s) \ {i} /\ Len(d) = Len(s) - 1
      /\ \A x \in ToSet(s) \ {i} : Place(d, x) = IF Place(s, x) < Place(s, i) THEN Place(s, x) ELSE Place(s, x) - 1
  BY DropOK
<1>2. \A x \in ToSet(s) : Place(s, x) \in 1..Len(s) /\ s[Place(s, x)] = x /\ x \in D
  BY PlaceOK
<1>3. Len(s) \in Nat /\ p \in 1..(Len(d) + 1)
  BY <1>1
<1>4. \A x \in ToSet(s) \ {i} : Place(s, x) # Place(s, i)
  BY <1>2
<1> HIDE DEF d
<1>5. e \in Seq(D) /\ Splices(e, d, p, i)
  BY <1>1, <1>2, <1>3, InsertSplices
<1> HIDE DEF e
<1>6. /\ IsInjective(e) /\ ToSet(e) = ToSet(d) \cup {i} /\ Place(e, i) = p
      /\ \A x \in ToSet(d) : Place(e, x) = IF Place(d, x) < p THEN Place(d, x) ELSE Place(d, x) + 1
  BY <1>1, <1>2, <1>3, <1>5, SpliceOK
<1>7. \A x \in ToSet(s) \ {i} : Place(d, x) \in 1..Len(d) /\ Len(d) \in Nat
  BY <1>1, PlaceOK
<1>8. ASSUME NEW x \in ToSet(s) \ {i}, NEW y \in ToSet(s) \ {i}
      PROVE  Place(e, x) < Place(e, y) <=> Place(s, x) < Place(s, y)
  <2>1. Place(d, x) < Place(d, y) <=> Place(s, x) < Place(s, y)
    <3>1. /\ Place(s, x) \in Nat /\ Place(s, y) \in Nat /\ Place(s, i) \in Nat
          /\ Place(s, x) # Place(s, i) /\ Place(s, y) # Place(s, i)
      BY <1>2, <1>3, <1>4
    <3>2. /\ Place(d, x) = IF Place(s, x) < Place(s, i) THEN Place(s, x) ELSE Place(s, x) - 1
          /\ Place(d, y) = IF Place(s, y) < Place(s, i) THEN Place(s, y) ELSE Place(s, y) - 1
      BY <1>1
    <3> QED
      BY <3>1, <3>2
  <2>2. Place(e, x) < Place(e, y) <=> Place(d, x) < Place(d, y)
    <3>1. Place(d, x) \in Nat /\ Place(d, y) \in Nat /\ p \in Nat
      BY <1>7
    <3>2. /\ Place(e, x) = IF Place(d, x) < p THEN Place(d, x) ELSE Place(d, x) + 1
          /\ Place(e, y) = IF Place(d, y) < p THEN Place(d, y) ELSE Place(d, y) + 1
      BY <1>1, <1>6
    <3> QED
      BY <3>1, <3>2
  <2> QED
    BY <2>1, <2>2
<1>9. ASSUME NEW x \in ToSet(s) \ {i}
      PROVE  /\ Place(e, x) < Place(e, i) <=> Place(d, x) < p
             /\ Place(e, i) < Place(e, x) <=> ~ (Place(d, x) < p)
  <2>1. Place(d, x) \in Nat /\ p \in Nat
    BY <1>7
  <2>2. Place(e, x) = IF Place(d, x) < p THEN Place(d, x) ELSE Place(d, x) + 1
    BY <1>1, <1>6
  <2> QED
    BY <2>1, <2>2, <1>6
<1>10. ToSet(e) = ToSet(s)
  BY <1>1, <1>6
<1> QED
  BY <1>5, <1>6, <1>8, <1>9, <1>10 DEF e, d

\* What a call that places an item before or after another one makes of their bucket.
LEMMA BeforeOK ==
    ASSUME NEW D, NEW s \in Seq(D), IsInjective(s), NEW i \in ToSet(s), NEW n \in ToSet(s), i # n
    PROVE  LET e == Before(s, i, n) IN
           /\ e \in Seq(D) /\ IsInjective(e) /\ ToSet(e) = ToSet(s)
           /\ \A x, y \in ToSet(s) \ {i} : Place(e, x) < Place(e, y) <=> Place(s, x) < Place(s, y)
           /\ \A x \in ToSet(s) \ {i} : /\ Place(e, x) < Place(e, i) <=> Place(s, x) < Place(s, n)
                                        /\ Place(e, i) < Place(e, x) <=> ~ (Place(s, x) < Place(s, n))
<1> DEFINE d == Dropped(s, i)
           p == Place(d, n)
<1>1. /\ d \in Seq(D) /\ IsInjective(d) /\ ToSet(d) = ToSet(s) \ {i} /\ Len(d) = Len(s) - 1
      /\ \A x \in ToSet(s) \ {i} : Place(d, x) = IF Place(s, x) < Place(s, i) THEN Place(s, x) ELSE Place(s, x) - 1
  BY DropOK
<1>2. \A x \in ToSet(s) : Place(s, x) \in 1..Len(s) /\ s[Place(s, x)] = x
  BY PlaceOK
<1>3. Len(s) \in Nat /\ n \in ToSet(d)
  BY <1>1
<1> HIDE DEF d
<1>4. p \in 1..Len(d)
  BY <1>1, <1>3, PlaceOK
<1>5. p \in 1..Len(s)
  BY <1>1, <1>3, <1>4
<1>6. Before(s, i, n) = InsertAt(d, p, i)
  BY DEF Before, d
<1>7. ASSUME NEW x \in ToSet(s) \ {i} PROVE Place(d, x) < p <=> Place(s, x) < Place(s, n)
  <2>1. /\ Place(s, x) \in Nat /\ Place(s, n) \in Nat /\ Place(s, i) \in Nat
        /\ Place(s, x) # Place(s, i) /\ Place(s, n) # Place(s, i)
    BY <1>2, <1>3
  <2>2. /\ Place(d, x) = IF Place(s, x) < Place(s, i) THEN Place(s, x) ELSE Place(s, x) - 1
        /\ Place(d, n) = IF Place(s, n) < Place(s, i) THEN Place(s, n) ELSE Place(s, n) - 1
    BY <1>1
  <2> QED
    BY <2>1, <2>2
<1> DEFINE e == InsertAt(d, p, i)
<1>8. /\ e \in Seq(D) /\ IsInjective(e) /\ ToSet(e) = ToSet(s)
      /\ \A x, y \in ToSet(s) \ {i} : Place(e, x) < Place(e, y) <=> Place(s, x) < Place(s, y)
      /\ \A x \in ToSet(s) \ {i} : /\ Place(e, x) < Place(e, i) <=> Place(d, x) < p
                                   /\ Place(e, i) < Place(e, x) <=> ~ (Place(d, x) < p)
  <2> HIDE DEF p
  <2> QED
    BY <1>5, ReplacedOK DEF d
<1> HIDE DEF e, p
<1> QED
  BY <1>6, <1>7, <1>8 DEF e

LEMMA AfterOK ==
    ASSUME NEW D, NEW s \in Seq(D), IsInjective(s), NEW i \in ToSet(s), NEW n \in ToSet(s), i # n
    PROVE  LET e == After(s, i, n) IN
           /\ e \in Seq(D) /\ IsInjective(e) /\ ToSet(e) = ToSet(s)
           /\ \A x, y \in ToSet(s) \ {i} : Place(e, x) < Place(e, y) <=> Place(s, x) < Place(s, y)
           /\ \A x \in ToSet(s) \ {i} : /\ Place(e, x) < Place(e, i) <=> Place(s, x) <= Place(s, n)
                                        /\ Place(e, i) < Place(e, x) <=> ~ (Place(s, x) <= Place(s, n))
<1> DEFINE d == Dropped(s, i)
           p == Place(d, n) + 1
<1>1. /\ d \in Seq(D) /\ IsInjective(d) /\ ToSet(d) = ToSet(s) \ {i} /\ Len(d) = Len(s) - 1
      /\ \A x \in ToSet(s) \ {i} : Place(d, x) = IF Place(s, x) < Place(s, i) THEN Place(s, x) ELSE Place(s, x) - 1
  BY DropOK
<1>2. \A x \in ToSet(s) : Place(s, x) \in 1..Len(s) /\ s[Place(s, x)] = x
  BY PlaceOK
<1>3. Len(s) \in Nat /\ n \in ToSet(d)
  BY <1>1
<1> HIDE DEF d
<1>4. Place(d, n) \in 1..Len(d)
  BY <1>1, <1>3, PlaceOK
<1>5. p \in 1..Len(s)
  BY <1>1, <1>3, <1>4
<1>6. After(s, i, n) = InsertAt(d, p, i)
  BY DEF After, d
<1>7. ASSUME NEW x \in ToSet(s) \ {i} PROVE Place(d, x) < p <=> Place(s, x) <= Place(s, n)
  <2>1. /\ Place(s, x) \in Nat /\ Place(s, n) \in Nat /\ Place(s, i) \in Nat
        /\ Place(s, x) # Place(s, i) /\ Place(s, n) # Place(s, i)
    BY <1>2, <1>3
  <2>2. /\ Place(d, x) = IF Place(s, x) < Place(s, i) THEN Place(s, x) ELSE Place(s, x) - 1
        /\ Place(d, n) = IF Place(s, n) < Place(s, i) THEN Place(s, n) ELSE Place(s, n) - 1
    BY <1>1
  <2> QED
    BY <2>1, <2>2
<1> DEFINE e == InsertAt(d, p, i)
<1>8. /\ e \in Seq(D) /\ IsInjective(e) /\ ToSet(e) = ToSet(s)
      /\ \A x, y \in ToSet(s) \ {i} : Place(e, x) < Place(e, y) <=> Place(s, x) < Place(s, y)
      /\ \A x \in ToSet(s) \ {i} : /\ Place(e, x) < Place(e, i) <=> Place(d, x) < p
                                   /\ Place(e, i) < Place(e, x) <=> ~ (Place(d, x) < p)
  <2> HIDE DEF p
  <2> QED
    BY <1>5, ReplacedOK DEF d
<1> HIDE DEF e, p
<1> QED
  BY <1>6, <1>7, <1>8 DEF e

\* Beside the neighbour it has, an item stays where it is.
LEMMA NeighboursStay ==
    ASSUME NEW D, NEW s \in Seq(D), IsInjective(s), NEW i \in ToSet(s), NEW n \in ToSet(s)
    PROVE  /\ Place(s, n) = Place(s, i) + 1 => Before(s, i, n) = s
           /\ Place(s, n) = Place(s, i) - 1 => After(s, i, n) = s
<1>1. \A x \in ToSet(s) : Place(s, x) \in Nat /\ s[Place(s, x)] = x
  BY PlaceOK
<1>2. ASSUME Place(s, n) = Place(s, i) + 1 PROVE Before(s, i, n) = s
  <2> DEFINE e == Before(s, i, n)
  <2>1. i # n
    BY <1>1, <1>2
  <2>2. /\ e \in Seq(D) /\ IsInjective(e) /\ ToSet(e) = ToSet(s)
        /\ \A x, y \in ToSet(s) \ {i} : Place(e, x) < Place(e, y) <=> Place(s, x) < Place(s, y)
        /\ \A x \in ToSet(s) \ {i} : /\ Place(e, x) < Place(e, i) <=> Place(s, x) < Place(s, n)
                                     /\ Place(e, i) < Place(e, x) <=> ~ (Place(s, x) < Place(s, n))
    BY <2>1, BeforeOK
  <2> HIDE DEF e
  <2>3. \A x \in ToSet(s) \ {i} : /\ Place(s, x) < Place(s, n) <=> Place(s, x) < Place(s, i)
                                  /\ ~ (Place(s, x) < Place(s, n)) <=> Place(s, i) < Place(s, x)
    <3> SUFFICES ASSUME NEW x \in ToSet(s), x # i
                 PROVE  /\ Place(s, x) < Place(s, n) <=> Place(s, x) < Place(s, i)
                        /\ ~ (Place(s, x) < Place(s, n)) <=> Place(s, i) < Place(s, x)
      OBVIOUS
    <3>1. Place(s, x) # Place(s, i) /\ Place(s, x) \in Nat /\ Place(s, i) \in Nat
      BY <1>1
    <3> QED
      BY <3>1, <1>2
  <2>4. \A x, y \in ToSet(s) : Place(s, x) < Place(s, y) <=> Place(e, x) < Place(e, y)
    <3> SUFFICES ASSUME NEW x \in ToSet(s), NEW y \in ToSet(s)
                 PROVE  Place(s, x) < Place(s, y) <=> Place(e, x) < Place(e, y)
      OBVIOUS
    <3>1. CASE x = y
      <4>1. Place(e, x) \in Nat
        BY <2>2, PlaceOK
      <4> QED
        BY <3>1, <4>1, <1>1
    <3> QED
      BY <3>1, <2>2, <2>3
  <2> QED
    BY <2>2, <2>4, SameOrderSame DEF e
<1>3. ASSUME Place(s, n) = Place(s, i) - 1 PROVE After(s, i, n) = s
  <2> DEFINE e == After(s, i, n)
  <2>1. i # n
    BY <1>1, <1>3
  <2>2. /\ e \in Seq(D) /\ IsInjective(e) /\ ToSet(e) = ToSet(s)
        /\ \A x, y \in ToSet(s) \ {i} : Place(e, x) < Place(e, y) <=> Place(s, x) < Place(s, y)
        /\ \A x \in ToSet(s) \ {i} : /\ Place(e, x) < Place(e, i) <=> Place(s, x) <= Place(s, n)
                                     /\ Place(e, i) < Place(e, x) <=> ~ (Place(s, x) <= Place(s, n))
    BY <2>1, AfterOK
  <2> HIDE DEF e
  <2>3. \A x \in ToSet(s) \ {i} : /\ Place(s, x) <= Place(s, n) <=> Place(s, x) < Place(s, i)
                                  /\ ~ (Place(s, x) <= Place(s, n)) <=> Place(s, i) < Place(s, x)
    <3> SUFFICES ASSUME NEW x \in ToSet(s), x # i
                 PROVE  /\ Place(s, x) <= Place(s, n) <=> Place(s, x) < Place(s, i)
                        /\ ~ (Place(s, x) <= Place(s, n)) <=> Place(s, i) < Place(s, x)
      OBVIOUS
    <3>1. Place(s, x) # Place(s, i) /\ Place(s, x) \in Nat /\ Place(s, i) \in Nat
      BY <1>1
    <3> QED
      BY <3>1, <1>3
  <2>4. \A x, y \in ToSet(s) : Place(s, x) < Place(s, y) <=> Place(e, x) < Place(e, y)
    <3> SUFFICES ASSUME NEW x \in ToSet(s), NEW y \in ToSet(s)
                 PROVE  Place(s, x) < Place(s, y) <=> Place(e, x) < Place(e, y)
      OBVIOUS
    <3>1. CASE x = y
      <4>1. Place(e, x) \in Nat
        BY <2>2, PlaceOK
      <4> QED
        BY <3>1, <4>1, <1>1
    <3> QED
      BY <3>1, <2>2, <2>3
  <2> QED
    BY <2>2, <2>4, SameOrderSame DEF e
<1> QED
  BY <1>2, <1>3

-----------------------------------------------------------------------------
(* The plan of a granular update                                           *)

DeltaOps == [kind : {"delete", "create", "patch", "move"}, item : DeltaItems,
             previous : DeltaItems \cup {Top}, next : DeltaItems \cup {Top}]

LEMMA CollectionFacts ==
    ASSUME NEW t \in Collections
    PROVE  /\ t.order \in [Buckets -> Seq(DeltaItems)] /\ t.text \in [DeltaItems -> Texts \cup {Gone}]
           /\ \A i \in DeltaItems : /\ Bucket(i) \in Buckets /\ t.order[Bucket(i)] \in Seq(DeltaItems)
                                    /\ IsInjective(t.order[Bucket(i)])
                                    /\ i \in ToSet(t.order[Bucket(i)]) <=> Holds(t, i)
                                    /\ \A j \in ToSet(t.order[Bucket(i)]) :
                                          j \in DeltaItems /\ Bucket(j) = Bucket(i) /\ Holds(t, j)
<1>1. \A i \in DeltaItems : Bucket(i) \in Buckets
  <2> SUFFICES ASSUME NEW i \in DeltaItems PROVE Bucket(i) \in Buckets
    OBVIOUS
  <2>1. ParentOf[i] \in DeltaFolders \cup {Top}
    BY DeltaAssumption
  <2>2. \A p \in DeltaFolders \cup {Top}, k \in BOOLEAN : <<p, k>> \in Buckets
    BY DEF Buckets
  <2>3. (i \in DeltaFolders) \in BOOLEAN
    <3>1. (i \in DeltaFolders) = TRUE \/ (i \in DeltaFolders) = FALSE
      OBVIOUS
    <3> QED
      BY <3>1
  <2> QED
    BY <2>1, <2>2, <2>3, Zenon DEF Bucket
<1>2. t.order \in [Buckets -> Seq(DeltaItems)] /\ t.text \in [DeltaItems -> Texts \cup {Gone}]
  BY DEF Collections
<1>3. \A b \in Buckets : /\ IsInjective(t.order[b])
                         /\ ToSet(t.order[b]) = {i \in DeltaItems : Bucket(i) = b /\ Holds(t, i)}
  BY DEF Collections
<1> QED
  BY <1>1, <1>2, <1>3

\* Among the items of one bucket a position is an index.
LEMMA PositionOK ==
    ASSUME NEW t \in Collections, NEW i \in DeltaItems, Holds(t, i)
    PROVE  /\ Position(t, i) \in 1..Len(t.order[Bucket(i)]) /\ Len(t.order[Bucket(i)]) \in Nat
           /\ t.order[Bucket(i)][Position(t, i)] = i
           /\ \A j \in DeltaItems : Holds(t, j) /\ Bucket(j) = Bucket(i) /\ Position(t, j) = Position(t, i) => j = i
<1>1. /\ t.order[Bucket(i)] \in Seq(DeltaItems) /\ IsInjective(t.order[Bucket(i)])
      /\ \A j \in DeltaItems : Bucket(j) = Bucket(i) /\ Holds(t, j) => j \in ToSet(t.order[Bucket(i)])
  <2>1. \A j \in DeltaItems : Holds(t, j) => j \in ToSet(t.order[Bucket(j)])
    BY CollectionFacts
  <2> QED
    BY <2>1, CollectionFacts
<1>2. \A j \in ToSet(t.order[Bucket(i)]) : /\ Place(t.order[Bucket(i)], j) \in 1..Len(t.order[Bucket(i)])
                                           /\ t.order[Bucket(i)][Place(t.order[Bucket(i)], j)] = j
  BY <1>1, PlaceOK
<1>3. Len(t.order[Bucket(i)]) \in Nat
  BY <1>1
<1> QED
  BY <1>1, <1>2, <1>3 DEF Position

LEMMA PlannedTyped ==
    ASSUME NEW t \in Collections, NEW i \in DeltaItems, NEW kind \in {"delete", "create", "patch", "move"}
    PROVE  /\ Planned(kind, t, i) \in DeltaOps /\ Planned(kind, t, i).item = i
           /\ Planned(kind, t, i).kind = kind
<1>1. t.order[Bucket(i)] \in Seq(DeltaItems)
  BY CollectionFacts
<1>2. \A k \in DOMAIN t.order[Bucket(i)] : t.order[Bucket(i)][k] \in DeltaItems
  BY <1>1
<1>3. \A d \in {-1, 1} : Neighbour(t, i, d) \in DeltaItems \cup {Top}
  BY <1>2 DEF Neighbour
<1> QED
  BY <1>3 DEF Planned, DeltaOps

Sorts(S, R) ==
    /\ \A x \in S : <<x, x>> \notin R
    /\ \A x, y, z \in S : <<x, y>> \in R /\ <<y, z>> \in R => <<x, z>> \in R
    /\ \A x, y \in S : x = y \/ <<x, y>> \in R \/ <<y, x>> \in R

\* The operations of one kind.
LEMMA InOrderOK ==
    ASSUME NEW S, NEW R, Sorts(S, R), S \subseteq DeltaItems,
           NEW kind \in {"delete", "create", "patch", "move"}, NEW t \in Collections
    PROVE  LET q == InOrder(S, R, kind, t) IN
           /\ q \in Seq(DeltaOps)
           /\ \A k \in DOMAIN q : q[k].item \in S /\ q[k] = Planned(kind, t, q[k].item) /\ q[k].kind = kind
           /\ \A x \in S : \E k \in DOMAIN q : q[k].item = x
           /\ \A j, k \in DOMAIN q : j < k => <<q[j].item, q[k].item>> \in R /\ q[j].item # q[k].item
<1> DEFINE q == InOrder(S, R, kind, t)
           c == Cardinality(S)
           o == Ascending(S, R)
<1>1. IsFiniteSet(S)
  BY DeltaAssumption, FS_Subset
<1>2. /\ c \in Nat /\ o \in [1..c -> S] /\ \A x \in S : \E k \in 1..c : o[k] = x
      /\ \A j, k \in 1..c : j < k => <<o[j], o[k]>> \in R
  <2>1. \A x \in S : <<x, x>> \notin R
    BY DEF Sorts
  <2>2. \A x, y, z \in S : <<x, y>> \in R /\ <<y, z>> \in R => <<x, z>> \in R
    BY DEF Sorts
  <2>3. \A x, y \in S : x = y \/ <<x, y>> \in R \/ <<y, x>> \in R
    BY DEF Sorts
  <2> QED
    BY <1>1, <2>1, <2>2, <2>3, AscendingSorts
<1>3. q = [k \in 1..c |-> Planned(kind, t, o[k])]
  BY DEF InOrder
<1> HIDE DEF q, c, o
<1>4. \A k \in 1..c : o[k] \in S /\ o[k] \in DeltaItems
  BY <1>2
<1>5. \A k \in 1..c : Planned(kind, t, o[k]) \in DeltaOps /\ Planned(kind, t, o[k]).item = o[k]
                      /\ Planned(kind, t, o[k]).kind = kind
  BY <1>4, PlannedTyped
<1>6. DOMAIN q = 1..c /\ \A k \in 1..c : q[k] = Planned(kind, t, o[k])
  BY <1>3
<1>7. q \in Seq(DeltaOps)
  <2>1. q \in [1..c -> DeltaOps]
    BY <1>3, <1>5
  <2> QED
    BY <2>1, <1>2
<1>8. \A k \in 1..c : q[k].item = o[k]
  BY <1>5, <1>6
<1>9. \A k \in DOMAIN q : q[k].item \in S /\ q[k] = Planned(kind, t, q[k].item) /\ q[k].kind = kind
  BY <1>4, <1>5, <1>6, <1>8
<1>10. \A x \in S : \E k \in DOMAIN q : q[k].item = x
  BY <1>2, <1>6, <1>8
<1>11. \A j, k \in DOMAIN q : j < k => <<q[j].item, q[k].item>> \in R /\ q[j].item # q[k].item
  <2> SUFFICES ASSUME NEW j \in 1..c, NEW k \in 1..c, j < k
               PROVE  <<q[j].item, q[k].item>> \in R /\ q[j].item # q[k].item
    BY <1>6
  <2>1. <<o[j], o[k]>> \in R
    BY <1>2
  <2>2. o[j] # o[k]
    BY <2>1, <1>4 DEF Sorts
  <2> QED
    BY <2>1, <2>2, <1>8
<1> QED
  BY <1>7, <1>9, <1>10, <1>11 DEF q

\* The orders that the planner sorts by are strict and total.
LEMMA KeysOrder == Sorts(DeltaItems, ByKey)
<1>1. \A x \in DeltaItems : KeyRank[x] \in Nat
  BY DeltaAssumption
<1>2. \A x, y \in DeltaItems : KeyRank[x] = KeyRank[y] => x = y
  BY DeltaAssumption DEF IsInjective
<1>3. \A x, y \in DeltaItems : <<x, y>> \in ByKey <=> KeyRank[x] < KeyRank[y]
  BY DEF ByKey, Pairs
<1> QED
  BY <1>1, <1>2, <1>3 DEF Sorts

LEMMA PartsSort ==
    ASSUME NEW S, NEW R, Sorts(DeltaItems, R), S \subseteq DeltaItems
    PROVE  Sorts(S, R)
BY DEF Sorts

LEMMA DepthsOrder == Sorts(DeltaItems, ByDepth) /\ Sorts(DeltaItems, DeepestFirst)
<1>1. \A x \in DeltaItems : Depth(x) \in {0, 1}
  BY DEF Depth
<1>2. \A x, y \in DeltaItems :
         <<x, y>> \in ByDepth <=> Depth(x) < Depth(y) \/ (Depth(x) = Depth(y) /\ <<x, y>> \in ByKey)
  BY DEF ByDepth, Pairs
<1>3. \A x, y \in DeltaItems :
         <<x, y>> \in DeepestFirst <=> Depth(x) > Depth(y) \/ (Depth(x) = Depth(y) /\ <<x, y>> \in ByKey)
  BY DEF DeepestFirst, Pairs
<1>4. /\ \A x \in DeltaItems : <<x, x>> \notin ByDepth
      /\ \A x, y, z \in DeltaItems : <<x, y>> \in ByDepth /\ <<y, z>> \in ByDepth => <<x, z>> \in ByDepth
      /\ \A x, y \in DeltaItems : x = y \/ <<x, y>> \in ByDepth \/ <<y, x>> \in ByDepth
  BY <1>1, <1>2, KeysOrder DEF Sorts
<1>5. /\ \A x \in DeltaItems : <<x, x>> \notin DeepestFirst
      /\ \A x, y, z \in DeltaItems : <<x, y>> \in DeepestFirst /\ <<y, z>> \in DeepestFirst => <<x, z>> \in DeepestFirst
      /\ \A x, y \in DeltaItems : x = y \/ <<x, y>> \in DeepestFirst \/ <<y, x>> \in DeepestFirst
  BY <1>1, <1>3, KeysOrder DEF Sorts
<1> QED
  BY <1>4, <1>5 DEF Sorts

LEMMA IndexOK ==
    ASSUME NEW t \in Collections, NEW i \in DeltaItems, Holds(t, i)
    PROVE  /\ IndexOf(t, i) \in Nat /\ ParentRank(i) \in Nat /\ Depth(i) \in {0, 1}
           /\ \A j \in DeltaItems :
                 Holds(t, j) /\ Depth(j) = Depth(i) /\ ParentRank(j) = ParentRank(i) /\ IndexOf(t, j) = IndexOf(t, i)
                 => j = i
           /\ \A j \in DeltaItems : Holds(t, j) /\ Bucket(j) = Bucket(i) =>
                 (IndexOf(t, i) < IndexOf(t, j) <=> Position(t, i) < Position(t, j))
                 /\ Depth(j) = Depth(i) /\ ParentRank(j) = ParentRank(i)
<1> DEFINE folders(j) == Len(t.order[<<ParentOf[j], TRUE>>])
<1>1. \A j \in DeltaItems : ParentOf[j] \in DeltaFolders \cup {Top} /\ folders(j) \in Nat
  <2> SUFFICES ASSUME NEW j \in DeltaItems PROVE ParentOf[j] \in DeltaFolders \cup {Top} /\ folders(j) \in Nat
    OBVIOUS
  <2>1. ParentOf[j] \in DeltaFolders \cup {Top}
    BY DeltaAssumption
  <2>2. \A p \in DeltaFolders \cup {Top}, k \in BOOLEAN : <<p, k>> \in Buckets
    BY DEF Buckets
  <2>4. <<ParentOf[j], TRUE>> \in Buckets
    BY <2>1, <2>2
  <2>3. t.order[<<ParentOf[j], TRUE>>] \in Seq(DeltaItems)
    BY <2>4, CollectionFacts
  <2> QED
    BY <2>1, <2>3
<1>2. \A j \in DeltaItems : Holds(t, j) => Position(t, j) \in Nat /\ Position(t, j) >= 1
  <2>1. \A j \in DeltaItems : Holds(t, j) => Position(t, j) \in 1..Len(t.order[Bucket(j)]) /\ Len(t.order[Bucket(j)]) \in Nat
    BY PositionOK
  <2> QED
    BY <2>1
<1>3. \A j \in DeltaItems : j \in DeltaFolders /\ Holds(t, j) => Position(t, j) <= folders(j)
  <2> SUFFICES ASSUME NEW j \in DeltaItems, j \in DeltaFolders, Holds(t, j) PROVE Position(t, j) <= folders(j)
    OBVIOUS
  <2>1. Bucket(j) = <<ParentOf[j], TRUE>>
    BY DEF Bucket
  <2>2. Position(t, j) \in 1..Len(t.order[Bucket(j)]) /\ Len(t.order[Bucket(j)]) \in Nat
    BY PositionOK
  <2> QED
    BY <2>1, <2>2
<1>4. \A j \in DeltaItems : IndexOf(t, j) = Position(t, j) + IF j \in DeltaFolders THEN 0 ELSE folders(j)
  BY DEF IndexOf
<1>5. \A j \in DeltaItems : Holds(t, j) => IndexOf(t, j) \in Nat
  <2> HIDE DEF folders
  <2> QED
    BY <1>1, <1>2, <1>4
<1>6. \A j \in DeltaItems : Depth(j) \in {0, 1} /\ ParentRank(j) \in Nat
  BY <1>1, DeltaAssumption DEF Depth, ParentRank
<1>7. \A j \in DeltaItems : Depth(j) = Depth(i) /\ ParentRank(j) = ParentRank(i) => ParentOf[j] = ParentOf[i]
  <2> SUFFICES ASSUME NEW j \in DeltaItems, Depth(j) = Depth(i), ParentRank(j) = ParentRank(i), ParentOf[j] # ParentOf[i]
               PROVE  FALSE
    OBVIOUS
  <2>1. ParentOf[j] # Top /\ ParentOf[i] # Top
    BY DEF Depth
  <2>2. ParentOf[j] \in DeltaItems /\ ParentOf[i] \in DeltaItems
    BY <2>1, <1>1, DeltaAssumption
  <2>3. KeyRank[ParentOf[j]] = KeyRank[ParentOf[i]]
    BY <2>1 DEF ParentRank
  <2> QED
    BY <2>2, <2>3, DeltaAssumption DEF IsInjective
<1>8. ASSUME NEW j \in DeltaItems, Holds(t, j), Depth(j) = Depth(i), ParentRank(j) = ParentRank(i),
             IndexOf(t, j) = IndexOf(t, i)
      PROVE  j = i
  <2>1. ParentOf[j] = ParentOf[i] /\ folders(j) = folders(i)
    BY <1>7, <1>8
  <2>2. /\ Position(t, i) \in Nat /\ Position(t, j) \in Nat /\ Position(t, i) >= 1 /\ Position(t, j) >= 1
        /\ folders(i) \in Nat
        /\ i \in DeltaFolders => Position(t, i) <= folders(i)
        /\ j \in DeltaFolders => Position(t, j) <= folders(i)
    BY <2>1, <1>1, <1>2, <1>3, <1>8
  <2>3. /\ IndexOf(t, i) = Position(t, i) + IF i \in DeltaFolders THEN 0 ELSE folders(i)
        /\ IndexOf(t, j) = Position(t, j) + IF j \in DeltaFolders THEN 0 ELSE folders(i)
    BY <2>1, <1>4
  <2>4. (i \in DeltaFolders <=> j \in DeltaFolders) /\ Position(t, i) = Position(t, j)
    <3> HIDE DEF folders
    <3> QED
      BY <2>2, <2>3, <1>8
  <2>5. Bucket(i) = Bucket(j)
    BY <2>1, <2>4 DEF Bucket
  <2> QED
    BY <2>4, <2>5, <1>8, PositionOK
<1>9. ASSUME NEW j \in DeltaItems, Holds(t, j), Bucket(j) = Bucket(i)
      PROVE  /\ IndexOf(t, i) < IndexOf(t, j) <=> Position(t, i) < Position(t, j)
             /\ Depth(j) = Depth(i) /\ ParentRank(j) = ParentRank(i)
  <2>1. ParentOf[j] = ParentOf[i] /\ (i \in DeltaFolders <=> j \in DeltaFolders)
    BY <1>9 DEF Bucket
  <2>2. Position(t, i) \in Nat /\ Position(t, j) \in Nat /\ folders(i) \in Nat
    BY <1>1, <1>2, <1>9
  <2>3. /\ IndexOf(t, i) = Position(t, i) + IF i \in DeltaFolders THEN 0 ELSE folders(i)
        /\ IndexOf(t, j) = Position(t, j) + IF i \in DeltaFolders THEN 0 ELSE folders(i)
    BY <2>1, <1>4
  <2>4. IndexOf(t, i) < IndexOf(t, j) <=> Position(t, i) < Position(t, j)
    <3> HIDE DEF folders
    <3> QED
      BY <2>2, <2>3
  <2> QED
    BY <2>1, <2>4 DEF Depth, ParentRank
<1> QED
  <2> HIDE DEF folders
  <2>1. \A j \in DeltaItems :
            Holds(t, j) /\ Depth(j) = Depth(i) /\ ParentRank(j) = ParentRank(i) /\ IndexOf(t, j) = IndexOf(t, i)
            => j = i
    BY <1>8
  <2>3. IndexOf(t, i) \in Nat /\ ParentRank(i) \in Nat /\ Depth(i) \in {0, 1}
    BY <1>5, <1>6
  <2>2. \A j \in DeltaItems : Holds(t, j) /\ Bucket(j) = Bucket(i) =>
             (IndexOf(t, i) < IndexOf(t, j) <=> Position(t, i) < Position(t, j))
             /\ Depth(j) = Depth(i) /\ ParentRank(j) = ParentRank(i)
    BY <1>9
  <2> QED
    BY <2>3, <2>1, <2>2, Zenon

LEMMA LaterOrder ==
    ASSUME NEW t \in Collections, NEW S \in SUBSET DeltaItems, \A i \in S : Holds(t, i)
    PROVE  LET R == LaterFirst(t) IN
           /\ Sorts(S, R)
           /\ \A x, y \in S : <<x, y>> \in R /\ Bucket(x) = Bucket(y) => Position(t, y) < Position(t, x)
<1> DEFINE R == LaterFirst(t)
<1>1. \A x, y \in S : <<x, y>> \in R <=>
         IF Depth(x) # Depth(y) THEN Depth(x) < Depth(y)
         ELSE IF ParentRank(x) # ParentRank(y) THEN ParentRank(x) < ParentRank(y)
         ELSE IndexOf(t, x) > IndexOf(t, y)
  BY DEF LaterFirst, Pairs
<1> HIDE DEF R
<1>2. \A x \in S : Depth(x) \in Nat /\ ParentRank(x) \in Nat /\ IndexOf(t, x) \in Nat
  <2>1. \A x \in S : Depth(x) \in {0, 1} /\ ParentRank(x) \in Nat /\ IndexOf(t, x) \in Nat
    BY IndexOK
  <2> QED
    BY <2>1
<1>3. \A x, y \in S : Depth(x) = Depth(y) /\ ParentRank(x) = ParentRank(y) /\ IndexOf(t, x) = IndexOf(t, y) => x = y
  BY IndexOK
<1>4. \A x \in S : <<x, x>> \notin R
  BY <1>1, <1>2
<1>5. \A x, y, z \in S : <<x, y>> \in R /\ <<y, z>> \in R => <<x, z>> \in R
  BY <1>1, <1>2
<1>6. \A x, y \in S : x = y \/ <<x, y>> \in R \/ <<y, x>> \in R
  <2> SUFFICES ASSUME NEW x \in S, NEW y \in S PROVE x = y \/ <<x, y>> \in R \/ <<y, x>> \in R
    OBVIOUS
  <2>1. /\ Depth(x) \in Nat /\ ParentRank(x) \in Nat /\ IndexOf(t, x) \in Nat
        /\ Depth(y) \in Nat /\ ParentRank(y) \in Nat /\ IndexOf(t, y) \in Nat
    BY <1>2
  <2>2. /\ ~ (<<x, y>> \in R) /\ ~ (<<y, x>> \in R) =>
              Depth(x) = Depth(y) /\ ParentRank(x) = ParentRank(y) /\ IndexOf(t, x) = IndexOf(t, y)
    BY <2>1, <1>1
  <2> QED
    BY <2>2, <1>3
<1>7. ASSUME NEW x \in S, NEW y \in S, <<x, y>> \in R, Bucket(x) = Bucket(y) PROVE Position(t, y) < Position(t, x)
  <2>1. /\ Depth(x) = Depth(y) /\ ParentRank(x) = ParentRank(y)
        /\ IndexOf(t, y) < IndexOf(t, x) <=> Position(t, y) < Position(t, x)
    BY <1>7, IndexOK
  <2>2. IndexOf(t, y) < IndexOf(t, x)
    BY <2>1, <1>1, <1>2, <1>7
  <2> QED
    BY <2>1, <2>2
<1> QED
  BY <1>4, <1>5, <1>6, <1>7 DEF R, Sorts

Stage(kind) == IF kind = "delete" THEN 1 ELSE IF kind = "create" THEN 2 ELSE IF kind = "patch" THEN 3 ELSE 4

\* What a plan is: every difference once, deletes before creates before the rest, and a
\* new item after the later ones of its bucket.
DeltaPlanOK(old, new, ops) ==
    /\ ops \in Seq(DeltaOps)
    /\ \A k \in DOMAIN ops :
          /\ ops[k].kind = "delete" => Holds(old, ops[k].item) /\ ~ Holds(new, ops[k].item)
          /\ ops[k].kind = "create" => Holds(new, ops[k].item) /\ ~ Holds(old, ops[k].item)
          /\ ops[k].kind \in {"patch", "move"} => Holds(new, ops[k].item) /\ Holds(old, ops[k].item)
          /\ ops[k].kind # "delete" => ops[k] = Planned(ops[k].kind, new, ops[k].item)
    /\ \A i \in DeltaItems :
          /\ Holds(old, i) /\ ~ Holds(new, i) => \E k \in DOMAIN ops : ops[k].kind = "delete" /\ ops[k].item = i
          /\ Holds(new, i) /\ ~ Holds(old, i) => \E k \in DOMAIN ops : ops[k].kind = "create" /\ ops[k].item = i
          /\ Holds(new, i) /\ Holds(old, i) /\ old.text[i] # new.text[i] =>
                \E k \in DOMAIN ops : ops[k].kind = "patch" /\ ops[k].item = i
    /\ \A j, k \in DOMAIN ops : j < k =>
          /\ Stage(ops[j].kind) <= Stage(ops[k].kind)
          /\ ops[j].kind = ops[k].kind => ops[j].item # ops[k].item
          /\ /\ ops[j].kind = "create" /\ ops[k].kind = "create"
             /\ Bucket(ops[j].item) = Bucket(ops[k].item)
             => Position(new, ops[k].item) < Position(new, ops[j].item)

LEMMA DeltaPlanned ==
    ASSUME NEW old \in Collections, NEW new \in Collections
    PROVE  DeltaPlanOK(old, new, PlanOperations(old, new))
<1> DEFINE S1 == {i \in DeltaItems : Holds(old, i) /\ ~Holds(new, i)}
           S2 == {i \in DeltaItems : Holds(new, i) /\ ~Holds(old, i)}
           S3 == Changed(old, new)
           S4 == ExplicitMoves(old, new)
           q1 == InOrder(S1, DeepestFirst, "delete", old)
           q2 == InOrder(S2, LaterFirst(new), "create", new)
           q3 == InOrder(S3, ByKey, "patch", new)
           q4 == InOrder(S4, ByDepth, "move", new)
           ops == PlanOperations(old, new)
<1>1. ops = q1 \o q2 \o q3 \o q4
  BY DEF PlanOperations
<1>2. /\ S1 \in SUBSET DeltaItems /\ S2 \in SUBSET DeltaItems /\ S3 \in SUBSET DeltaItems /\ S4 \in SUBSET DeltaItems
      /\ \A i \in S1 : Holds(old, i) /\ ~Holds(new, i)
      /\ \A i \in S2 : Holds(new, i) /\ ~Holds(old, i)
      /\ \A i \in S3 \cup S4 : Holds(new, i) /\ Holds(old, i)
      /\ \A i \in DeltaItems : /\ Holds(old, i) /\ ~ Holds(new, i) => i \in S1
                               /\ Holds(new, i) /\ ~ Holds(old, i) => i \in S2
                               /\ Holds(new, i) /\ Holds(old, i) /\ old.text[i] # new.text[i] => i \in S3
  BY DEF Changed, ExplicitMoves, MovedLater, Moved
<1> HIDE DEF S1, S2, S3, S4
<1>q1. /\ q1 \in Seq(DeltaOps)
       /\ \A k \in DOMAIN q1 : q1[k].item \in S1 /\ q1[k].kind = "delete"
       /\ \A x \in S1 : \E k \in DOMAIN q1 : q1[k].item = x
       /\ \A j, k \in DOMAIN q1 : j < k => q1[j].item # q1[k].item
  <2>1. Sorts(S1, DeepestFirst)
    BY <1>2, DepthsOrder, PartsSort
  <2>a. S1 \subseteq DeltaItems
    BY <1>2
  <2>2. /\ q1 \in Seq(DeltaOps)
        /\ \A k \in DOMAIN q1 : q1[k].item \in S1 /\ q1[k] = Planned("delete", old, q1[k].item) /\ q1[k].kind = "delete"
        /\ \A x \in S1 : \E k \in DOMAIN q1 : q1[k].item = x
        /\ \A j, k \in DOMAIN q1 : j < k => <<q1[j].item, q1[k].item>> \in DeepestFirst /\ q1[j].item # q1[k].item
    BY <2>a, <2>1, InOrderOK
  <2> HIDE DEF q1
  <2> QED
    BY <2>2
<1>q2. /\ q2 \in Seq(DeltaOps)
       /\ \A k \in DOMAIN q2 : q2[k].item \in S2 /\ q2[k].kind = "create" /\ q2[k] = Planned("create", new, q2[k].item)
       /\ \A x \in S2 : \E k \in DOMAIN q2 : q2[k].item = x
       /\ \A j, k \in DOMAIN q2 : j < k => /\ q2[j].item # q2[k].item
                                           /\ Bucket(q2[j].item) = Bucket(q2[k].item)
                                              => Position(new, q2[k].item) < Position(new, q2[j].item)
  <2> DEFINE R == LaterFirst(new)
  <2>1. /\ Sorts(S2, R)
        /\ \A x, y \in S2 : <<x, y>> \in R /\ Bucket(x) = Bucket(y) => Position(new, y) < Position(new, x)
    BY <1>2, LaterOrder
  <2> HIDE DEF R
  <2>a. S2 \subseteq DeltaItems /\ Sorts(S2, R)
    BY <1>2, <2>1
  <2>2. q2 = InOrder(S2, R, "create", new)
    BY DEF R
  <2>3. /\ q2 \in Seq(DeltaOps)
        /\ \A k \in DOMAIN q2 : q2[k].item \in S2 /\ q2[k] = Planned("create", new, q2[k].item) /\ q2[k].kind = "create"
        /\ \A x \in S2 : \E k \in DOMAIN q2 : q2[k].item = x
        /\ \A j, k \in DOMAIN q2 : j < k => <<q2[j].item, q2[k].item>> \in R /\ q2[j].item # q2[k].item
    BY <2>a, <2>2, InOrderOK
  <2> HIDE DEF q2
  <2> QED
    BY <2>1, <2>3
<1>q3. /\ q3 \in Seq(DeltaOps)
       /\ \A k \in DOMAIN q3 : q3[k].item \in S3 /\ q3[k].kind = "patch" /\ q3[k] = Planned("patch", new, q3[k].item)
       /\ \A x \in S3 : \E k \in DOMAIN q3 : q3[k].item = x
       /\ \A j, k \in DOMAIN q3 : j < k => q3[j].item # q3[k].item
  <2>1. Sorts(S3, ByKey)
    BY <1>2, KeysOrder, PartsSort
  <2>a. S3 \subseteq DeltaItems
    BY <1>2
  <2>2. /\ q3 \in Seq(DeltaOps)
        /\ \A k \in DOMAIN q3 : q3[k].item \in S3 /\ q3[k] = Planned("patch", new, q3[k].item) /\ q3[k].kind = "patch"
        /\ \A x \in S3 : \E k \in DOMAIN q3 : q3[k].item = x
        /\ \A j, k \in DOMAIN q3 : j < k => <<q3[j].item, q3[k].item>> \in ByKey /\ q3[j].item # q3[k].item
    BY <2>a, <2>1, InOrderOK
  <2> HIDE DEF q3
  <2> QED
    BY <2>2
<1>q4. /\ q4 \in Seq(DeltaOps)
       /\ \A k \in DOMAIN q4 : q4[k].item \in S4 /\ q4[k].kind = "move" /\ q4[k] = Planned("move", new, q4[k].item)
       /\ \A j, k \in DOMAIN q4 : j < k => q4[j].item # q4[k].item
  <2>1. Sorts(S4, ByDepth)
    BY <1>2, DepthsOrder, PartsSort
  <2>a. S4 \subseteq DeltaItems
    BY <1>2
  <2>2. /\ q4 \in Seq(DeltaOps)
        /\ \A k \in DOMAIN q4 : q4[k].item \in S4 /\ q4[k] = Planned("move", new, q4[k].item) /\ q4[k].kind = "move"
        /\ \A x \in S4 : \E k \in DOMAIN q4 : q4[k].item = x
        /\ \A j, k \in DOMAIN q4 : j < k => <<q4[j].item, q4[k].item>> \in ByDepth /\ q4[j].item # q4[k].item
    BY <2>a, <2>1, InOrderOK
  <2> HIDE DEF q4
  <2> QED
    BY <2>2
<1> HIDE DEF q1, q2, q3, q4, ops
\* The place of each part.
<1> DEFINE a == Len(q1)
           b == Len(q1) + Len(q2)
           c == Len(q1) + Len(q2) + Len(q3)
           e == Len(q1) + Len(q2) + Len(q3) + Len(q4)
<1>l. /\ Len(q1) \in Nat /\ Len(q2) \in Nat /\ Len(q3) \in Nat /\ Len(q4) \in Nat
      /\ DOMAIN q1 = 1..Len(q1) /\ DOMAIN q2 = 1..Len(q2) /\ DOMAIN q3 = 1..Len(q3) /\ DOMAIN q4 = 1..Len(q4)
  BY <1>q1, <1>q2, <1>q3, <1>q4
<1>j. /\ ops \in Seq(DeltaOps) /\ Len(ops) = e /\ DOMAIN ops = 1..e
      /\ \A k \in 1..e : ops[k] = IF k <= a THEN q1[k] ELSE IF k <= b THEN q2[k - a]
                                  ELSE IF k <= c THEN q3[k - b] ELSE q4[k - c]
  <2>1. /\ q1 \o q2 \in Seq(DeltaOps) /\ Len(q1 \o q2) = b
        /\ \A k \in 1..b : (q1 \o q2)[k] = IF k <= a THEN q1[k] ELSE q2[k - a]
    BY <1>q1, <1>q2, JoinOK
  <2> DEFINE q12 == q1 \o q2
  <2> HIDE DEF q12
  <2>2. /\ q12 \in Seq(DeltaOps) /\ Len(q12) = b
        /\ \A k \in 1..b : q12[k] = IF k <= a THEN q1[k] ELSE q2[k - a]
    BY <2>1 DEF q12
  <2>a. q12 \in Seq(DeltaOps) /\ q3 \in Seq(DeltaOps)
    BY <2>2, <1>q3
  <2> DEFINE q123 == q12 \o q3
  <2>3. /\ q123 \in Seq(DeltaOps) /\ Len(q123) = Len(q12) + Len(q3)
        /\ \A k \in 1..(Len(q12) + Len(q3)) : q123[k] = IF k <= Len(q12) THEN q12[k] ELSE q3[k - Len(q12)]
    BY <2>a, JoinOK
  <2> HIDE DEF q123
  <2>b. q123 \in Seq(DeltaOps) /\ q4 \in Seq(DeltaOps)
    BY <2>3, <1>q4
  <2> DEFINE all == q123 \o q4
  <2>4. /\ all \in Seq(DeltaOps) /\ Len(all) = Len(q123) + Len(q4)
        /\ \A k \in 1..(Len(q123) + Len(q4)) : all[k] = IF k <= Len(q123) THEN q123[k] ELSE q4[k - Len(q123)]
    BY <2>b, JoinOK
  <2>5. ops = all
    BY <1>1 DEF all, q123, q12
  <2> HIDE DEF all
  <2>6. Len(q12) + Len(q3) = c /\ Len(q123) = c /\ Len(q123) + Len(q4) = e
    BY <2>2, <2>3
  <2>7. \A k \in 1..c : q123[k] = IF k <= b THEN q12[k] ELSE q3[k - b]
    BY <2>2, <2>3, <2>6
  <2>8. \A k \in 1..e : ops[k] = IF k <= c THEN q123[k] ELSE q4[k - c]
    BY <2>4, <2>5, <2>6
  <2>9. \A k \in 1..e : ops[k] = IF k <= a THEN q1[k] ELSE IF k <= b THEN q2[k - a]
                                  ELSE IF k <= c THEN q3[k - b] ELSE q4[k - c]
    <3> SUFFICES ASSUME NEW k \in 1..e
                 PROVE  ops[k] = IF k <= a THEN q1[k] ELSE IF k <= b THEN q2[k - a]
                                  ELSE IF k <= c THEN q3[k - b] ELSE q4[k - c]
      OBVIOUS
    <3>1. /\ k \in Nat /\ a \in Nat /\ b \in Nat /\ c \in Nat /\ a <= b /\ b <= c
          /\ k <= c => k \in 1..c
          /\ k <= b => k \in 1..b
      BY <1>l
    <3> QED
      BY <3>1, <2>2, <2>7, <2>8
  <2>10. ops \in Seq(DeltaOps) /\ Len(ops) = e
    BY <2>4, <2>5, <2>6
  <2> QED
    BY <2>9, <2>10
<1>n. /\ a \in Nat /\ b \in Nat /\ c \in Nat /\ e \in Nat /\ a <= b /\ b <= c /\ c <= e
      /\ b - a = Len(q2) /\ c - b = Len(q3) /\ e - c = Len(q4)
  BY <1>l
<1> HIDE DEF a, b, c, e
<1>3. \A k \in 1..e :
         \/ k \in 1..a /\ k \in DOMAIN q1 /\ ops[k] = q1[k]
         \/ k > a /\ k <= b /\ k - a \in DOMAIN q2 /\ ops[k] = q2[k - a]
         \/ k > b /\ k <= c /\ k - b \in DOMAIN q3 /\ ops[k] = q3[k - b]
         \/ k > c /\ k <= e /\ k - c \in DOMAIN q4 /\ ops[k] = q4[k - c]
  <2> SUFFICES ASSUME NEW k \in 1..e
               PROVE  \/ k \in 1..a /\ k \in DOMAIN q1 /\ ops[k] = q1[k]
                      \/ k > a /\ k <= b /\ k - a \in DOMAIN q2 /\ ops[k] = q2[k - a]
                      \/ k > b /\ k <= c /\ k - b \in DOMAIN q3 /\ ops[k] = q3[k - b]
                      \/ k > c /\ k <= e /\ k - c \in DOMAIN q4 /\ ops[k] = q4[k - c]
    OBVIOUS
  <2>1. /\ k <= a => k \in 1..a
        /\ k > a /\ k <= b => k - a \in 1..(b - a)
        /\ k > b /\ k <= c => k - b \in 1..(c - b)
        /\ k > c => k - c \in 1..(e - c)
        /\ k <= a \/ (k > a /\ k <= b) \/ (k > b /\ k <= c) \/ (k > c /\ k <= e)
        /\ (k > a => ~ (k <= a)) /\ (k > b => ~ (k <= b) /\ ~ (k <= a)) /\ (k > c => ~ (k <= c) /\ ~ (k <= b) /\ ~ (k <= a))
    BY <1>n
  <2>2. DOMAIN q1 = 1..a /\ DOMAIN q2 = 1..(b - a) /\ DOMAIN q3 = 1..(c - b) /\ DOMAIN q4 = 1..(e - c)
    BY <1>l, <1>n DEF a
  <2> QED
    BY <2>1, <2>2, <1>j
<1>r. \A k \in 1..e : k \in Nat
  BY <1>n
<1>4. \A k \in 1..e : /\ ops[k].kind = "delete" <=> k <= a
                      /\ ops[k].kind = "create" <=> k > a /\ k <= b
                      /\ ops[k].kind = "patch" <=> k > b /\ k <= c
                      /\ ops[k].kind = "move" <=> k > c
  <2> SUFFICES ASSUME NEW k \in 1..e
               PROVE  /\ ops[k].kind = "delete" <=> k <= a
                      /\ ops[k].kind = "create" <=> k > a /\ k <= b
                      /\ ops[k].kind = "patch" <=> k > b /\ k <= c
                      /\ ops[k].kind = "move" <=> k > c
    OBVIOUS
  <2>1. /\ k \in 1..a => ops[k].kind = "delete" /\ k <= a
        /\ k > a /\ k <= b /\ k - a \in DOMAIN q2 /\ ops[k] = q2[k - a] => ops[k].kind = "create"
        /\ k > b /\ k <= c /\ k - b \in DOMAIN q3 /\ ops[k] = q3[k - b] => ops[k].kind = "patch"
        /\ k > c /\ k <= e /\ k - c \in DOMAIN q4 /\ ops[k] = q4[k - c] => ops[k].kind = "move"
    <3>1. k \in 1..a => ops[k] = q1[k] /\ k \in DOMAIN q1 /\ k <= a
      BY <1>3, <1>n
    <3> QED
      BY <3>1, <1>q1, <1>q2, <1>q3, <1>q4
  <2>2. \/ k <= a /\ ops[k].kind = "delete"
        \/ k > a /\ k <= b /\ ops[k].kind = "create"
        \/ k > b /\ k <= c /\ ops[k].kind = "patch"
        \/ k > c /\ ops[k].kind = "move"
    BY <2>1, <1>3
  <2> QED
    BY <2>2, <1>n, <1>r
<1>5. \A k \in 1..e :
         /\ k <= a => k \in DOMAIN q1 /\ ops[k] = q1[k]
         /\ k > a /\ k <= b => k - a \in DOMAIN q2 /\ ops[k] = q2[k - a]
         /\ k > b /\ k <= c => k - b \in DOMAIN q3 /\ ops[k] = q3[k - b]
         /\ k > c => k - c \in DOMAIN q4 /\ ops[k] = q4[k - c]
  <2> SUFFICES ASSUME NEW k \in 1..e
               PROVE  /\ k <= a => k \in DOMAIN q1 /\ ops[k] = q1[k]
                      /\ k > a /\ k <= b => k - a \in DOMAIN q2 /\ ops[k] = q2[k - a]
                      /\ k > b /\ k <= c => k - b \in DOMAIN q3 /\ ops[k] = q3[k - b]
                      /\ k > c => k - c \in DOMAIN q4 /\ ops[k] = q4[k - c]
    OBVIOUS
  <2>1. /\ k \in 1..a => k <= a
        /\ (k > a => ~ (k <= a)) /\ (k > b => ~ (k <= b) /\ ~ (k <= a)) /\ (k > c => ~ (k <= c) /\ ~ (k <= b) /\ ~ (k <= a))
    BY <1>n, <1>r
  <2> DEFINE A1 == k \in DOMAIN q1 /\ ops[k] = q1[k]
             A2 == k - a \in DOMAIN q2 /\ ops[k] = q2[k - a]
             A3 == k - b \in DOMAIN q3 /\ ops[k] = q3[k - b]
             A4 == k - c \in DOMAIN q4 /\ ops[k] = q4[k - c]
  <2>2. (k \in 1..a /\ A1) \/ (k > a /\ k <= b /\ A2) \/ (k > b /\ k <= c /\ A3) \/ (k > c /\ k <= e /\ A4)
    BY <1>3
  <2> HIDE DEF A1, A2, A3, A4
  <2>3. (k <= a => A1) /\ (k > a /\ k <= b => A2) /\ (k > b /\ k <= c => A3) /\ (k > c => A4)
    BY <2>1, <2>2
  <2> QED
    BY <2>3 DEF A1, A2, A3, A4
<1>6. \A k \in 1..e :
          /\ ops[k].kind = "delete" => Holds(old, ops[k].item) /\ ~ Holds(new, ops[k].item)
          /\ ops[k].kind = "create" => Holds(new, ops[k].item) /\ ~ Holds(old, ops[k].item)
          /\ ops[k].kind \in {"patch", "move"} => Holds(new, ops[k].item) /\ Holds(old, ops[k].item)
          /\ ops[k].kind # "delete" => ops[k] = Planned(ops[k].kind, new, ops[k].item)
  <2> SUFFICES ASSUME NEW k \in 1..e
               PROVE  /\ ops[k].kind = "delete" => Holds(old, ops[k].item) /\ ~ Holds(new, ops[k].item)
                      /\ ops[k].kind = "create" => Holds(new, ops[k].item) /\ ~ Holds(old, ops[k].item)
                      /\ ops[k].kind \in {"patch", "move"} => Holds(new, ops[k].item) /\ Holds(old, ops[k].item)
                      /\ ops[k].kind # "delete" => ops[k] = Planned(ops[k].kind, new, ops[k].item)
    OBVIOUS
  <2>1. ops[k].kind = "delete" => Holds(old, ops[k].item) /\ ~ Holds(new, ops[k].item)
    BY <1>4, <1>5, <1>2, <1>q1
  <2>2. ops[k].kind = "create" => /\ Holds(new, ops[k].item) /\ ~ Holds(old, ops[k].item)
                                  /\ ops[k] = Planned(ops[k].kind, new, ops[k].item)
    BY <1>4, <1>5, <1>2, <1>q2
  <2>3. ops[k].kind = "patch" => /\ Holds(new, ops[k].item) /\ Holds(old, ops[k].item)
                                 /\ ops[k] = Planned(ops[k].kind, new, ops[k].item)
    BY <1>4, <1>5, <1>2, <1>q3
  <2>4. ops[k].kind = "move" => /\ Holds(new, ops[k].item) /\ Holds(old, ops[k].item)
                                /\ ops[k] = Planned(ops[k].kind, new, ops[k].item)
    BY <1>4, <1>5, <1>2, <1>q4
  <2>5. ops[k].kind \in {"delete", "create", "patch", "move"}
    BY <1>4, <1>n, <1>r
  <2> QED
    BY <2>1, <2>2, <2>3, <2>4, <2>5
<1>7. \A i \in DeltaItems :
          /\ Holds(old, i) /\ ~ Holds(new, i) => \E k \in 1..e : ops[k].kind = "delete" /\ ops[k].item = i
          /\ Holds(new, i) /\ ~ Holds(old, i) => \E k \in 1..e : ops[k].kind = "create" /\ ops[k].item = i
          /\ Holds(new, i) /\ Holds(old, i) /\ old.text[i] # new.text[i] =>
                \E k \in 1..e : ops[k].kind = "patch" /\ ops[k].item = i
  <2> TAKE i \in DeltaItems
  <2>1. ASSUME i \in S1 PROVE \E k \in 1..e : ops[k].kind = "delete" /\ ops[k].item = i
    <3>1. PICK m \in DOMAIN q1 : q1[m].item = i
      BY <2>1, <1>q1
    <3>2. m \in 1..e /\ m <= a
      BY <1>l, <1>n DEF a
    <3> QED
      BY <3>1, <3>2, <1>4, <1>5
  <2>2. ASSUME i \in S2 PROVE \E k \in 1..e : ops[k].kind = "create" /\ ops[k].item = i
    <3>1. PICK m \in DOMAIN q2 : q2[m].item = i
      BY <2>2, <1>q2
    <3>2. a + m \in 1..e /\ a + m > a /\ a + m <= b /\ (a + m) - a = m
      BY <1>l, <1>n
    <3> QED
      BY <3>1, <3>2, <1>4, <1>5
  <2>3. ASSUME i \in S3 PROVE \E k \in 1..e : ops[k].kind = "patch" /\ ops[k].item = i
    <3>1. PICK m \in DOMAIN q3 : q3[m].item = i
      BY <2>3, <1>q3
    <3>2. b + m \in 1..e /\ b + m > b /\ b + m <= c /\ (b + m) - b = m
      <4>1. m \in 1..(c - b)
        BY <1>l, <1>n
      <4>2. m \in Nat /\ 1 <= m /\ m <= c - b
        BY <4>1, <1>n
      <4> QED
        BY <4>2, <1>n
    <3> QED
      BY <3>1, <3>2, <1>4, <1>5
  <2> QED
    BY <2>1, <2>2, <2>3, <1>2
<1>8. ASSUME NEW j \in 1..e, NEW k \in 1..e, j < k
      PROVE  /\ Stage(ops[j].kind) <= Stage(ops[k].kind)
             /\ ops[j].kind = ops[k].kind => ops[j].item # ops[k].item
             /\ /\ ops[j].kind = "create" /\ ops[k].kind = "create"
                /\ Bucket(ops[j].item) = Bucket(ops[k].item)
                => Position(new, ops[k].item) < Position(new, ops[j].item)
  <2>1. Stage(ops[j].kind) <= Stage(ops[k].kind)
    <3>1. /\ j \in Nat /\ k \in Nat /\ a \in Nat /\ b \in Nat /\ c \in Nat
      BY <1>n
    <3>2. /\ Stage(ops[j].kind) = IF j <= a THEN 1 ELSE IF j <= b THEN 2 ELSE IF j <= c THEN 3 ELSE 4
          /\ Stage(ops[k].kind) = IF k <= a THEN 1 ELSE IF k <= b THEN 2 ELSE IF k <= c THEN 3 ELSE 4
      BY <3>1, <1>4 DEF Stage
    <3> QED
      BY <3>1, <3>2, <1>n, <1>8
  <2>2. ASSUME k <= a PROVE ops[j].item # ops[k].item
    <3>1. j <= a
      BY <2>2, <1>8, <1>n
    <3> QED
      BY <3>1, <2>2, <1>5, <1>8, <1>q1
  <2>3. ASSUME j > a, k <= b
        PROVE  /\ ops[j].item # ops[k].item
               /\ Bucket(ops[j].item) = Bucket(ops[k].item) => Position(new, ops[k].item) < Position(new, ops[j].item)
    <3>1. j <= b /\ k > a /\ j - a < k - a
      BY <2>3, <1>8, <1>n
    <3> QED
      BY <3>1, <2>3, <1>5, <1>q2
  <2>4. ASSUME j > b, k <= c PROVE ops[j].item # ops[k].item
    <3>1. j <= c /\ k > b /\ j - b < k - b
      BY <2>4, <1>8, <1>n
    <3> QED
      BY <3>1, <2>4, <1>5, <1>q3
  <2>5. ASSUME j > c PROVE ops[j].item # ops[k].item
    <3>1. k > c /\ j - c < k - c
      BY <2>5, <1>8, <1>n
    <3> QED
      BY <3>1, <2>5, <1>5, <1>q4
  <2>6. ops[j].kind = ops[k].kind => k <= a \/ (j > a /\ k <= b) \/ (j > b /\ k <= c) \/ j > c
    BY <1>3, <1>4
  <2>7. ops[j].kind = "create" /\ ops[k].kind = "create" => j > a /\ k <= b
    BY <1>4
  <2> QED
    BY <2>1, <2>2, <2>3, <2>4, <2>5, <2>6, <2>7
<1>9. DOMAIN ops = 1..e /\ ops \in Seq(DeltaOps)
  BY <1>j
<1>10. \A j, k \in 1..e : j < k =>
          /\ Stage(ops[j].kind) <= Stage(ops[k].kind)
          /\ ops[j].kind = ops[k].kind => ops[j].item # ops[k].item
          /\ /\ ops[j].kind = "create" /\ ops[k].kind = "create"
             /\ Bucket(ops[j].item) = Bucket(ops[k].item)
             => Position(new, ops[k].item) < Position(new, ops[j].item)
  BY <1>8
<1>11. DeltaPlanOK(old, new, ops)
  <2> HIDE DEF e
  <2>1. DOMAIN ops = 1..e
    BY <1>9
  <2> QED
    BY <1>6, <1>7, <1>9, <1>10, <2>1 DEF DeltaPlanOK
<1> QED
  BY <1>11 DEF ops

\* The neighbour that a plan names.
LEMMA NeighbourOK ==
    ASSUME NEW t \in Collections, NEW i \in DeltaItems, Holds(t, i), NEW d \in {-1, 1}
    PROVE  /\ Neighbour(t, i, d) # Top =>
                 /\ Neighbour(t, i, d) \in DeltaItems /\ Neighbour(t, i, d) # i
                 /\ Bucket(Neighbour(t, i, d)) = Bucket(i) /\ Holds(t, Neighbour(t, i, d))
                 /\ Position(t, Neighbour(t, i, d)) = Position(t, i) + d
           /\ Neighbour(t, i, d) = Top =>
                 \A x \in DeltaItems : Holds(t, x) /\ Bucket(x) = Bucket(i) =>
                    IF d = 1 THEN Position(t, x) <= Position(t, i) ELSE Position(t, i) <= Position(t, x)
<1> DEFINE s == t.order[Bucket(i)]
           k == Position(t, i) + d
<1>1. /\ s \in Seq(DeltaItems) /\ IsInjective(s) /\ Len(s) \in Nat /\ DOMAIN s = 1..Len(s)
      /\ \A j \in ToSet(s) : j \in DeltaItems /\ Bucket(j) = Bucket(i) /\ Holds(t, j)
  BY CollectionFacts
<1>2. Position(t, i) \in 1..Len(s) /\ s[Position(t, i)] = i
  BY PositionOK
<1>3. ASSUME k \in DOMAIN s
      PROVE  /\ Neighbour(t, i, d) = s[k] /\ s[k] \in DeltaItems /\ s[k] # i /\ s[k] # Top
             /\ Bucket(s[k]) = Bucket(i) /\ Holds(t, s[k]) /\ Position(t, s[k]) = k
  <2>1. k \in 1..Len(s) /\ k # Position(t, i)
    BY <1>1, <1>2, <1>3
  <2>2. s[k] \in ToSet(s) /\ Place(s, s[k]) = k
    BY <1>1, <2>1, PlaceOK
  <2>3. s[k] \in DeltaItems /\ Bucket(s[k]) = Bucket(i) /\ Holds(t, s[k])
    BY <1>1, <2>2
  <2>4. s[k] # i
    <3>1. Place(s, i) = Position(t, i)
      BY DEF Position
    <3> QED
      BY <3>1, <2>1, <2>2
  <2>5. s[k] # Top
    BY <2>3, DeltaAssumption
  <2>6. Position(t, s[k]) = k
    BY <2>2, <2>3 DEF Position
  <2>7. Neighbour(t, i, d) = s[k]
    BY <1>3 DEF Neighbour
  <2> QED
    BY <2>3, <2>4, <2>5, <2>6, <2>7
<1>4. ASSUME k \notin DOMAIN s
      PROVE  /\ Neighbour(t, i, d) = Top
             /\ \A x \in DeltaItems : Holds(t, x) /\ Bucket(x) = Bucket(i) =>
                   IF d = 1 THEN Position(t, x) <= Position(t, i) ELSE Position(t, i) <= Position(t, x)
  <2>1. \A x \in DeltaItems : Holds(t, x) /\ Bucket(x) = Bucket(i) => Position(t, x) \in DOMAIN s
    <3>1. \A x \in DeltaItems : Holds(t, x) => Position(t, x) \in 1..Len(t.order[Bucket(x)])
      BY PositionOK
    <3> QED
      BY <3>1, <1>1
  <2>2. Neighbour(t, i, d) = Top
    BY <1>4 DEF Neighbour
  <2>3. IF d = 1 THEN Position(t, i) = Len(s) ELSE Position(t, i) = 1
    BY <1>1, <1>2, <1>4
  <2>4. \A x \in DeltaItems : Holds(t, x) /\ Bucket(x) = Bucket(i) =>
           Position(t, x) \in Nat /\ 1 <= Position(t, x) /\ Position(t, x) <= Len(s)
    BY <2>1, <1>1
  <2> HIDE DEF s
  <2> QED
    BY <2>2, <2>3, <2>4
<1> HIDE DEF s
<1> QED
  BY <1>3, <1>4

-----------------------------------------------------------------------------
(* The calls of an operation.                                              *)

CallKinds == {"delete", "post", "place", "finish", "patch", "move"}

LEMMA JoinsOne ==
    ASSUME NEW D, NEW one \in Seq(D), NEW x \in D, NEW two \in Seq(D), Len(two) = Len(one) + 1,
           \A k \in 1..Len(one) : two[k] = one[k], two[Len(one) + 1] = x
    PROVE  one \o <<x>> = two
<1>1. <<x>> \in Seq(D) /\ Len(<<x>>) = 1 /\ <<x>>[1] = x /\ Len(one) \in Nat
  OBVIOUS
<1>2. /\ one \o <<x>> \in Seq(D) /\ Len(one \o <<x>>) = Len(one) + Len(<<x>>)
      /\ \A m \in 1..(Len(one) + Len(<<x>>)) : (one \o <<x>>)[m] = IF m <= Len(one) THEN one[m] ELSE <<x>>[m - Len(one)]
  BY <1>1, JoinOK
<1>3. \A m \in 1..(Len(one) + 1) : (one \o <<x>>)[m] = two[m]
  <2> SUFFICES ASSUME NEW m \in 1..(Len(one) + 1) PROVE (one \o <<x>>)[m] = two[m]
    OBVIOUS
  <2>1. CASE m <= Len(one)
    BY <1>1, <1>2, <2>1
  <2>2. CASE m = Len(one) + 1
    BY <1>1, <1>2, <2>2
  <2> QED
    BY <2>1, <2>2, <1>1
<1> QED
  BY <1>1, <1>2, <1>3

LEMMA CallsOK ==
    ASSUME NEW op \in DeltaOps, NEW new
    PROVE  LET c == Calls(op, new) IN
           /\ Len(c) \in 1..3
           /\ \A s \in 1..Len(c) : c[s].item = op.item /\ c[s].previous = op.previous /\ c[s].next = op.next
           /\ op.kind # "create" => Len(c) = 1 /\ c[1].kind = op.kind
           /\ op.kind = "create" =>
                 /\ c[1].kind = "post" /\ (op.next # Top => Len(c) > 1 /\ c[2].kind = "place")
                 /\ new.text[op.item] = "scripted" =>
                       /\ Len(c) = (IF op.next # Top THEN 3 ELSE 2) /\ c[Len(c)].kind = "finish"
                 /\ new.text[op.item] # "scripted" => Len(c) = IF op.next # Top THEN 2 ELSE 1
<1> DEFINE post == [op EXCEPT !.kind = "post"]
           place == [op EXCEPT !.kind = "place"]
           finish == [op EXCEPT !.kind = "finish"]
<1>1. /\ post.kind = "post" /\ place.kind = "place" /\ finish.kind = "finish"
      /\ \A p \in {post, place, finish} : p.item = op.item /\ p.previous = op.previous /\ p.next = op.next
  BY DEF DeltaOps
<1>2. op.kind # "create" => Calls(op, new) = <<op>>
  BY DEF Calls
<1> HIDE DEF post, place, finish
<1> DEFINE c2 == IF op.next = Top THEN <<>> ELSE <<place>>
           c3 == IF new.text[op.item] = "scripted" THEN <<finish>> ELSE <<>>
<1>3. op.kind = "create" => Calls(op, new) = <<post>> \o c2 \o c3
  BY DEF Calls, post, place, finish
<1>4. /\ <<post>> \o <<>> \o <<>> = <<post>>
      /\ <<post>> \o <<place>> \o <<>> = <<post, place>>
      /\ <<post>> \o <<>> \o <<finish>> = <<post, finish>>
      /\ <<post>> \o <<place>> \o <<finish>> = <<post, place, finish>>
  <2> DEFINE D == {post, place, finish}
  <2>1. /\ <<post>> \in Seq(D) /\ Len(<<post>>) = 1 /\ <<post>>[1] = post
        /\ <<post, place>> \in Seq(D) /\ Len(<<post, place>>) = 2
        /\ <<post, place>>[1] = post /\ <<post, place>>[2] = place
        /\ <<post, finish>> \in Seq(D) /\ Len(<<post, finish>>) = 2
        /\ <<post, finish>>[1] = post /\ <<post, finish>>[2] = finish
        /\ <<post, place, finish>> \in Seq(D) /\ Len(<<post, place, finish>>) = 3
        /\ <<post, place, finish>>[1] = post /\ <<post, place, finish>>[2] = place
        /\ <<post, place, finish>>[3] = finish
        /\ place \in D /\ finish \in D
    OBVIOUS
  <2> HIDE DEF D
  <2>2. <<post>> \o <<place>> = <<post, place>>
    <3>1. /\ <<post>> \in Seq(D) /\ <<post, place>> \in Seq(D) /\ place \in D /\ Len(<<post, place>>) = Len(<<post>>) + 1
          /\ <<post, place>>[Len(<<post>>) + 1] = place
      BY <2>1
    <3>2. \A k \in 1..Len(<<post>>) : <<post, place>>[k] = <<post>>[k]
      BY <2>1
    <3> QED
      BY <3>1, <3>2, JoinsOne
  <2>3. <<post>> \o <<finish>> = <<post, finish>>
    <3>1. /\ <<post>> \in Seq(D) /\ <<post, finish>> \in Seq(D) /\ finish \in D /\ Len(<<post, finish>>) = Len(<<post>>) + 1
          /\ <<post, finish>>[Len(<<post>>) + 1] = finish
      BY <2>1
    <3>2. \A k \in 1..Len(<<post>>) : <<post, finish>>[k] = <<post>>[k]
      BY <2>1
    <3> QED
      BY <3>1, <3>2, JoinsOne
  <2>4. <<post, place>> \o <<finish>> = <<post, place, finish>>
    <3>1. /\ <<post, place>> \in Seq(D) /\ <<post, place, finish>> \in Seq(D) /\ finish \in D /\ Len(<<post, place, finish>>) = Len(<<post, place>>) + 1
          /\ <<post, place, finish>>[Len(<<post, place>>) + 1] = finish
      BY <2>1
    <3>2. \A k \in 1..Len(<<post, place>>) : <<post, place, finish>>[k] = <<post, place>>[k]
      BY <2>1
    <3> QED
      BY <3>1, <3>2, JoinsOne
  <2>5. <<post>> \o <<>> = <<post>> /\ <<post, place>> \o <<>> = <<post, place>>
    OBVIOUS
  <2> QED
    BY <2>2, <2>3, <2>4, <2>5
<1>5. op.kind = "create" =>
         Calls(op, new) = IF new.text[op.item] = "scripted"
                          THEN IF op.next = Top THEN <<post, finish>> ELSE <<post, place, finish>>
                          ELSE IF op.next = Top THEN <<post>> ELSE <<post, place>>
  BY <1>3, <1>4
<1> QED
  BY <1>1, <1>2, <1>5

-----------------------------------------------------------------------------
(* What is left to do when call m of operation n is next.                  *)

Due(ops, n, m, kind, i) ==
    \E k \in DOMAIN ops : ops[k].kind = kind /\ ops[k].item = i /\ (n < k \/ (n = k /\ m = 1))

LEMMA DueOK ==
    ASSUME NEW old, NEW new, NEW ops, DeltaPlanOK(old, new, ops), NEW n \in DOMAIN ops, NEW m \in Nat \ {0},
           NEW n2, NEW m2, (n2 = n /\ m2 = m + 1) \/ (n2 = n + 1 /\ m2 = 1)
    PROVE  /\ \A kind, i : kind # ops[n].kind \/ i # ops[n].item \/ m > 1 =>
                 (Due(ops, n2, m2, kind, i) <=> Due(ops, n, m, kind, i))
           /\ m = 1 => Due(ops, n, m, ops[n].kind, ops[n].item)
           /\ ~ Due(ops, n2, m2, ops[n].kind, ops[n].item)
<1>1. /\ \A k \in DOMAIN ops : k \in Nat
      /\ n \in Nat
  BY DEF DeltaPlanOK
<1>2. \A k \in DOMAIN ops : (n2 < k \/ (n2 = k /\ m2 = 1)) <=> n < k
  BY <1>1
<1>3. \A k \in DOMAIN ops : (n < k \/ (n = k /\ m = 1)) /\ m > 1 => n < k
  OBVIOUS
<1>4. ASSUME NEW kind, NEW i, kind # ops[n].kind \/ i # ops[n].item \/ m > 1
      PROVE  Due(ops, n2, m2, kind, i) <=> Due(ops, n, m, kind, i)
  BY <1>2, <1>3, <1>4 DEF Due
<1>5. m = 1 => Due(ops, n, m, ops[n].kind, ops[n].item)
  BY DEF Due
<1>6. \A k \in DOMAIN ops : n < k /\ ops[n].kind = ops[k].kind => ops[n].item # ops[k].item
  BY DEF DeltaPlanOK
<1>7. ~ Due(ops, n2, m2, ops[n].kind, ops[n].item)
  BY <1>2, <1>6 DEF Due
<1> QED
  BY <1>4, <1>5, <1>7

\* What every call does: it replaces the order of one bucket and the text of one item.
Put(t, i, e, x) == [order |-> [t.order EXCEPT ![Bucket(i)] = e], text |-> [t.text EXCEPT ![i] = x]]

LEMMA PutOK ==
    ASSUME NEW t \in Collections, NEW i \in DeltaItems, NEW e \in Seq(DeltaItems), IsInjective(e),
           NEW x \in Texts \cup {Gone},
           \A j \in DeltaItems : j \in ToSet(e) <=> Bucket(j) = Bucket(i) /\ IF j = i THEN x # Gone ELSE Holds(t, j)
    PROVE  /\ Put(t, i, e, x) \in Collections
           /\ \A j \in DeltaItems : /\ Holds(Put(t, i, e, x), j) <=> IF j = i THEN x # Gone ELSE Holds(t, j)
                                    /\ Put(t, i, e, x).text[j] = IF j = i THEN x ELSE t.text[j]
                                    /\ Position(Put(t, i, e, x), j)
                                         = IF Bucket(j) = Bucket(i) THEN Place(e, j) ELSE Position(t, j)
<1> DEFINE u == Put(t, i, e, x)
<1>1. /\ t.order \in [Buckets -> Seq(DeltaItems)] /\ t.text \in [DeltaItems -> Texts \cup {Gone}]
      /\ \A j \in DeltaItems : Bucket(j) \in Buckets
  BY CollectionFacts
<1>2. /\ u.order = [t.order EXCEPT ![Bucket(i)] = e] /\ u.text = [t.text EXCEPT ![i] = x]
      /\ u = [order |-> u.order, text |-> u.text]
  BY DEF Put
<1> HIDE DEF u
<1>3. /\ u.order \in [Buckets -> Seq(DeltaItems)] /\ u.text \in [DeltaItems -> Texts \cup {Gone}]
      /\ \A b \in Buckets : u.order[b] = IF b = Bucket(i) THEN e ELSE t.order[b]
      /\ \A j \in DeltaItems : u.text[j] = IF j = i THEN x ELSE t.text[j]
  BY <1>1, <1>2
<1>4. \A j \in DeltaItems : Holds(u, j) <=> IF j = i THEN x # Gone ELSE Holds(t, j)
  BY <1>3 DEF Holds
<1>5. \A j \in DeltaItems : Position(u, j) = IF Bucket(j) = Bucket(i) THEN Place(e, j) ELSE Position(t, j)
  BY <1>1, <1>3 DEF Position
<1>6. ASSUME NEW b \in Buckets
      PROVE  IsInjective(u.order[b]) /\ ToSet(u.order[b]) = {j \in DeltaItems : Bucket(j) = b /\ Holds(u, j)}
  <2>1. CASE b = Bucket(i)
    <3>1. u.order[b] = e
      BY <2>1, <1>3
    <3>2. ToSet(e) \subseteq DeltaItems
      BY DEF ToSet
    <3>3. ToSet(e) = {j \in DeltaItems : Bucket(j) = b /\ Holds(u, j)}
      BY <3>2, <2>1, <1>4
    <3> QED
      BY <3>1, <3>3
  <2>2. CASE b # Bucket(i)
    <3>1. u.order[b] = t.order[b]
      BY <2>2, <1>3
    <3>2. IsInjective(t.order[b]) /\ ToSet(t.order[b]) = {j \in DeltaItems : Bucket(j) = b /\ Holds(t, j)}
      BY DEF Collections
    <3>3. \A j \in DeltaItems : Bucket(j) = b => (Holds(t, j) <=> Holds(u, j))
      BY <2>2, <1>4
    <3>4. {j \in DeltaItems : Bucket(j) = b /\ Holds(t, j)} = {j \in DeltaItems : Bucket(j) = b /\ Holds(u, j)}
      BY <3>3
    <3> QED
      BY <3>1, <3>2, <3>4
  <2> QED
    BY <2>1, <2>2
<1>7. u \in Collections
  <2>1. u \in [order : [Buckets -> Seq(DeltaItems)], text : [DeltaItems -> Texts \cup {Gone}]]
    BY <1>2, <1>3
  <2> QED
    BY <2>1, <1>6 DEF Collections
<1> QED
  BY <1>3, <1>4, <1>5, <1>7 DEF u

LEMMA PutSame ==
    ASSUME NEW t \in Collections, NEW i \in DeltaItems
    PROVE  Put(t, i, t.order[Bucket(i)], t.text[i]) = t
<1>1. /\ t.order \in [Buckets -> Seq(DeltaItems)] /\ t.text \in [DeltaItems -> Texts \cup {Gone}]
      /\ Bucket(i) \in Buckets
  BY CollectionFacts
<1>2. t = [order |-> t.order, text |-> t.text]
  BY DEF Collections
<1>3. [t.order EXCEPT ![Bucket(i)] = t.order[Bucket(i)]] = t.order /\ [t.text EXCEPT ![i] = t.text[i]] = t.text
  BY <1>1
<1> QED
  BY <1>2, <1>3, Zenon DEF Put

LEMMA SentIs ==
    ASSUME NEW t \in Collections, NEW new, NEW call, call.item \in DeltaItems
    PROVE  LET i == call.item
               s == t.order[Bucket(i)]
               u == Sent(call, t, new) IN
           /\ call.kind = "delete" => u = Put(t, i, Dropped(s, i), Gone)
           /\ call.kind = "post" =>
                 u = Put(t, i, Append(s, i), IF new.text[i] = "scripted" THEN "plain" ELSE new.text[i])
           /\ call.kind = "finish" => u = Put(t, i, s, "scripted")
           /\ call.kind = "patch" => u = Put(t, i, s, new.text[i])
           /\ call.kind = "place" => u = Put(t, i, Before(s, i, call.next), t.text[i])
           /\ call.kind = "move" =>
                 u = Put(t, i, IF call.previous # Top THEN After(s, i, call.previous)
                               ELSE IF call.next # Top THEN Before(s, i, call.next) ELSE s, t.text[i])
<1> DEFINE i == call.item
           s == t.order[Bucket(i)]
           u == Sent(call, t, new)
<1>1. /\ t.order \in [Buckets -> Seq(DeltaItems)] /\ t.text \in [DeltaItems -> Texts \cup {Gone}]
      /\ Bucket(i) \in Buckets
  BY CollectionFacts
<1>2. t = [order |-> t.order, text |-> t.text]
  BY DEF Collections
<1>3. ASSUME NEW e PROVE [t EXCEPT !.order[Bucket(i)] = e] = Put(t, i, e, t.text[i])
  <2>1. [t.text EXCEPT ![i] = t.text[i]] = t.text
    BY <1>1
  <2>2. [t EXCEPT !.order[Bucket(i)] = e] = [order |-> [t.order EXCEPT ![Bucket(i)] = e], text |-> t.text]
    BY <1>2
  <2> QED
    BY <2>1, <2>2, Zenon DEF Put
<1>4. ASSUME NEW x PROVE [t EXCEPT !.text[i] = x] = Put(t, i, s, x)
  <2>1. [t.order EXCEPT ![Bucket(i)] = s] = t.order
    BY <1>1
  <2>2. [t EXCEPT !.text[i] = x] = [order |-> t.order, text |-> [t.text EXCEPT ![i] = x]]
    BY <1>2
  <2> QED
    BY <2>1, <2>2, Zenon DEF Put
<1>5. ASSUME NEW e, NEW x PROVE [t EXCEPT !.order[Bucket(i)] = e, !.text[i] = x] = Put(t, i, e, x)
  <2>1. [t EXCEPT !.order[Bucket(i)] = e, !.text[i] = x]
           = [[t EXCEPT !.order[Bucket(i)] = e] EXCEPT !.text[i] = x]
    BY <1>2
  <2>2. [t EXCEPT !.order[Bucket(i)] = e] = [order |-> [t.order EXCEPT ![Bucket(i)] = e], text |-> t.text]
    BY <1>2
  <2> DEFINE o == [t.order EXCEPT ![Bucket(i)] = e]
             w == [order |-> o, text |-> t.text]
  <2>3. [w EXCEPT !.text[i] = x] = [order |-> o, text |-> [t.text EXCEPT ![i] = x]]
    <3> HIDE DEF o
    <3> QED
      OBVIOUS
  <2> QED
    BY <2>1, <2>2, <2>3, Zenon DEF Put
<1>6. call.kind = "delete" => u = Put(t, i, Dropped(s, i), Gone)
  <2>1. call.kind = "delete" => u = [t EXCEPT !.order[Bucket(i)] = Dropped(s, i), !.text[i] = Gone]
    BY <1>1, <1>2 DEF Sent
  <2> QED
    BY <2>1, <1>5
<1>7. call.kind = "post" => u = Put(t, i, Append(s, i), IF new.text[i] = "scripted" THEN "plain" ELSE new.text[i])
  <2>1. call.kind = "post" =>
           u = [t EXCEPT !.order[Bucket(i)] = Append(s, i),
                         !.text[i] = IF new.text[i] = "scripted" THEN "plain" ELSE new.text[i]]
    BY <1>1, <1>2 DEF Sent
  <2> QED
    BY <2>1, <1>5
<1>8. call.kind = "finish" => u = Put(t, i, s, "scripted")
  <2>1. call.kind = "finish" => u = [t EXCEPT !.text[i] = "scripted"]
    BY DEF Sent
  <2> QED
    BY <2>1, <1>4
<1>9. call.kind = "patch" => u = Put(t, i, s, new.text[i])
  <2>1. call.kind = "patch" => u = [t EXCEPT !.text[i] = new.text[i]]
    BY DEF Sent
  <2> QED
    BY <2>1, <1>4
<1>10. call.kind = "place" => u = Put(t, i, Before(s, i, call.next), t.text[i])
  <2>1. call.kind = "place" => u = [t EXCEPT !.order[Bucket(i)] = Before(s, i, call.next)]
    BY DEF Sent
  <2> QED
    BY <2>1, <1>3
<1>11. call.kind = "move" =>
          u = Put(t, i, IF call.previous # Top THEN After(s, i, call.previous)
                        ELSE IF call.next # Top THEN Before(s, i, call.next) ELSE s, t.text[i])
  <2> DEFINE e == IF call.previous # Top THEN After(s, i, call.previous)
                  ELSE IF call.next # Top THEN Before(s, i, call.next) ELSE s
  <2>1. call.kind = "move" => u = [t EXCEPT !.order[Bucket(i)] = e]
    BY DEF Sent
  <2> HIDE DEF e
  <2>2. call.kind = "move" => u = Put(t, i, e, t.text[i])
    BY <2>1, <1>3
  <2> QED
    BY <2>2 DEF e
<1> HIDE DEF u, s, i
<1> QED
  BY <1>6, <1>7, <1>8, <1>9, <1>10, <1>11 DEF u, s, i

\* The other items keep their order.
Undisturbed(t, u, i) ==
    \A a, b \in DeltaItems \ {i} : Bucket(a) = Bucket(b) /\ Holds(t, a) /\ Holds(t, b) =>
        (Position(u, a) < Position(u, b) <=> Position(t, a) < Position(t, b))

LEMMA BucketOK ==
    ASSUME NEW t \in Collections, NEW i \in DeltaItems
    PROVE  /\ t.order[Bucket(i)] \in Seq(DeltaItems) /\ IsInjective(t.order[Bucket(i)])
           /\ Len(t.order[Bucket(i)]) \in Nat
           /\ \A j \in DeltaItems : /\ j \in ToSet(t.order[Bucket(i)]) <=> Bucket(j) = Bucket(i) /\ Holds(t, j)
                                    /\ Bucket(j) = Bucket(i) => Place(t.order[Bucket(i)], j) = Position(t, j)
<1> DEFINE s == t.order[Bucket(i)]
<1>1. /\ s \in Seq(DeltaItems) /\ IsInjective(s)
      /\ \A j \in ToSet(s) : Bucket(j) = Bucket(i) /\ Holds(t, j)
  BY CollectionFacts
<1>2. \A j \in DeltaItems : Bucket(j) = Bucket(i) /\ Holds(t, j) => j \in ToSet(s)
  <2>1. \A j \in DeltaItems : Holds(t, j) => j \in ToSet(t.order[Bucket(j)])
    BY CollectionFacts
  <2> QED
    BY <2>1
<1>3. Len(s) \in Nat
  BY <1>1
<1>4. \A j \in DeltaItems : Bucket(j) = Bucket(i) => Place(s, j) = Position(t, j)
  BY DEF Position
<1> HIDE DEF s
<1>5. \A j \in DeltaItems : j \in ToSet(s) <=> Bucket(j) = Bucket(i) /\ Holds(t, j)
  BY <1>1, <1>2
<1> QED
  BY <1>1, <1>3, <1>4, <1>5 DEF s

\* A changed bucket, as its items are placed in it.
LEMMA PutKeeps ==
    ASSUME NEW t \in Collections, NEW i \in DeltaItems, NEW e, NEW x,
           \A j \in DeltaItems : Position(Put(t, i, e, x), j) = IF Bucket(j) = Bucket(i) THEN Place(e, j) ELSE Position(t, j),
           \A a, b \in DeltaItems \ {i} :
               Bucket(a) = Bucket(i) /\ Bucket(b) = Bucket(i) /\ Holds(t, a) /\ Holds(t, b) =>
               (Place(e, a) < Place(e, b) <=> Position(t, a) < Position(t, b))
    PROVE  Undisturbed(t, Put(t, i, e, x), i)
<1> DEFINE u == Put(t, i, e, x)
<1> SUFFICES ASSUME NEW a \in DeltaItems \ {i}, NEW b \in DeltaItems \ {i}, Bucket(a) = Bucket(b), Holds(t, a), Holds(t, b)
             PROVE  Position(u, a) < Position(u, b) <=> Position(t, a) < Position(t, b)
  BY DEF Undisturbed
<1>1. CASE Bucket(a) = Bucket(i)
  <2>1. Position(u, a) = Place(e, a) /\ Position(u, b) = Place(e, b)
    BY <1>1
  <2> HIDE DEF u
  <2> QED
    BY <2>1, <1>1
<1>2. CASE Bucket(a) # Bucket(i)
  <2>1. Position(u, a) = Position(t, a) /\ Position(u, b) = Position(t, b)
    BY <1>2
  <2> HIDE DEF u
  <2> QED
    BY <2>1
<1> QED
  BY <1>1, <1>2

LEMMA DeleteOK ==
    ASSUME NEW t \in Collections, NEW i \in DeltaItems, Holds(t, i)
    PROVE  LET u == Put(t, i, Dropped(t.order[Bucket(i)], i), Gone) IN
           /\ u \in Collections /\ Undisturbed(t, u, i)
           /\ \A j \in DeltaItems : /\ Holds(u, j) <=> Holds(t, j) /\ j # i
                                    /\ j # i => u.text[j] = t.text[j]
<1> DEFINE s == t.order[Bucket(i)]
           e == Dropped(s, i)
           u == Put(t, i, e, Gone)
<1>1. /\ s \in Seq(DeltaItems) /\ IsInjective(s) /\ Len(s) \in Nat
      /\ \A j \in DeltaItems : /\ j \in ToSet(s) <=> Bucket(j) = Bucket(i) /\ Holds(t, j)
                               /\ Bucket(j) = Bucket(i) => Place(s, j) = Position(t, j)
  BY BucketOK
<1> HIDE DEF s
<1>2. i \in ToSet(s)
  BY <1>1
<1>3. /\ e \in Seq(DeltaItems) /\ IsInjective(e) /\ ToSet(e) = ToSet(s) \ {i}
      /\ \A x \in ToSet(s) \ {i} : Place(e, x) = IF Place(s, x) < Place(s, i) THEN Place(s, x) ELSE Place(s, x) - 1
  BY <1>1, <1>2, DropOK
<1> HIDE DEF e
<1>4. \A j \in DeltaItems : j \in ToSet(e) <=> Bucket(j) = Bucket(i) /\ IF j = i THEN Gone # Gone ELSE Holds(t, j)
  BY <1>1, <1>3
<1>5. /\ u \in Collections
      /\ \A j \in DeltaItems : /\ Holds(u, j) <=> IF j = i THEN Gone # Gone ELSE Holds(t, j)
                               /\ u.text[j] = IF j = i THEN Gone ELSE t.text[j]
                               /\ Position(u, j) = IF Bucket(j) = Bucket(i) THEN Place(e, j) ELSE Position(t, j)
  BY <1>3, <1>4, PutOK
<1>6. \A a, b \in DeltaItems \ {i} :
          Bucket(a) = Bucket(i) /\ Bucket(b) = Bucket(i) /\ Holds(t, a) /\ Holds(t, b) =>
          (Place(e, a) < Place(e, b) <=> Position(t, a) < Position(t, b))
  <2>1. \A a \in ToSet(s) : Place(s, a) \in 1..Len(s) /\ s[Place(s, a)] = a
    BY <1>1, PlaceOK
  <2>2. \A a \in ToSet(s) \ {i} : Place(s, a) \in Nat /\ Place(s, a) # Place(s, i)
    BY <2>1, <1>1, <1>2
  <2>3. Place(s, i) \in Nat
    BY <2>1, <1>1, <1>2
  <2>4. \A a, b \in ToSet(s) \ {i} : Place(e, a) < Place(e, b) <=> Place(s, a) < Place(s, b)
    BY <2>2, <2>3, <1>3
  <2> QED
    BY <2>4, <1>1
<1>7. Undisturbed(t, u, i)
  <2>1. \A j \in DeltaItems : Position(u, j) = IF Bucket(j) = Bucket(i) THEN Place(e, j) ELSE Position(t, j)
    BY <1>5
  <2> QED
    BY <2>1, <1>6, PutKeeps
<1> HIDE DEF u
<1> QED
  BY <1>5, <1>7 DEF u, e, s

LEMMA PostOK ==
    ASSUME NEW t \in Collections, NEW i \in DeltaItems, ~ Holds(t, i), NEW x \in Texts
    PROVE  LET u == Put(t, i, Append(t.order[Bucket(i)], i), x) IN
           /\ u \in Collections /\ Undisturbed(t, u, i)
           /\ \A j \in DeltaItems : /\ Holds(u, j) <=> Holds(t, j) \/ j = i
                                    /\ u.text[j] = IF j = i THEN x ELSE t.text[j]
           /\ \A a \in DeltaItems \ {i} : Bucket(a) = Bucket(i) /\ Holds(t, a) =>
                 Position(u, a) < Position(u, i) /\ ~ (Position(u, i) < Position(u, a))
<1> DEFINE s == t.order[Bucket(i)]
           e == Append(s, i)
           u == Put(t, i, e, x)
<1>1. /\ s \in Seq(DeltaItems) /\ IsInjective(s) /\ Len(s) \in Nat
      /\ \A j \in DeltaItems : /\ j \in ToSet(s) <=> Bucket(j) = Bucket(i) /\ Holds(t, j)
                               /\ Bucket(j) = Bucket(i) => Place(s, j) = Position(t, j)
  BY BucketOK
<1> HIDE DEF s
<1>2. i \notin ToSet(s)
  BY <1>1
<1>3. e \in Seq(DeltaItems) /\ Splices(e, s, Len(s) + 1, i) /\ Len(s) + 1 \in 1..(Len(s) + 1)
  BY <1>1, AppendSplices
<1> HIDE DEF e
<1>4. /\ IsInjective(e) /\ ToSet(e) = ToSet(s) \cup {i} /\ Place(e, i) = Len(s) + 1
      /\ \A a \in ToSet(s) : Place(e, a) = IF Place(s, a) < Len(s) + 1 THEN Place(s, a) ELSE Place(s, a) + 1
  BY <1>1, <1>2, <1>3, SpliceOK
<1>5. \A a \in ToSet(s) : Place(e, a) = Place(s, a) /\ Place(e, a) < Place(e, i) /\ ~ (Place(e, i) < Place(e, a))
  <2>1. \A a \in ToSet(s) : Place(s, a) \in 1..Len(s)
    BY <1>1, PlaceOK
  <2> QED
    BY <2>1, <1>1, <1>4
<1>6. x # Gone
  BY DEF Texts, Gone
<1>7. \A j \in DeltaItems : j \in ToSet(e) <=> Bucket(j) = Bucket(i) /\ IF j = i THEN x # Gone ELSE Holds(t, j)
  BY <1>1, <1>4, <1>6
<1>8. /\ u \in Collections
      /\ \A j \in DeltaItems : /\ Holds(u, j) <=> IF j = i THEN x # Gone ELSE Holds(t, j)
                               /\ u.text[j] = IF j = i THEN x ELSE t.text[j]
                               /\ Position(u, j) = IF Bucket(j) = Bucket(i) THEN Place(e, j) ELSE Position(t, j)
  BY <1>3, <1>4, <1>7, PutOK
<1>9. \A j \in DeltaItems : Position(u, j) = IF Bucket(j) = Bucket(i) THEN Place(e, j) ELSE Position(t, j)
  BY <1>8
<1>10. Undisturbed(t, u, i)
  <2>1. \A a, b \in DeltaItems \ {i} :
            Bucket(a) = Bucket(i) /\ Bucket(b) = Bucket(i) /\ Holds(t, a) /\ Holds(t, b) =>
            (Place(e, a) < Place(e, b) <=> Position(t, a) < Position(t, b))
    BY <1>1, <1>5
  <2> QED
    BY <2>1, <1>9, PutKeeps
<1> HIDE DEF u
<1>11. \A a \in DeltaItems \ {i} : Bucket(a) = Bucket(i) /\ Holds(t, a) =>
          Position(u, a) < Position(u, i) /\ ~ (Position(u, i) < Position(u, a))
  BY <1>1, <1>5, <1>9
<1> QED
  BY <1>6, <1>8, <1>10, <1>11 DEF u, e, s

LEMMA TextOnlyOK ==
    ASSUME NEW t \in Collections, NEW i \in DeltaItems, Holds(t, i), NEW x \in Texts
    PROVE  LET u == Put(t, i, t.order[Bucket(i)], x) IN
           /\ u \in Collections
           /\ \A j \in DeltaItems : /\ Holds(u, j) <=> Holds(t, j)
                                    /\ u.text[j] = IF j = i THEN x ELSE t.text[j]
                                    /\ Position(u, j) = Position(t, j)
<1> DEFINE s == t.order[Bucket(i)]
           u == Put(t, i, s, x)
<1>1. /\ s \in Seq(DeltaItems) /\ IsInjective(s) /\ Len(s) \in Nat
      /\ \A j \in DeltaItems : /\ j \in ToSet(s) <=> Bucket(j) = Bucket(i) /\ Holds(t, j)
                               /\ Bucket(j) = Bucket(i) => Place(s, j) = Position(t, j)
  BY BucketOK
<1> HIDE DEF s
<1>2. x # Gone
  BY DEF Texts, Gone
<1>3. \A j \in DeltaItems : j \in ToSet(s) <=> Bucket(j) = Bucket(i) /\ IF j = i THEN x # Gone ELSE Holds(t, j)
  BY <1>1, <1>2
<1>4. /\ u \in Collections
      /\ \A j \in DeltaItems : /\ Holds(u, j) <=> IF j = i THEN x # Gone ELSE Holds(t, j)
                               /\ u.text[j] = IF j = i THEN x ELSE t.text[j]
                               /\ Position(u, j) = IF Bucket(j) = Bucket(i) THEN Place(s, j) ELSE Position(t, j)
  BY <1>1, <1>3, PutOK
<1> HIDE DEF u
<1> QED
  BY <1>1, <1>2, <1>4 DEF u, s

\* A change of the order of a bucket, near a neighbour n.
LEMMA ReorderOK ==
    ASSUME NEW t \in Collections, NEW i \in DeltaItems, Holds(t, i),
           NEW n \in DeltaItems, Holds(t, n), n # i, Bucket(n) = Bucket(i)
    PROVE  LET u == Put(t, i, Before(t.order[Bucket(i)], i, n), t.text[i])
               v == Put(t, i, After(t.order[Bucket(i)], i, n), t.text[i]) IN
           /\ u \in Collections /\ Undisturbed(t, u, i)
           /\ v \in Collections /\ Undisturbed(t, v, i)
           /\ \A j \in DeltaItems : /\ Holds(u, j) <=> Holds(t, j)
                                    /\ Holds(v, j) <=> Holds(t, j)
                                    /\ u.text[j] = t.text[j] /\ v.text[j] = t.text[j]
           /\ \A a \in DeltaItems \ {i} : Bucket(a) = Bucket(i) /\ Holds(t, a) =>
                 /\ Position(u, a) < Position(u, i) <=> Position(t, a) < Position(t, n)
                 /\ Position(u, i) < Position(u, a) <=> ~ (Position(t, a) < Position(t, n))
                 /\ Position(v, a) < Position(v, i) <=> Position(t, a) <= Position(t, n)
                 /\ Position(v, i) < Position(v, a) <=> ~ (Position(t, a) <= Position(t, n))
<1> DEFINE s == t.order[Bucket(i)]
           x == t.text[i]
           e == Before(s, i, n)
           f == After(s, i, n)
           u == Put(t, i, e, x)
           v == Put(t, i, f, x)
<1>1. /\ s \in Seq(DeltaItems) /\ IsInjective(s) /\ Len(s) \in Nat
      /\ \A j \in DeltaItems : /\ j \in ToSet(s) <=> Bucket(j) = Bucket(i) /\ Holds(t, j)
                               /\ Bucket(j) = Bucket(i) => Place(s, j) = Position(t, j)
  BY BucketOK
<1>x. x \in Texts \cup {Gone} /\ x # Gone
  BY CollectionFacts DEF Holds
<1> HIDE DEF s, x
<1>2. i \in ToSet(s) /\ n \in ToSet(s)
  BY <1>1
<1>3. /\ e \in Seq(DeltaItems) /\ IsInjective(e) /\ ToSet(e) = ToSet(s)
      /\ \A a, b \in ToSet(s) \ {i} : Place(e, a) < Place(e, b) <=> Place(s, a) < Place(s, b)
      /\ \A a \in ToSet(s) \ {i} : /\ Place(e, a) < Place(e, i) <=> Place(s, a) < Place(s, n)
                                   /\ Place(e, i) < Place(e, a) <=> ~ (Place(s, a) < Place(s, n))
  BY <1>1, <1>2, BeforeOK
<1>4. /\ f \in Seq(DeltaItems) /\ IsInjective(f) /\ ToSet(f) = ToSet(s)
      /\ \A a, b \in ToSet(s) \ {i} : Place(f, a) < Place(f, b) <=> Place(s, a) < Place(s, b)
      /\ \A a \in ToSet(s) \ {i} : /\ Place(f, a) < Place(f, i) <=> Place(s, a) <= Place(s, n)
                                   /\ Place(f, i) < Place(f, a) <=> ~ (Place(s, a) <= Place(s, n))
  BY <1>1, <1>2, AfterOK
<1> HIDE DEF e, f
<1>5. \A j \in DeltaItems : j \in ToSet(s) <=> Bucket(j) = Bucket(i) /\ IF j = i THEN x # Gone ELSE Holds(t, j)
  BY <1>1, <1>x
<1>6. /\ u \in Collections
      /\ \A j \in DeltaItems : /\ Holds(u, j) <=> IF j = i THEN x # Gone ELSE Holds(t, j)
                               /\ u.text[j] = IF j = i THEN x ELSE t.text[j]
                               /\ Position(u, j) = IF Bucket(j) = Bucket(i) THEN Place(e, j) ELSE Position(t, j)
  <2>1. \A j \in DeltaItems : j \in ToSet(e) <=> Bucket(j) = Bucket(i) /\ IF j = i THEN x # Gone ELSE Holds(t, j)
    BY <1>3, <1>5
  <2> QED
    BY <2>1, <1>3, <1>x, PutOK
<1>7. /\ v \in Collections
      /\ \A j \in DeltaItems : /\ Holds(v, j) <=> IF j = i THEN x # Gone ELSE Holds(t, j)
                               /\ v.text[j] = IF j = i THEN x ELSE t.text[j]
                               /\ Position(v, j) = IF Bucket(j) = Bucket(i) THEN Place(f, j) ELSE Position(t, j)
  <2>1. \A j \in DeltaItems : j \in ToSet(f) <=> Bucket(j) = Bucket(i) /\ IF j = i THEN x # Gone ELSE Holds(t, j)
    BY <1>4, <1>5
  <2> QED
    BY <2>1, <1>4, <1>x, PutOK
<1>8. Undisturbed(t, u, i)
  <2>1. \A a, b \in DeltaItems \ {i} :
            Bucket(a) = Bucket(i) /\ Bucket(b) = Bucket(i) /\ Holds(t, a) /\ Holds(t, b) =>
            (Place(e, a) < Place(e, b) <=> Position(t, a) < Position(t, b))
    BY <1>1, <1>3
  <2>2. \A j \in DeltaItems : Position(u, j) = IF Bucket(j) = Bucket(i) THEN Place(e, j) ELSE Position(t, j)
    BY <1>6
  <2> QED
    BY <2>1, <2>2, PutKeeps
<1>9. Undisturbed(t, v, i)
  <2>1. \A a, b \in DeltaItems \ {i} :
            Bucket(a) = Bucket(i) /\ Bucket(b) = Bucket(i) /\ Holds(t, a) /\ Holds(t, b) =>
            (Place(f, a) < Place(f, b) <=> Position(t, a) < Position(t, b))
    BY <1>1, <1>4
  <2>2. \A j \in DeltaItems : Position(v, j) = IF Bucket(j) = Bucket(i) THEN Place(f, j) ELSE Position(t, j)
    BY <1>7
  <2> QED
    BY <2>1, <2>2, PutKeeps
<1> HIDE DEF u, v
<1>10. \A j \in DeltaItems : /\ Holds(u, j) <=> Holds(t, j)
                             /\ Holds(v, j) <=> Holds(t, j)
                             /\ u.text[j] = t.text[j] /\ v.text[j] = t.text[j]
  BY <1>6, <1>7, <1>x DEF x
<1>11. ASSUME NEW a \in DeltaItems \ {i}, Bucket(a) = Bucket(i), Holds(t, a)
       PROVE  /\ Position(u, a) < Position(u, i) <=> Position(t, a) < Position(t, n)
              /\ Position(u, i) < Position(u, a) <=> ~ (Position(t, a) < Position(t, n))
              /\ Position(v, a) < Position(v, i) <=> Position(t, a) <= Position(t, n)
              /\ Position(v, i) < Position(v, a) <=> ~ (Position(t, a) <= Position(t, n))
  <2>1. /\ a \in ToSet(s) \ {i} /\ Position(t, a) = Place(s, a) /\ Position(t, n) = Place(s, n)
        /\ Position(u, a) = Place(e, a) /\ Position(u, i) = Place(e, i)
        /\ Position(v, a) = Place(f, a) /\ Position(v, i) = Place(f, i)
    BY <1>11, <1>1, <1>6, <1>7
  <2> QED
    BY <2>1, <1>3, <1>4
<1> QED
  BY <1>6, <1>7, <1>8, <1>9, <1>10, <1>11 DEF u, v, e, f, s, x

\* Which items the collection holds, with which texts and in which order, when call m of
\* operation n is next.
DeltaHeld(old, new, ops, t, n, m) ==
    \A i \in DeltaItems :
        Holds(t, i) <=> IF Holds(old, i) THEN Holds(new, i) \/ Due(ops, n, m, "delete", i)
                        ELSE Holds(new, i) /\ ~ Due(ops, n, m, "create", i)
DeltaTexts(new, ops, t, n, m) ==
    \A i \in DeltaItems : Holds(t, i) /\ Holds(new, i) =>
        \/ t.text[i] = new.text[i]
        \/ Due(ops, n, m, "patch", i)
        \/ m > 1 /\ ops[n].item = i /\ new.text[i] = "scripted"
UnPlaced(ops, n, m, i) == m = 2 /\ ops[n].item = i /\ ops[n].next # Top
Settled(new, ops, t, n, m, i) == Holds(t, i) /\ Holds(new, i) /\ ~ UnPlaced(ops, n, m, i)
DeltaOrdered(new, ops, t, n, m) ==
    \A i, j \in DeltaItems :
        Bucket(i) = Bucket(j) /\ Settled(new, ops, t, n, m, i) /\ Settled(new, ops, t, n, m, j) =>
        (Position(t, i) < Position(t, j) <=> Position(new, i) < Position(new, j))

\* What a call meets, by its kind.
LEMMA CallReady ==
    ASSUME NEW old \in Collections, NEW new \in Collections, NEW t \in Collections, NEW ops,
           DeltaPlanOK(old, new, ops), NEW n \in DOMAIN ops, NEW m \in 1..Len(Calls(ops[n], new)),
           DeltaHeld(old, new, ops, t, n, m)
    PROVE  LET call == Calls(ops[n], new)[m]
               i == ops[n].item
               more == m < Len(Calls(ops[n], new)) IN
           /\ call.item = i /\ i \in DeltaItems
           /\ call.previous = ops[n].previous /\ call.next = ops[n].next
           /\ ops[n].kind # "delete" => /\ Holds(new, i)
                                        /\ ops[n].previous = Neighbour(new, i, -1)
                                        /\ ops[n].next = Neighbour(new, i, 1)
           /\ \/ /\ call.kind = "delete" /\ ops[n].kind = "delete" /\ m = 1 /\ ~ more
                 /\ Holds(old, i) /\ Holds(t, i) /\ ~ Holds(new, i)
              \/ /\ call.kind = "post" /\ ops[n].kind = "create" /\ m = 1
                 /\ ~ Holds(old, i) /\ ~ Holds(t, i) /\ (more <=> ops[n].next # Top \/ new.text[i] = "scripted")
              \/ /\ call.kind = "place" /\ ops[n].kind = "create" /\ m = 2
                 /\ Holds(t, i) /\ ops[n].next # Top /\ (more <=> new.text[i] = "scripted")
              \/ /\ call.kind = "finish" /\ ops[n].kind = "create" /\ m > 1 /\ ~ more
                 /\ Holds(t, i) /\ new.text[i] = "scripted" /\ ~ UnPlaced(ops, n, m, i)
              \/ /\ call.kind \in {"patch", "move"} /\ ops[n].kind = call.kind /\ m = 1 /\ ~ more
                 /\ Holds(old, i) /\ Holds(t, i)
<1> DEFINE c == Calls(ops[n], new)
           call == c[m]
           i == ops[n].item
<1>1. /\ ops[n] \in DeltaOps /\ i \in DeltaItems
      /\ ops[n].kind \in {"delete", "create", "patch", "move"}
      /\ ops[n].kind = "delete" => Holds(old, i) /\ ~ Holds(new, i)
      /\ ops[n].kind = "create" => Holds(new, i) /\ ~ Holds(old, i)
      /\ ops[n].kind \in {"patch", "move"} => Holds(new, i) /\ Holds(old, i)
      /\ ops[n].kind # "delete" => ops[n] = Planned(ops[n].kind, new, i)
  <2>1. ops[n] \in DeltaOps
    BY DEF DeltaPlanOK
  <2> QED
    BY <2>1 DEF DeltaPlanOK, DeltaOps
<1>2. ops[n].kind # "delete" => ops[n].previous = Neighbour(new, i, -1) /\ ops[n].next = Neighbour(new, i, 1)
  BY <1>1 DEF Planned
<1>3. /\ Len(c) \in 1..3
      /\ \A s \in 1..Len(c) : c[s].item = i /\ c[s].previous = ops[n].previous /\ c[s].next = ops[n].next
      /\ ops[n].kind # "create" => Len(c) = 1 /\ c[1].kind = ops[n].kind
      /\ ops[n].kind = "create" =>
            /\ c[1].kind = "post" /\ (ops[n].next # Top => Len(c) > 1 /\ c[2].kind = "place")
            /\ new.text[i] = "scripted" =>
                  Len(c) = (IF ops[n].next # Top THEN 3 ELSE 2) /\ c[Len(c)].kind = "finish"
            /\ new.text[i] # "scripted" => Len(c) = IF ops[n].next # Top THEN 2 ELSE 1
  BY <1>1, CallsOK
<1>4. \A kind : m = 1 /\ ops[n].kind = kind => Due(ops, n, m, kind, i)
  BY DEF Due
<1>5. m > 1 => ~ Due(ops, n, m, "create", i) \/ ops[n].kind # "create"
  <2> SUFFICES ASSUME m > 1, ops[n].kind = "create", NEW k \in DOMAIN ops, ops[k].kind = "create", ops[k].item = i,
                      n < k \/ (n = k /\ m = 1)
               PROVE  FALSE
    BY DEF Due
  <2>1. m # 1
    BY <1>3
  <2>2. n < k
    BY <2>1
  <2> QED
    BY <2>2 DEF DeltaPlanOK
<1>m. m \in 1..Len(c)
  OBVIOUS
<1>c. ops[n].kind = "create" =>
         /\ c[1].kind = "post" /\ (ops[n].next # Top => c[2].kind = "place")
         /\ new.text[i] = "scripted" => Len(c) = (IF ops[n].next # Top THEN 3 ELSE 2) /\ c[Len(c)].kind = "finish"
         /\ new.text[i] # "scripted" => Len(c) = IF ops[n].next # Top THEN 2 ELSE 1
  BY <1>3
<1> HIDE DEF c, i
<1>6. CASE ops[n].kind = "delete"
  <2>1. m = 1 /\ Len(c) = 1 /\ call.kind = "delete"
    <3>1. Len(c) = 1 /\ c[1].kind = ops[n].kind
      BY <1>3, <1>6
    <3>2. m = 1
      BY <3>1, <1>m
    <3> QED
      BY <3>1, <3>2, <1>6
  <2>2. Holds(old, i) /\ ~ Holds(new, i) /\ Holds(t, i)
    BY <2>1, <1>1, <1>4, <1>6 DEF DeltaHeld
  <2> QED
    BY <2>1, <2>2, <1>1, <1>2, <1>3, <1>6 DEF c, i
<1>7. CASE ops[n].kind \in {"patch", "move"}
  <2>1. m = 1 /\ Len(c) = 1 /\ call.kind = ops[n].kind
    BY <1>3, <1>7, <1>m
  <2>2. Holds(old, i) /\ Holds(new, i) /\ Holds(t, i)
    BY <1>1, <1>7 DEF DeltaHeld
  <2> QED
    BY <2>1, <2>2, <1>1, <1>2, <1>3, <1>7 DEF c, i
<1>8. CASE ops[n].kind = "create"
  <2>0. m \in 1..Len(c) /\ Holds(new, i) /\ ~ Holds(old, i)
    BY <1>1, <1>8 DEF c
  <2>1. CASE m = 1
    <3>1. call.kind = "post" /\ (m < Len(c) <=> ops[n].next # Top \/ new.text[i] = "scripted")
      <4>1. call.kind = "post"
        BY <1>c, <1>8, <2>1
      <4>2. Len(c) = IF ops[n].next # Top THEN (IF new.text[i] = "scripted" THEN 3 ELSE 2)
                     ELSE IF new.text[i] = "scripted" THEN 2 ELSE 1
        BY <1>c, <1>8
      <4> QED
        BY <4>1, <4>2, <2>1
    <3>2. ~ Holds(t, i)
      BY <2>0, <2>1, <1>1, <1>4, <1>8 DEF DeltaHeld
    <3> QED
      BY <3>1, <3>2, <2>0, <2>1, <1>1, <1>2, <1>3, <1>8 DEF c, i
  <2>2. CASE m > 1
    <3>1. Holds(t, i)
      BY <2>0, <2>2, <1>1, <1>5, <1>8 DEF DeltaHeld
    <3>2. CASE m = 2 /\ ops[n].next # Top
      <4>1. call.kind = "place"
        BY <1>c, <1>8, <3>2
      <4>2. Len(c) = IF new.text[i] = "scripted" THEN 3 ELSE 2
        BY <1>c, <1>8, <3>2
      <4>3. m < Len(c) <=> new.text[i] = "scripted"
        BY <4>2, <3>2
      <4> QED
        BY <4>1, <4>3, <3>1, <3>2, <2>0, <1>1, <1>2, <1>3, <1>8 DEF c, i
    <3>3. CASE ~ (m = 2 /\ ops[n].next # Top)
      <4>1. m = Len(c) /\ new.text[i] = "scripted" /\ call.kind = "finish"
        BY <1>3, <1>8, <3>3, <2>0, <2>2
      <4>2. ~ UnPlaced(ops, n, m, i)
        BY <3>3 DEF UnPlaced
      <4> QED
        BY <4>1, <4>2, <3>1, <2>0, <2>2, <1>1, <1>2, <1>3, <1>8 DEF c, i
    <3> QED
      BY <3>2, <3>3
  <2> QED
    BY <2>0, <2>1, <2>2, <1>3
<1> QED
  BY <1>1, <1>6, <1>7, <1>8

\* The neighbour that a create or a move names is held by the time of the call.
LEMMA NeighbourHeld ==
    ASSUME NEW old \in Collections, NEW new \in Collections, NEW t \in Collections, NEW ops,
           DeltaPlanOK(old, new, ops), NEW n \in DOMAIN ops, NEW m \in Nat \ {0}, DeltaHeld(old, new, ops, t, n, m),
           Holds(new, ops[n].item), NEW d \in {-1, 1},
           ops[n].kind = "move" \/ (ops[n].kind = "create" /\ d = 1),
           NEW x, x = Neighbour(new, ops[n].item, d), x # Top
    PROVE  /\ x \in DeltaItems /\ x # ops[n].item /\ Bucket(x) = Bucket(ops[n].item)
           /\ Holds(new, x) /\ Holds(t, x) /\ Position(new, x) = Position(new, ops[n].item) + d
<1> DEFINE i == ops[n].item
<1>1. i \in DeltaItems
  <2>1. ops[n] \in DeltaOps
    BY DEF DeltaPlanOK
  <2> QED
    BY <2>1 DEF DeltaOps
<1>2. /\ x \in DeltaItems /\ x # i /\ Bucket(x) = Bucket(i) /\ Holds(new, x)
      /\ Position(new, x) = Position(new, i) + d
  BY <1>1, NeighbourOK
<1>3. ASSUME NEW k \in DOMAIN ops, ops[k].kind = "create", ops[k].item = x, n < k \/ (n = k /\ m = 1) PROVE FALSE
  <2>1. n # k
    BY <1>2, <1>3
  <2>2. n < k
    BY <1>3, <2>1
  <2>3. ops[n].kind # "move"
    <3>1. Stage(ops[n].kind) <= Stage(ops[k].kind)
      BY <2>2 DEF DeltaPlanOK
    <3> QED
      BY <3>1, <1>3 DEF Stage
  <2>4. ops[n].kind = "create" /\ d = 1
    BY <2>3
  <2>5. Position(new, x) < Position(new, i)
    BY <2>2, <2>4, <1>2, <1>3 DEF DeltaPlanOK
  <2>6. Position(new, i) \in Nat
    <3>1. Position(new, i) \in 1..Len(new.order[Bucket(i)])
      BY <1>1, PositionOK
    <3> QED
      BY <3>1
  <2> QED
    BY <2>4, <2>5, <2>6, <1>2
<1>4. ~ Due(ops, n, m, "create", x)
  BY <1>3 DEF Due
<1>5. Holds(t, x)
  BY <1>2, <1>4 DEF DeltaHeld
<1> QED
  BY <1>2, <1>5

\* A call that the plan reaches.
Reached(old, new, ops, t, n, m) ==
    /\ old \in Collections /\ new \in Collections /\ t \in Collections
    /\ DeltaPlanOK(old, new, ops) /\ n \in DOMAIN ops /\ m \in 1..Len(Calls(ops[n], new))
    /\ DeltaHeld(old, new, ops, t, n, m)

\* The item that a call changes, and the others.
LEMMA CallEffect ==
    ASSUME NEW old, NEW new, NEW ops, NEW t, NEW n, NEW m, Reached(old, new, ops, t, n, m)
    PROVE  LET call == Calls(ops[n], new)[m]
               i == ops[n].item
               u == Sent(call, t, new) IN
           /\ u \in Collections /\ Undisturbed(t, u, i)
           /\ \A j \in DeltaItems : /\ Holds(u, j) <=> IF j = i THEN call.kind # "delete" ELSE Holds(t, j)
                                    /\ j # i => u.text[j] = t.text[j]
           /\ call.kind = "post" => u.text[i] = IF new.text[i] = "scripted" THEN "plain" ELSE new.text[i]
           /\ call.kind = "finish" => u.text[i] = "scripted"
           /\ call.kind = "patch" => u.text[i] = new.text[i]
           /\ call.kind \in {"place", "move"} => u.text[i] = t.text[i]
<1> DEFINE call == Calls(ops[n], new)[m]
           i == ops[n].item
           u == Sent(call, t, new)
           s == t.order[Bucket(i)]
<1> USE DEF Reached
<1>1. /\ call.item = i /\ i \in DeltaItems
      /\ call.previous = ops[n].previous /\ call.next = ops[n].next
      /\ ops[n].kind # "delete" => /\ Holds(new, i)
                                   /\ ops[n].previous = Neighbour(new, i, -1)
                                   /\ ops[n].next = Neighbour(new, i, 1)
      /\ \/ call.kind = "delete" /\ Holds(t, i)
         \/ call.kind = "post" /\ ops[n].kind = "create" /\ ~ Holds(t, i)
         \/ call.kind = "place" /\ ops[n].kind = "create" /\ Holds(t, i) /\ ops[n].next # Top
         \/ call.kind = "finish" /\ ops[n].kind = "create" /\ Holds(t, i)
         \/ call.kind = "patch" /\ ops[n].kind = "patch" /\ Holds(t, i)
         \/ call.kind = "move" /\ ops[n].kind = "move" /\ Holds(t, i)
  BY CallReady
<1>2. /\ call.kind = "delete" => u = Put(t, i, Dropped(s, i), Gone)
      /\ call.kind = "post" => u = Put(t, i, Append(s, i), IF new.text[i] = "scripted" THEN "plain" ELSE new.text[i])
      /\ call.kind = "finish" => u = Put(t, i, s, "scripted")
      /\ call.kind = "patch" => u = Put(t, i, s, new.text[i])
      /\ call.kind = "place" => u = Put(t, i, Before(s, i, call.next), t.text[i])
      /\ call.kind = "move" =>
            u = Put(t, i, IF call.previous # Top THEN After(s, i, call.previous)
                          ELSE IF call.next # Top THEN Before(s, i, call.next) ELSE s, t.text[i])
  <2>1. t \in Collections /\ call.item \in DeltaItems
    BY <1>1
  <2> HIDE DEF call
  <2>2. /\ call.kind = "delete" => u = Put(t, call.item, Dropped(t.order[Bucket(call.item)], call.item), Gone)
        /\ call.kind = "post" =>
              u = Put(t, call.item, Append(t.order[Bucket(call.item)], call.item),
                      IF new.text[call.item] = "scripted" THEN "plain" ELSE new.text[call.item])
        /\ call.kind = "finish" => u = Put(t, call.item, t.order[Bucket(call.item)], "scripted")
        /\ call.kind = "patch" => u = Put(t, call.item, t.order[Bucket(call.item)], new.text[call.item])
        /\ call.kind = "place" =>
              u = Put(t, call.item, Before(t.order[Bucket(call.item)], call.item, call.next), t.text[call.item])
        /\ call.kind = "move" =>
              u = Put(t, call.item,
                      IF call.previous # Top THEN After(t.order[Bucket(call.item)], call.item, call.previous)
                      ELSE IF call.next # Top THEN Before(t.order[Bucket(call.item)], call.item, call.next)
                      ELSE t.order[Bucket(call.item)], t.text[call.item])
    BY <2>1, SentIs
  <2> QED
    BY <2>2, <1>1
<1>3. m \in Nat \ {0} /\ t \in Collections /\ new \in Collections
  <2>1. Len(Calls(ops[n], new)) \in 1..3
    <3>1. ops[n] \in DeltaOps
      BY DEF DeltaPlanOK
    <3> QED
      BY <3>1, CallsOK
  <2> QED
    BY <2>1
<1>4. /\ Holds(new, i) => new.text[i] \in Texts
      /\ Holds(t, i) => t.text[i] \in Texts
  BY <1>1, <1>3, CollectionFacts DEF Holds
<1>5. \A d \in {-1, 1} : LET x == Neighbour(new, i, d) IN
         x # Top /\ (ops[n].kind = "move" \/ (ops[n].kind = "create" /\ d = 1)) =>
         x \in DeltaItems /\ x # i /\ Bucket(x) = Bucket(i) /\ Holds(t, x)
  <2> SUFFICES ASSUME NEW d \in {-1, 1}, Neighbour(new, i, d) # Top,
                      ops[n].kind = "move" \/ (ops[n].kind = "create" /\ d = 1)
               PROVE  /\ Neighbour(new, i, d) \in DeltaItems /\ Neighbour(new, i, d) # i
                      /\ Bucket(Neighbour(new, i, d)) = Bucket(i) /\ Holds(t, Neighbour(new, i, d))
    OBVIOUS
  <2>1. Holds(new, i)
    BY <1>1
  <2> DEFINE x == Neighbour(new, i, d)
  <2>2. x = Neighbour(new, ops[n].item, d) /\ x # Top /\ Holds(new, ops[n].item)
    BY <2>1
  <2> HIDE DEF x
  <2>3. x \in DeltaItems /\ x # ops[n].item /\ Bucket(x) = Bucket(ops[n].item) /\ Holds(t, x)
    BY <2>2, <1>3, NeighbourHeld
  <2> QED
    BY <2>3 DEF x
<1> HIDE DEF call, i, u, s, Reached
<1> DEFINE Goal == /\ u \in Collections /\ Undisturbed(t, u, i)
                   /\ \A j \in DeltaItems : /\ Holds(u, j) <=> IF j = i THEN call.kind # "delete" ELSE Holds(t, j)
                                            /\ j # i => u.text[j] = t.text[j]
                   /\ call.kind = "post" => u.text[i] = IF new.text[i] = "scripted" THEN "plain" ELSE new.text[i]
                   /\ call.kind = "finish" => u.text[i] = "scripted"
                   /\ call.kind = "patch" => u.text[i] = new.text[i]
                   /\ call.kind \in {"place", "move"} => u.text[i] = t.text[i]
<1>6. ASSUME call.kind = "delete" PROVE Goal
  <2>1. u = Put(t, i, Dropped(s, i), Gone) /\ Holds(t, i)
    BY <1>1, <1>2, <1>6
  <2>2. /\ u \in Collections /\ Undisturbed(t, u, i)
        /\ \A j \in DeltaItems : /\ Holds(u, j) <=> Holds(t, j) /\ j # i
                                 /\ j # i => u.text[j] = t.text[j]
    BY <2>1, <1>1, <1>3, DeleteOK DEF s
  <2> QED
    BY <2>2, <1>6
<1>7. ASSUME call.kind = "post" PROVE Goal
  <2> DEFINE x == IF new.text[i] = "scripted" THEN "plain" ELSE new.text[i]
  <2>1. u = Put(t, i, Append(s, i), x) /\ ~ Holds(t, i)
    BY <1>1, <1>2, <1>7
  <2>2. x \in Texts
    BY <1>1, <1>4, <1>7 DEF Texts
  <2> HIDE DEF x
  <2>3. /\ u \in Collections /\ Undisturbed(t, u, i)
        /\ \A j \in DeltaItems : /\ Holds(u, j) <=> Holds(t, j) \/ j = i
                                 /\ u.text[j] = IF j = i THEN x ELSE t.text[j]
    BY <2>1, <2>2, <1>1, <1>3, PostOK DEF s
  <2> QED
    BY <2>3, <1>1, <1>7 DEF x
<1>8. ASSUME NEW x \in Texts, u = Put(t, i, s, x), Holds(t, i)
      PROVE  /\ u \in Collections /\ Undisturbed(t, u, i) /\ u.text[i] = x
             /\ \A j \in DeltaItems : /\ Holds(u, j) <=> Holds(t, j)
                                      /\ j # i => u.text[j] = t.text[j]
  <2>1. /\ u \in Collections
        /\ \A j \in DeltaItems : /\ Holds(u, j) <=> Holds(t, j)
                                 /\ u.text[j] = IF j = i THEN x ELSE t.text[j]
                                 /\ Position(u, j) = Position(t, j)
    BY <1>8, <1>1, <1>3, TextOnlyOK DEF s
  <2> QED
    BY <2>1, <1>1 DEF Undisturbed
<1>9. ASSUME call.kind \in {"finish", "patch"} PROVE Goal
  <2> DEFINE x == IF call.kind = "finish" THEN "scripted" ELSE new.text[i]
  <2>1. x \in Texts /\ u = Put(t, i, s, x) /\ Holds(t, i)
    BY <1>1, <1>2, <1>4, <1>9 DEF Texts
  <2> HIDE DEF x
  <2>2. /\ u \in Collections /\ Undisturbed(t, u, i) /\ u.text[i] = x
        /\ \A j \in DeltaItems : /\ Holds(u, j) <=> Holds(t, j)
                                 /\ j # i => u.text[j] = t.text[j]
    BY <2>1, <1>8
  <2> QED
    BY <2>1, <2>2, <1>9 DEF x
<1>10. ASSUME NEW x \in DeltaItems, x # i, Bucket(x) = Bucket(i), Holds(t, x), Holds(t, i), call.kind \in {"place", "move"},
              u = Put(t, i, Before(s, i, x), t.text[i]) \/ u = Put(t, i, After(s, i, x), t.text[i])
       PROVE  Goal
  <2>1. /\ u \in Collections /\ Undisturbed(t, u, i)
        /\ \A j \in DeltaItems : (Holds(u, j) <=> Holds(t, j)) /\ u.text[j] = t.text[j]
    BY <1>10, <1>1, <1>3, ReorderOK DEF s
  <2> QED
    BY <2>1, <1>1, <1>10
<1>11. ASSUME call.kind = "place" PROVE Goal
  <2>1. /\ u = Put(t, i, Before(s, i, call.next), t.text[i]) /\ Holds(t, i)
        /\ call.next = Neighbour(new, i, 1) /\ call.next # Top /\ ops[n].kind = "create"
    BY <1>1, <1>2, <1>11
  <2>2. call.next \in DeltaItems /\ call.next # i /\ Bucket(call.next) = Bucket(i) /\ Holds(t, call.next)
    BY <2>1, <1>5
  <2> QED
    BY <2>1, <2>2, <1>10, <1>11
<1>12. ASSUME call.kind = "move" PROVE Goal
  <2>1. /\ ops[n].kind = "move" /\ Holds(t, i)
        /\ call.previous = Neighbour(new, i, -1) /\ call.next = Neighbour(new, i, 1)
        /\ u = Put(t, i, IF call.previous # Top THEN After(s, i, call.previous)
                         ELSE IF call.next # Top THEN Before(s, i, call.next) ELSE s, t.text[i])
    BY <1>1, <1>2, <1>12
  <2>2. ASSUME call.previous # Top PROVE Goal
    <3>1. call.previous \in DeltaItems /\ call.previous # i /\ Bucket(call.previous) = Bucket(i) /\ Holds(t, call.previous)
      BY <2>1, <2>2, <1>5
    <3>2. u = Put(t, i, After(s, i, call.previous), t.text[i])
      BY <2>1, <2>2
    <3> QED
      BY <3>1, <3>2, <2>1, <1>10, <1>12
  <2>3. ASSUME call.previous = Top, call.next # Top PROVE Goal
    <3>1. call.next \in DeltaItems /\ call.next # i /\ Bucket(call.next) = Bucket(i) /\ Holds(t, call.next)
      BY <2>1, <2>3, <1>5
    <3>2. u = Put(t, i, Before(s, i, call.next), t.text[i])
      BY <2>1, <2>3
    <3> QED
      BY <3>1, <3>2, <2>1, <1>10, <1>12
  <2>4. ASSUME call.previous = Top, call.next = Top PROVE Goal
    <3>1. u = Put(t, i, s, t.text[i]) /\ t.text[i] \in Texts
      BY <2>1, <2>4, <1>4
    <3>2. /\ u \in Collections /\ Undisturbed(t, u, i) /\ u.text[i] = t.text[i]
          /\ \A j \in DeltaItems : /\ Holds(u, j) <=> Holds(t, j)
                                   /\ j # i => u.text[j] = t.text[j]
      BY <3>1, <2>1, <1>8
    <3> QED
      BY <3>2, <2>1, <1>12
  <2> QED
    BY <2>2, <2>3, <2>4
<1>13. Goal
  <2> HIDE DEF Goal
  <2> QED
    BY <1>1, <1>6, <1>7, <1>9, <1>11, <1>12
<1> QED
  BY <1>13 DEF u, call, i

\* Where a call leaves its item: among the placed ones of its bucket, where it is desired.
LEMMA CallPlaces ==
    ASSUME NEW old, NEW new, NEW ops, NEW t, NEW n, NEW m, Reached(old, new, ops, t, n, m),
           DeltaOrdered(new, ops, t, n, m), Calls(ops[n], new)[m].kind # "delete",
           ~ (Calls(ops[n], new)[m].kind = "post" /\ ops[n].next # Top),
           NEW a \in DeltaItems \ {ops[n].item}, Bucket(a) = Bucket(ops[n].item), Holds(t, a), Holds(new, a)
    PROVE  LET i == ops[n].item
               u == Sent(Calls(ops[n], new)[m], t, new) IN
           /\ Position(u, a) < Position(u, i) <=> Position(new, a) < Position(new, i)
           /\ Position(u, i) < Position(u, a) <=> Position(new, i) < Position(new, a)
<1> DEFINE call == Calls(ops[n], new)[m]
           i == ops[n].item
           u == Sent(call, t, new)
           s == t.order[Bucket(i)]
           P(x) == Position(new, x)
           T(x) == Position(t, x)
<1> USE DEF Reached
<1>1. /\ call.item = i /\ i \in DeltaItems
      /\ call.previous = ops[n].previous /\ call.next = ops[n].next
      /\ ops[n].kind # "delete" => /\ Holds(new, i)
                                   /\ ops[n].previous = Neighbour(new, i, -1)
                                   /\ ops[n].next = Neighbour(new, i, 1)
      /\ \/ call.kind = "delete"
         \/ call.kind = "post" /\ ops[n].kind = "create" /\ m = 1 /\ ~ Holds(t, i)
         \/ call.kind = "place" /\ ops[n].kind = "create" /\ m = 2 /\ Holds(t, i) /\ ops[n].next # Top
         \/ call.kind = "finish" /\ ops[n].kind = "create" /\ Holds(t, i) /\ ~ UnPlaced(ops, n, m, i)
         \/ call.kind = "patch" /\ ops[n].kind = "patch" /\ m = 1 /\ Holds(t, i)
         \/ call.kind = "move" /\ ops[n].kind = "move" /\ m = 1 /\ Holds(t, i)
  BY CallReady
<1>2. t \in Collections /\ new \in Collections
  OBVIOUS
<1>3. m \in Nat \ {0}
  <2>1. Len(Calls(ops[n], new)) \in 1..3
    <3>1. ops[n] \in DeltaOps
      BY DEF DeltaPlanOK
    <3> QED
      BY <3>1, CallsOK
  <2> QED
    BY <2>1
<1>4. Holds(new, i)
  <2>1. ops[n].kind # "delete"
    BY <1>1
  <2> QED
    BY <2>1, <1>1
\* Positions are numbers, different ones for different items.
<1>5. /\ P(a) \in Nat /\ P(i) \in Nat /\ P(a) # P(i)
      /\ \A x \in DeltaItems : Holds(new, x) /\ Bucket(x) = Bucket(a) /\ P(x) = P(a) => x = a
  <2>1. \A x \in DeltaItems : Holds(new, x) => P(x) \in 1..Len(new.order[Bucket(x)])
    BY <1>2, PositionOK
  <2>2. \A x, y \in DeltaItems : Holds(new, x) /\ Holds(new, y) /\ Bucket(x) = Bucket(y) /\ P(x) = P(y) => x = y
    BY <1>2, PositionOK
  <2> QED
    BY <2>1, <2>2, <1>1, <1>4
<1>6. \A x \in DeltaItems : Holds(t, x) => T(x) \in Nat
  <2>1. \A x \in DeltaItems : Holds(t, x) => T(x) \in 1..Len(t.order[Bucket(x)])
    BY <1>2, PositionOK
  <2> QED
    BY <2>1
<1>7. \A x \in DeltaItems : Holds(t, x) /\ Bucket(x) = Bucket(a) /\ T(x) = T(a) => x = a
  BY <1>2, PositionOK
\* The neighbours of a placed item.
<1>8. \A d \in {-1, 1} : LET x == Neighbour(new, i, d) IN
         x # Top /\ (ops[n].kind = "move" \/ (ops[n].kind = "create" /\ d = 1)) =>
         x \in DeltaItems /\ x # i /\ Bucket(x) = Bucket(i) /\ Holds(t, x) /\ Holds(new, x) /\ P(x) = P(i) + d
  <2> SUFFICES ASSUME NEW d \in {-1, 1}, Neighbour(new, i, d) # Top,
                      ops[n].kind = "move" \/ (ops[n].kind = "create" /\ d = 1)
               PROVE  /\ Neighbour(new, i, d) \in DeltaItems /\ Neighbour(new, i, d) # i
                      /\ Bucket(Neighbour(new, i, d)) = Bucket(i) /\ Holds(t, Neighbour(new, i, d))
                      /\ Holds(new, Neighbour(new, i, d)) /\ P(Neighbour(new, i, d)) = P(i) + d
    OBVIOUS
  <2> DEFINE x == Neighbour(new, i, d)
  <2>2. x = Neighbour(new, ops[n].item, d) /\ x # Top /\ Holds(new, ops[n].item)
    BY <1>4
  <2> HIDE DEF x
  <2>3. /\ x \in DeltaItems /\ x # ops[n].item /\ Bucket(x) = Bucket(ops[n].item) /\ Holds(t, x)
        /\ Holds(new, x) /\ Position(new, x) = Position(new, ops[n].item) + d
    BY <2>2, <1>3, NeighbourHeld
  <2> QED
    BY <2>3 DEF x
<1>9. \A x \in DeltaItems : x # i => ~ UnPlaced(ops, n, m, x)
  BY DEF UnPlaced
<1>10. \A x \in DeltaItems : Holds(t, x) /\ Holds(new, x) /\ Bucket(x) = Bucket(a) /\ (x # i \/ ~ UnPlaced(ops, n, m, i)) =>
          (T(a) < T(x) <=> P(a) < P(x)) /\ (T(x) < T(a) <=> P(x) < P(a))
  BY <1>9 DEF DeltaOrdered, Settled
<1> HIDE DEF call, i, u, s, P, T, Reached
<1> DEFINE Goal == /\ Position(u, a) < Position(u, i) <=> P(a) < P(i)
                   /\ Position(u, i) < Position(u, a) <=> P(i) < P(a)
<1>11. ASSUME Position(u, a) = T(a), Position(u, i) = T(i), Holds(t, i), ~ UnPlaced(ops, n, m, i) PROVE Goal
  BY <1>1, <1>4, <1>10, <1>11 DEF i
<1>s. ASSUME NEW x, u = Put(t, i, s, x), x \in Texts, Holds(t, i)
      PROVE  Position(u, a) = T(a) /\ Position(u, i) = T(i)
  <2>1. \A j \in DeltaItems : Position(u, j) = Position(t, j)
    BY <1>s, <1>1, <1>2, TextOnlyOK DEF s
  <2> QED
    BY <2>1, <1>1 DEF T
<1>b. ASSUME NEW x \in DeltaItems, x # i, Bucket(x) = Bucket(i), Holds(t, x), Holds(t, i), Holds(new, x), P(x) = P(i) + 1,
             u = Put(t, i, Before(s, i, x), t.text[i])
      PROVE  Goal
  <2>1. /\ Position(u, a) < Position(u, i) <=> T(a) < T(x)
        /\ Position(u, i) < Position(u, a) <=> ~ (T(a) < T(x))
    <3>1. a \in DeltaItems \ {i} /\ Bucket(a) = Bucket(i)
      BY DEF i
    <3> QED
      BY <3>1, <1>b, <1>1, <1>2, ReorderOK DEF s, T
  <2>2. T(a) < T(x) <=> P(a) < P(x)
    <3>1. Bucket(x) = Bucket(a)
      BY <1>b DEF i
    <3> QED
      BY <3>1, <1>b, <1>10
  <2> QED
    BY <2>1, <2>2, <1>5, <1>b
<1>f. ASSUME NEW x \in DeltaItems, x # i, Bucket(x) = Bucket(i), Holds(t, x), Holds(t, i), Holds(new, x), P(x) = P(i) - 1,
             u = Put(t, i, After(s, i, x), t.text[i])
      PROVE  Goal
  <2>1. /\ Position(u, a) < Position(u, i) <=> T(a) <= T(x)
        /\ Position(u, i) < Position(u, a) <=> ~ (T(a) <= T(x))
    <3>1. a \in DeltaItems \ {i} /\ Bucket(a) = Bucket(i)
      BY DEF i
    <3> QED
      BY <3>1, <1>f, <1>1, <1>2, ReorderOK DEF s, T
  <2>2. Bucket(x) = Bucket(a)
    BY <1>f DEF i
  <2>3. T(a) < T(x) <=> P(a) < P(x)
    BY <2>2, <1>f, <1>10
  <2>4. T(a) = T(x) <=> x = a
    BY <2>2, <1>f, <1>7
  <2>5. P(a) = P(x) <=> x = a
    BY <2>2, <1>f, <1>5
  <2>6. T(a) \in Nat /\ T(x) \in Nat
    BY <1>6, <1>f
  <2>7. T(a) <= T(x) <=> P(a) < P(x) \/ P(a) = P(x)
    BY <2>3, <2>4, <2>5, <2>6
  <2> QED
    BY <2>1, <2>7, <1>5, <1>f
<1>12. /\ call.kind = "finish" => u = Put(t, i, s, "scripted")
       /\ call.kind = "patch" => u = Put(t, i, s, new.text[i])
       /\ call.kind = "post" => u = Put(t, i, Append(s, i), IF new.text[i] = "scripted" THEN "plain" ELSE new.text[i])
       /\ call.kind = "place" => u = Put(t, i, Before(s, i, call.next), t.text[i])
       /\ call.kind = "move" =>
             u = Put(t, i, IF call.previous # Top THEN After(s, i, call.previous)
                           ELSE IF call.next # Top THEN Before(s, i, call.next) ELSE s, t.text[i])
  <2>1. t \in Collections /\ call.item \in DeltaItems
    BY <1>1, <1>2
  <2>2. /\ call.kind = "post" =>
              u = Put(t, call.item, Append(t.order[Bucket(call.item)], call.item),
                      IF new.text[call.item] = "scripted" THEN "plain" ELSE new.text[call.item])
        /\ call.kind = "finish" => u = Put(t, call.item, t.order[Bucket(call.item)], "scripted")
        /\ call.kind = "patch" => u = Put(t, call.item, t.order[Bucket(call.item)], new.text[call.item])
        /\ call.kind = "place" =>
              u = Put(t, call.item, Before(t.order[Bucket(call.item)], call.item, call.next), t.text[call.item])
        /\ call.kind = "move" =>
              u = Put(t, call.item,
                      IF call.previous # Top THEN After(t.order[Bucket(call.item)], call.item, call.previous)
                      ELSE IF call.next # Top THEN Before(t.order[Bucket(call.item)], call.item, call.next)
                      ELSE t.order[Bucket(call.item)], t.text[call.item])
    BY <2>1, SentIs DEF u
  <2> QED
    BY <2>2, <1>1 DEF s
<1>t. (Holds(new, i) => new.text[i] \in Texts) /\ (Holds(t, i) => t.text[i] \in Texts)
  BY <1>1, <1>2, CollectionFacts DEF Holds
<1>13. ASSUME call.kind = "post" PROVE Goal
  <2>1. ~ Holds(t, i) /\ ops[n].next = Top /\ Neighbour(new, i, 1) = Top
    BY <1>1, <1>13 DEF call
  <2>2. P(a) < P(i)
    <3>1. P(a) <= P(i)
      <4>1. Bucket(a) = Bucket(i)
        BY DEF i
      <4> QED
        BY <4>1, <2>1, <1>1, <1>2, <1>4, NeighbourOK DEF P
    <3> QED
      BY <3>1, <1>5
  <2> DEFINE x == IF new.text[i] = "scripted" THEN "plain" ELSE new.text[i]
  <2>3. u = Put(t, i, Append(s, i), x) /\ x \in Texts
    BY <1>12, <1>13, <1>4, <1>t DEF Texts
  <2> HIDE DEF x
  <2>4. Position(u, a) < Position(u, i) /\ ~ (Position(u, i) < Position(u, a))
    <3>1. a \in DeltaItems \ {i} /\ Bucket(a) = Bucket(i)
      BY DEF i
    <3> QED
      BY <3>1, <2>1, <2>3, <1>1, <1>2, PostOK DEF s
  <2> QED
    BY <2>2, <2>4, <1>5
<1>14. ASSUME call.kind \in {"finish", "patch"} PROVE Goal
  <2> DEFINE x == IF call.kind = "finish" THEN "scripted" ELSE new.text[i]
  <2>1. u = Put(t, i, s, x) /\ x \in Texts /\ Holds(t, i)
    BY <1>1, <1>4, <1>12, <1>14, <1>t DEF Texts
  <2>2. ~ UnPlaced(ops, n, m, i)
    BY <1>1, <1>14 DEF UnPlaced
  <2> HIDE DEF x
  <2>3. Position(u, a) = T(a) /\ Position(u, i) = T(i)
    BY <2>1, <1>s
  <2> QED
    BY <2>1, <2>2, <2>3, <1>11
<1>15. ASSUME call.kind = "place" PROVE Goal
  <2>1. /\ u = Put(t, i, Before(s, i, call.next), t.text[i]) /\ Holds(t, i)
        /\ call.next = Neighbour(new, i, 1) /\ call.next # Top /\ ops[n].kind = "create"
    BY <1>1, <1>12, <1>15
  <2>2. /\ call.next \in DeltaItems /\ call.next # i /\ Bucket(call.next) = Bucket(i) /\ Holds(t, call.next)
        /\ Holds(new, call.next) /\ P(call.next) = P(i) + 1
    BY <2>1, <1>8
  <2> QED
    BY <2>1, <2>2, <1>b
<1>16. ASSUME call.kind = "move" PROVE Goal
  <2>1. /\ ops[n].kind = "move" /\ Holds(t, i) /\ ~ UnPlaced(ops, n, m, i)
        /\ call.previous = Neighbour(new, i, -1) /\ call.next = Neighbour(new, i, 1)
        /\ u = Put(t, i, IF call.previous # Top THEN After(s, i, call.previous)
                         ELSE IF call.next # Top THEN Before(s, i, call.next) ELSE s, t.text[i])
    BY <1>1, <1>12, <1>16 DEF UnPlaced
  <2>2. ASSUME call.previous # Top PROVE Goal
    <3>1. /\ call.previous \in DeltaItems /\ call.previous # i /\ Bucket(call.previous) = Bucket(i)
          /\ Holds(t, call.previous) /\ Holds(new, call.previous) /\ P(call.previous) = P(i) + (-1)
      BY <2>1, <2>2, <1>8
    <3>2. u = Put(t, i, After(s, i, call.previous), t.text[i])
      BY <2>1, <2>2
    <3>3. P(call.previous) = P(i) - 1
      BY <3>1, <1>5
    <3> QED
      BY <3>1, <3>2, <3>3, <2>1, <1>f
  <2>3. ASSUME call.previous = Top, call.next # Top PROVE Goal
    <3>1. /\ call.next \in DeltaItems /\ call.next # i /\ Bucket(call.next) = Bucket(i) /\ Holds(t, call.next)
          /\ Holds(new, call.next) /\ P(call.next) = P(i) + 1
      BY <2>1, <2>3, <1>8
    <3>2. u = Put(t, i, Before(s, i, call.next), t.text[i])
      BY <2>1, <2>3
    <3> QED
      BY <3>1, <3>2, <2>1, <1>b
  <2>4. ASSUME call.previous = Top, call.next = Top PROVE Goal
    <3>1. u = Put(t, i, s, t.text[i]) /\ t.text[i] \in Texts
      BY <2>1, <2>4, <1>t
    <3>2. Position(u, a) = T(a) /\ Position(u, i) = T(i)
      BY <3>1, <2>1, <1>s
    <3> QED
      BY <3>2, <2>1, <1>11
  <2> QED
    BY <2>2, <2>3, <2>4
<1>17. Goal
  <2>1. call.kind # "delete"
    BY DEF call
  <2> HIDE DEF Goal
  <2> QED
    BY <2>1, <1>1, <1>13, <1>14, <1>15, <1>16
<1> QED
  BY <1>17 DEF u, call, i, P

\* A call of a plan changes nothing where the collection is as desired.
LEMMA CallStays ==
    ASSUME NEW old, NEW new, NEW ops, NEW t, NEW n, NEW m, Reached(old, new, ops, t, n, m), t = new
    PROVE  Sent(Calls(ops[n], new)[m], t, new) = t
<1> DEFINE call == Calls(ops[n], new)[m]
           i == ops[n].item
           u == Sent(call, t, new)
           s == t.order[Bucket(i)]
<1> USE DEF Reached
<1>1. /\ call.item = i /\ i \in DeltaItems
      /\ call.previous = ops[n].previous /\ call.next = ops[n].next
      /\ ops[n].kind # "delete" => /\ Holds(new, i)
                                   /\ ops[n].previous = Neighbour(new, i, -1)
                                   /\ ops[n].next = Neighbour(new, i, 1)
      /\ \/ call.kind = "delete" /\ Holds(t, i) /\ ~ Holds(new, i)
         \/ call.kind = "post" /\ ops[n].kind = "create" /\ ~ Holds(t, i)
         \/ call.kind = "place" /\ ops[n].kind = "create" /\ ops[n].next # Top
         \/ call.kind = "finish" /\ ops[n].kind = "create" /\ new.text[i] = "scripted"
         \/ call.kind = "patch" /\ ops[n].kind = "patch"
         \/ call.kind = "move" /\ ops[n].kind = "move"
  BY CallReady
<1>2. t \in Collections
  OBVIOUS
<1>3. ops[n].kind \in {"create", "patch", "move"} /\ Holds(t, i)
  BY <1>1
<1>4. \A d \in {-1, 1} : LET x == Neighbour(new, i, d) IN
         x # Top => x \in ToSet(s) /\ Place(s, x) = Place(s, i) + d
  <2> SUFFICES ASSUME NEW d \in {-1, 1}, Neighbour(t, i, d) # Top
               PROVE  Neighbour(t, i, d) \in ToSet(s) /\ Place(s, Neighbour(t, i, d)) = Place(s, i) + d
    OBVIOUS
  <2> DEFINE x == Neighbour(t, i, d)
  <2>1. x \in DeltaItems /\ Bucket(x) = Bucket(i) /\ Holds(t, x) /\ Position(t, x) = Position(t, i) + d
    BY <1>1, <1>2, <1>3, NeighbourOK
  <2> HIDE DEF x
  <2>2. x \in ToSet(s) /\ Place(s, x) = Position(t, x) /\ Place(s, i) = Position(t, i)
    BY <2>1, <1>1, <1>2, BucketOK
  <2> QED
    BY <2>1, <2>2 DEF x
<1>5. /\ s \in Seq(DeltaItems) /\ IsInjective(s) /\ i \in ToSet(s)
      /\ \A k \in ToSet(s) : Place(s, k) \in 1..Len(s)
  <2>1. s \in Seq(DeltaItems) /\ IsInjective(s) /\ i \in ToSet(s)
    BY <1>1, <1>2, <1>3, BucketOK
  <2> QED
    BY <2>1, PlaceOK
<1>6. \A x \in ToSet(s) : /\ Place(s, x) = Place(s, i) + 1 => Before(s, i, x) = s
                          /\ Place(s, x) = Place(s, i) + (-1) => After(s, i, x) = s
  <2>1. \A x \in ToSet(s) : /\ Place(s, x) = Place(s, i) + 1 => Before(s, i, x) = s
                            /\ Place(s, x) = Place(s, i) - 1 => After(s, i, x) = s
    BY <1>5, NeighboursStay
  <2>2. Place(s, i) + (-1) = Place(s, i) - 1
    BY <1>5
  <2> QED
    BY <2>1, <2>2
<1>7. Put(t, i, s, t.text[i]) = t
  BY <1>1, <1>2, PutSame
<1>8. /\ call.kind = "finish" => u = Put(t, i, s, "scripted")
      /\ call.kind = "patch" => u = Put(t, i, s, new.text[i])
      /\ call.kind = "place" => u = Put(t, i, Before(s, i, call.next), t.text[i])
      /\ call.kind = "move" =>
            u = Put(t, i, IF call.previous # Top THEN After(s, i, call.previous)
                          ELSE IF call.next # Top THEN Before(s, i, call.next) ELSE s, t.text[i])
  <2>1. t \in Collections /\ call.item \in DeltaItems
    BY <1>1, <1>2
  <2> HIDE DEF call
  <2>2. /\ call.kind = "finish" => u = Put(t, call.item, t.order[Bucket(call.item)], "scripted")
        /\ call.kind = "patch" => u = Put(t, call.item, t.order[Bucket(call.item)], new.text[call.item])
        /\ call.kind = "place" =>
              u = Put(t, call.item, Before(t.order[Bucket(call.item)], call.item, call.next), t.text[call.item])
        /\ call.kind = "move" =>
              u = Put(t, call.item,
                      IF call.previous # Top THEN After(t.order[Bucket(call.item)], call.item, call.previous)
                      ELSE IF call.next # Top THEN Before(t.order[Bucket(call.item)], call.item, call.next)
                      ELSE t.order[Bucket(call.item)], t.text[call.item])
    BY <2>1, SentIs
  <2> QED
    BY <2>2, <1>1
<1> HIDE DEF call, u, s, i, Reached
<1>9. CASE call.kind \in {"finish", "patch"}
  <2>1. u = Put(t, i, s, t.text[i])
    BY <1>1, <1>8, <1>9
  <2> QED
    BY <2>1, <1>7 DEF u, call
<1>10. CASE call.kind = "place"
  <2>1. call.next = Neighbour(new, i, 1) /\ call.next # Top
    BY <1>1, <1>10
  <2>2. Before(s, i, call.next) = s
    BY <2>1, <1>4, <1>6
  <2> QED
    BY <2>2, <1>7, <1>8, <1>10 DEF u, call
<1>11. CASE call.kind = "move"
  <2>1. call.previous = Neighbour(new, i, -1) /\ call.next = Neighbour(new, i, 1)
    BY <1>1, <1>11
  <2>2. call.next # Top => Before(s, i, call.next) = s
    BY <2>1, <1>4, <1>6
  <2>3. call.previous # Top => After(s, i, call.previous) = s
    BY <2>1, <1>4, <1>6
  <2> QED
    BY <2>2, <2>3, <1>7, <1>8, <1>11 DEF u, call
<1> QED
  BY <1>1, <1>3, <1>9, <1>10, <1>11

\* Every call leaves what the next one, and the end of the plan, rely on.
LEMMA CallProgress ==
    ASSUME NEW old, NEW new, NEW ops, NEW t, NEW n, NEW m, Reached(old, new, ops, t, n, m)
    PROVE  LET u == Sent(Calls(ops[n], new)[m], t, new)
               n2 == IF m < Len(Calls(ops[n], new)) THEN n ELSE n + 1
               m2 == IF m < Len(Calls(ops[n], new)) THEN m + 1 ELSE 1 IN
           /\ u \in Collections
           /\ DeltaHeld(old, new, ops, u, n2, m2)
           /\ DeltaTexts(new, ops, t, n, m) => DeltaTexts(new, ops, u, n2, m2)
           /\ DeltaOrdered(new, ops, t, n, m) => DeltaOrdered(new, ops, u, n2, m2)
<1> DEFINE call == Calls(ops[n], new)[m]
           i == ops[n].item
           more == m < Len(Calls(ops[n], new))
           u == Sent(call, t, new)
           n2 == IF more THEN n ELSE n + 1
           m2 == IF more THEN m + 1 ELSE 1
<1>1. /\ i \in DeltaItems
      /\ \/ /\ call.kind = "delete" /\ ops[n].kind = "delete" /\ m = 1 /\ ~ more
            /\ Holds(old, i) /\ Holds(t, i) /\ ~ Holds(new, i)
         \/ /\ call.kind = "post" /\ ops[n].kind = "create" /\ m = 1
            /\ ~ Holds(old, i) /\ ~ Holds(t, i) /\ (more <=> ops[n].next # Top \/ new.text[i] = "scripted")
         \/ /\ call.kind = "place" /\ ops[n].kind = "create" /\ m = 2
            /\ Holds(t, i) /\ ops[n].next # Top /\ (more <=> new.text[i] = "scripted")
         \/ /\ call.kind = "finish" /\ ops[n].kind = "create" /\ m > 1 /\ ~ more
            /\ Holds(t, i) /\ new.text[i] = "scripted" /\ ~ UnPlaced(ops, n, m, i)
         \/ /\ call.kind \in {"patch", "move"} /\ ops[n].kind = call.kind /\ m = 1 /\ ~ more
            /\ Holds(old, i) /\ Holds(t, i)
      /\ ops[n].kind # "delete" => Holds(new, i)
  BY CallReady DEF Reached
<1>2. /\ u \in Collections /\ Undisturbed(t, u, i)
      /\ \A j \in DeltaItems : /\ Holds(u, j) <=> IF j = i THEN call.kind # "delete" ELSE Holds(t, j)
                               /\ j # i => u.text[j] = t.text[j]
      /\ call.kind = "post" => u.text[i] = IF new.text[i] = "scripted" THEN "plain" ELSE new.text[i]
      /\ call.kind = "finish" => u.text[i] = "scripted"
      /\ call.kind = "patch" => u.text[i] = new.text[i]
      /\ call.kind \in {"place", "move"} => u.text[i] = t.text[i]
  BY CallEffect
<1>3. m \in Nat \ {0}
  <2>1. Len(Calls(ops[n], new)) \in 1..3
    <3>1. ops[n] \in DeltaOps
      BY DEF DeltaPlanOK, Reached
    <3> QED
      BY <3>1, CallsOK
  <2> QED
    BY <2>1 DEF Reached
<1>4. /\ more => n2 = n /\ m2 = m + 1
      /\ ~ more => n2 = n + 1 /\ m2 = 1
  OBVIOUS
<1> HIDE DEF n2, m2, u, more, call, i
<1>5. /\ \A kind, j : kind # ops[n].kind \/ j # i \/ m > 1 =>
            (Due(ops, n2, m2, kind, j) <=> Due(ops, n, m, kind, j))
      /\ m = 1 => Due(ops, n, m, ops[n].kind, i)
      /\ ~ Due(ops, n2, m2, ops[n].kind, i)
  <2>1. DeltaPlanOK(old, new, ops) /\ n \in DOMAIN ops
    BY DEF Reached
  <2>2. (n2 = n /\ m2 = m + 1) \/ (n2 = n + 1 /\ m2 = 1)
    BY <1>4
  <2> QED
    BY <2>1, <2>2, <1>3, DueOK DEF i
<1>6. DeltaHeld(old, new, ops, u, n2, m2)
  <2> SUFFICES ASSUME NEW j \in DeltaItems
               PROVE  Holds(u, j) <=> IF Holds(old, j) THEN Holds(new, j) \/ Due(ops, n2, m2, "delete", j)
                                      ELSE Holds(new, j) /\ ~ Due(ops, n2, m2, "create", j)
    BY DEF DeltaHeld
  <2>1. Holds(t, j) <=> IF Holds(old, j) THEN Holds(new, j) \/ Due(ops, n, m, "delete", j)
                        ELSE Holds(new, j) /\ ~ Due(ops, n, m, "create", j)
    BY DEF DeltaHeld, Reached
  <2>2. CASE j # i
    BY <2>1, <2>2, <1>2, <1>5
  <2>3. CASE j = i /\ call.kind = "delete"
    BY <2>3, <1>1, <1>2, <1>5
  <2>4. CASE j = i /\ call.kind = "post"
    BY <2>4, <1>1, <1>2, <1>5
  <2>5. CASE j = i /\ call.kind \in {"place", "finish", "patch", "move"}
    <3>1. Holds(u, i) /\ Holds(t, i) /\ (ops[n].kind # "create" \/ m > 1) /\ ops[n].kind # "delete"
      BY <2>5, <1>1, <1>2
    <3>2. /\ Due(ops, n2, m2, "delete", i) <=> Due(ops, n, m, "delete", i)
          /\ Due(ops, n2, m2, "create", i) <=> Due(ops, n, m, "create", i)
      BY <3>1, <1>5
    <3> QED
      BY <3>1, <3>2, <2>1, <2>5
  <2> QED
    BY <2>2, <2>3, <2>4, <2>5, <1>1
<1>7. ASSUME DeltaTexts(new, ops, t, n, m) PROVE DeltaTexts(new, ops, u, n2, m2)
  <2> SUFFICES ASSUME NEW j \in DeltaItems, Holds(u, j), Holds(new, j)
               PROVE  \/ u.text[j] = new.text[j]
                      \/ Due(ops, n2, m2, "patch", j)
                      \/ m2 > 1 /\ ops[n2].item = j /\ new.text[j] = "scripted"
    BY DEF DeltaTexts
  <2>1. Holds(t, j) => \/ t.text[j] = new.text[j]
                       \/ Due(ops, n, m, "patch", j)
                       \/ m > 1 /\ i = j /\ new.text[j] = "scripted"
    BY <1>7 DEF DeltaTexts, i
  <2>2. CASE j # i
    BY <2>1, <2>2, <1>2, <1>5
  <2>3. CASE j = i /\ call.kind = "delete"
    BY <2>3, <1>1
  <2>4. CASE j = i /\ call.kind = "post"
    <3>1. CASE new.text[i] = "scripted"
      <4>1. m = 1 /\ more
        BY <3>1, <2>4, <1>1
      <4>2. n2 = n /\ m2 = 2
        BY <4>1, <1>4
      <4>3. m2 > 1 /\ ops[n2].item = j
        BY <4>2, <2>4 DEF i
      <4> QED
        BY <4>3, <3>1, <2>4
    <3>2. CASE new.text[i] # "scripted"
      BY <3>2, <2>4, <1>2
    <3> QED
      BY <3>1, <3>2
  <2>5. CASE j = i /\ call.kind = "place"
    <3>1. u.text[j] = t.text[j] /\ Holds(t, j) /\ m = 2 /\ ops[n].kind = "create"
      BY <2>5, <1>1, <1>2
    <3>2. CASE new.text[i] = "scripted"
      <4>1. more
        BY <3>2, <2>5, <1>1
      <4>2. n2 = n /\ m2 = 3
        BY <3>1, <4>1, <1>4
      <4>3. m2 > 1 /\ ops[n2].item = j
        BY <4>2, <2>5 DEF i
      <4> QED
        BY <4>3, <3>2, <2>5
    <3>3. CASE new.text[i] # "scripted"
      <4>1. Due(ops, n2, m2, "patch", j) <=> Due(ops, n, m, "patch", j)
        BY <3>1, <1>5
      <4> QED
        BY <4>1, <3>1, <3>3, <2>1, <2>5
    <3> QED
      BY <3>2, <3>3
  <2>6. CASE j = i /\ call.kind \in {"finish", "patch"}
    BY <2>6, <1>1, <1>2
  <2>7. CASE j = i /\ call.kind = "move"
    <3>1. u.text[j] = t.text[j] /\ Holds(t, j) /\ m = 1 /\ ops[n].kind = "move"
      BY <2>7, <1>1, <1>2
    <3>2. Due(ops, n2, m2, "patch", j) <=> Due(ops, n, m, "patch", j)
      BY <3>1, <1>5
    <3> QED
      BY <3>1, <3>2, <2>1
  <2> QED
    BY <2>2, <2>3, <2>4, <2>5, <2>6, <2>7, <1>1
<1>8. ASSUME DeltaOrdered(new, ops, t, n, m) PROVE DeltaOrdered(new, ops, u, n2, m2)
  <2>1. \A a \in DeltaItems : a # i => ~ UnPlaced(ops, n, m, a)
    BY DEF UnPlaced, i
  <2>2. ASSUME NEW a \in DeltaItems \ {i}, Bucket(a) = Bucket(i), Holds(t, a), Holds(new, a),
               Holds(u, i), ~ UnPlaced(ops, n2, m2, i)
        PROVE  /\ Position(u, a) < Position(u, i) <=> Position(new, a) < Position(new, i)
               /\ Position(u, i) < Position(u, a) <=> Position(new, i) < Position(new, a)
    <3>1. call.kind # "delete"
      BY <2>2, <1>1, <1>2
    <3>2. ~ (call.kind = "post" /\ ops[n].next # Top)
      <4> SUFFICES ASSUME call.kind = "post", ops[n].next # Top PROVE FALSE
        OBVIOUS
      <4>1. m = 1 /\ more
        BY <1>1
      <4>2. n2 = n /\ m2 = 2
        BY <4>1, <1>4
      <4> QED
        BY <4>2, <2>2 DEF UnPlaced, i
    <3> QED
      BY <3>1, <3>2, <2>2, <1>8, CallPlaces DEF call, i, u
  <2>3. \A a \in DeltaItems : a # i => (Holds(u, a) <=> Holds(t, a))
    BY <1>2
  <2> SUFFICES ASSUME NEW a \in DeltaItems, NEW b \in DeltaItems, Bucket(a) = Bucket(b),
                      Settled(new, ops, u, n2, m2, a), Settled(new, ops, u, n2, m2, b)
               PROVE  Position(u, a) < Position(u, b) <=> Position(new, a) < Position(new, b)
    BY DEF DeltaOrdered
  <2>4. /\ Holds(u, a) /\ Holds(new, a) /\ ~ UnPlaced(ops, n2, m2, a)
        /\ Holds(u, b) /\ Holds(new, b) /\ ~ UnPlaced(ops, n2, m2, b)
    BY DEF Settled
  <2>5. CASE a # i /\ b # i
    <3>1. Position(u, a) < Position(u, b) <=> Position(t, a) < Position(t, b)
      BY <2>3, <2>4, <2>5, <1>2 DEF Undisturbed
    <3>2. Settled(new, ops, t, n, m, a) /\ Settled(new, ops, t, n, m, b)
      BY <2>1, <2>3, <2>4, <2>5 DEF Settled
    <3>3. Position(t, a) < Position(t, b) <=> Position(new, a) < Position(new, b)
      BY <3>2, <1>8 DEF DeltaOrdered
    <3> QED
      BY <3>1, <3>3
  <2>6. CASE a # i /\ b = i
    BY <2>2, <2>3, <2>4, <2>6
  <2>7. CASE a = i /\ b # i
    <3>1. Bucket(b) = Bucket(i) /\ Holds(t, b)
      BY <2>3, <2>4, <2>7
    <3> QED
      BY <3>1, <2>2, <2>4, <2>7
  <2>8. CASE a = i /\ b = i
    <3>1. Position(u, i) \in 1..Len(u.order[Bucket(i)]) /\ Position(new, i) \in 1..Len(new.order[Bucket(i)])
      BY <2>4, <2>8, <1>1, <1>2, PositionOK DEF Reached
    <3>2. ~ (Position(u, i) < Position(u, i)) /\ ~ (Position(new, i) < Position(new, i))
      BY <3>1
    <3> QED
      BY <3>2, <2>8
  <2> QED
    BY <2>5, <2>6, <2>7, <2>8
<1> QED
  BY <1>2, <1>6, <1>7, <1>8 DEF n2, m2, u, more, call

\* A plan starts from the snapshot.
LEMMA PlanStarts ==
    ASSUME NEW old \in Collections, NEW new \in Collections, NEW ops, DeltaPlanOK(old, new, ops)
    PROVE  /\ DeltaHeld(old, new, ops, old, 1, 1) /\ DeltaTexts(new, ops, old, 1, 1)
           /\ ~ Reordered(old, new) => DeltaOrdered(new, ops, old, 1, 1)
<1>1. \A k \in DOMAIN ops : 1 < k \/ (1 = k /\ 1 = 1)
  BY DEF DeltaPlanOK
<1>2. \A kind, i : (\E k \in DOMAIN ops : ops[k].kind = kind /\ ops[k].item = i) => Due(ops, 1, 1, kind, i)
  BY <1>1 DEF Due
<1>3. \A i \in DeltaItems :
          /\ Holds(old, i) /\ ~ Holds(new, i) => Due(ops, 1, 1, "delete", i)
          /\ Holds(new, i) /\ ~ Holds(old, i) => Due(ops, 1, 1, "create", i)
          /\ Holds(new, i) /\ Holds(old, i) /\ old.text[i] # new.text[i] => Due(ops, 1, 1, "patch", i)
  BY <1>2 DEF DeltaPlanOK
<1>4. DeltaHeld(old, new, ops, old, 1, 1)
  BY <1>3 DEF DeltaHeld
<1>5. DeltaTexts(new, ops, old, 1, 1)
  BY <1>3 DEF DeltaTexts
<1>6. ASSUME ~ Reordered(old, new) PROVE DeltaOrdered(new, ops, old, 1, 1)
  <2> SUFFICES ASSUME NEW i \in DeltaItems, NEW j \in DeltaItems, Bucket(i) = Bucket(j),
                      Holds(old, i), Holds(new, i), Holds(old, j), Holds(new, j)
               PROVE  Position(old, i) < Position(old, j) <=> Position(new, i) < Position(new, j)
    BY DEF DeltaOrdered, Settled
  <2>1. /\ ~ (Position(old, i) < Position(old, j) /\ Position(new, j) < Position(new, i))
        /\ ~ (Position(old, j) < Position(old, i) /\ Position(new, i) < Position(new, j))
    BY <1>6 DEF Reordered
  <2>2. /\ Position(old, i) \in 1..Len(old.order[Bucket(i)]) /\ Position(new, i) \in 1..Len(new.order[Bucket(i)])
        /\ Position(old, j) \in 1..Len(old.order[Bucket(j)]) /\ Position(new, j) \in 1..Len(new.order[Bucket(j)])
        /\ Position(old, i) = Position(old, j) => i = j
        /\ Position(new, i) = Position(new, j) => i = j
    BY PositionOK
  <2>3. /\ Position(old, i) \in Nat /\ Position(new, i) \in Nat /\ Position(old, j) \in Nat /\ Position(new, j) \in Nat
    BY <2>2
  <2> QED
    BY <2>1, <2>2, <2>3
<1> QED
  BY <1>4, <1>5, <1>6

\* After its last call the collection is as desired.
LEMMA PlanEnds ==
    ASSUME NEW old \in Collections, NEW new \in Collections, NEW t \in Collections, NEW ops, NEW n \in Nat,
           DeltaPlanOK(old, new, ops), n > Len(ops),
           DeltaHeld(old, new, ops, t, n, 1), DeltaTexts(new, ops, t, n, 1), DeltaOrdered(new, ops, t, n, 1)
    PROVE  t = new
<1>1. \A kind, i : ~ Due(ops, n, 1, kind, i)
  <2>1. \A k \in DOMAIN ops : k \in Nat /\ k <= Len(ops) /\ Len(ops) \in Nat
    BY DEF DeltaPlanOK
  <2>2. \A k \in DOMAIN ops : ~ (n < k \/ n = k)
    BY <2>1
  <2> QED
    BY <2>2 DEF Due
<1>2. \A i \in DeltaItems : Holds(t, i) <=> Holds(new, i)
  BY <1>1 DEF DeltaHeld
<1>3. /\ t.text \in [DeltaItems -> Texts \cup {Gone}] /\ new.text \in [DeltaItems -> Texts \cup {Gone}]
      /\ t.order \in [Buckets -> Seq(DeltaItems)] /\ new.order \in [Buckets -> Seq(DeltaItems)]
      /\ t = [order |-> t.order, text |-> t.text] /\ new = [order |-> new.order, text |-> new.text]
  BY DEF Collections
<1>4. t.text = new.text
  <2>1. \A i \in DeltaItems : t.text[i] = new.text[i]
    BY <1>1, <1>2 DEF DeltaTexts, Holds
  <2> QED
    BY <2>1, <1>3
<1>5. ASSUME NEW b \in Buckets PROVE t.order[b] = new.order[b]
  <2> DEFINE s == t.order[b]
             v == new.order[b]
  <2>1. /\ s \in Seq(DeltaItems) /\ v \in Seq(DeltaItems) /\ IsInjective(s) /\ IsInjective(v)
        /\ ToSet(s) = {i \in DeltaItems : Bucket(i) = b /\ Holds(t, i)}
        /\ ToSet(v) = {i \in DeltaItems : Bucket(i) = b /\ Holds(new, i)}
    BY <1>3 DEF Collections
  <2> HIDE DEF s, v
  <2>2. ToSet(s) = ToSet(v)
    BY <2>1, <1>2
  <2>3. \A x, y \in ToSet(s) : Place(s, x) < Place(s, y) <=> Place(v, x) < Place(v, y)
    <3> SUFFICES ASSUME NEW x \in ToSet(s), NEW y \in ToSet(s)
                 PROVE  Place(s, x) < Place(s, y) <=> Place(v, x) < Place(v, y)
      OBVIOUS
    <3>1. /\ x \in DeltaItems /\ y \in DeltaItems /\ Bucket(x) = b /\ Bucket(y) = b
          /\ Holds(t, x) /\ Holds(t, y) /\ Holds(new, x) /\ Holds(new, y)
      BY <2>1, <1>2
    <3>2. Settled(new, ops, t, n, 1, x) /\ Settled(new, ops, t, n, 1, y)
      BY <3>1 DEF Settled, UnPlaced
    <3>3. Position(t, x) < Position(t, y) <=> Position(new, x) < Position(new, y)
      BY <3>1, <3>2 DEF DeltaOrdered
    <3>4. /\ Position(t, x) = Place(s, x) /\ Position(t, y) = Place(s, y)
          /\ Position(new, x) = Place(v, x) /\ Position(new, y) = Place(v, y)
      BY <3>1 DEF Position, s, v
    <3> QED
      BY <3>3, <3>4
  <2>4. s = v
    BY <2>1, <2>2, <2>3, SameOrderSame
  <2> QED
    BY <2>4 DEF s, v
<1>6. t.order = new.order
  BY <1>3, <1>5
<1> QED
  BY <1>3, <1>4, <1>6

DeltaType ==
    /\ delta \in [pc : DeltaStates, old : Snapshots, new : Targets, at : Nat, step : Nat, faults : 0..MaxDeltaFaults]
    /\ tree \in Collections
DeltaCalls ==
    delta.pc = "call" =>
        /\ delta.at \in 1..(Len(Operations) + 1)
        /\ IF delta.at <= Len(Operations) THEN delta.step \in 1..Len(Calls(Operations[delta.at], delta.new))
           ELSE delta.step = 1
        /\ DeltaHeld(delta.old, delta.new, Operations, tree, delta.at, delta.step)
        /\ DeltaTexts(delta.new, Operations, tree, delta.at, delta.step)
        /\ ~ Reordered(delta.old, delta.new) => DeltaOrdered(delta.new, Operations, tree, delta.at, delta.step)
DeltaFaults ==
    /\ delta.pc = "start" => tree = delta.old /\ delta.at = 1 /\ delta.step = 1
    /\ delta.pc \in {"await", "whole"} => delta.faults > 0
    /\ delta.pc = "verify" /\ delta.faults = 0 /\ ~ Reordered(delta.old, delta.new) => tree = delta.new
    /\ delta.pc \in {"undo", "mismatch"} /\ delta.faults = 0 => Reordered(delta.old, delta.new)
DeltaInv == DeltaType /\ DeltaCalls /\ DeltaFaults /\ EndsWhole

LEMMA DeltaParts ==
    DeltaType => /\ delta.pc \in DeltaStates /\ delta.at \in Nat /\ delta.step \in Nat /\ delta.faults \in Nat
                 /\ delta.faults \in 0..MaxDeltaFaults /\ MaxDeltaFaults \in Nat
                 /\ delta.old \in Collections /\ delta.new \in Collections /\ tree \in Collections
                 /\ Operations \in Seq(DeltaOps) /\ Len(Operations) \in Nat /\ DOMAIN Operations = 1..Len(Operations)
                 /\ DeltaPlanOK(delta.old, delta.new, Operations)
<1> SUFFICES ASSUME DeltaType
             PROVE  /\ delta.pc \in DeltaStates /\ delta.at \in Nat /\ delta.step \in Nat /\ delta.faults \in Nat
                    /\ delta.faults \in 0..MaxDeltaFaults /\ MaxDeltaFaults \in Nat
                    /\ delta.old \in Collections /\ delta.new \in Collections /\ tree \in Collections
                    /\ Operations \in Seq(DeltaOps) /\ Len(Operations) \in Nat /\ DOMAIN Operations = 1..Len(Operations)
                    /\ DeltaPlanOK(delta.old, delta.new, Operations)
  OBVIOUS
<1>1. /\ delta.pc \in DeltaStates /\ delta.at \in Nat /\ delta.step \in Nat /\ delta.faults \in 0..MaxDeltaFaults
      /\ delta.old \in Snapshots /\ delta.new \in Targets /\ tree \in Collections
  BY DEF DeltaType
<1>2. delta.old \in Collections /\ delta.new \in Collections
  BY <1>1, DeltaAssumption
<1>3. DeltaPlanOK(delta.old, delta.new, Operations)
  BY <1>2, DeltaPlanned DEF Operations
<1>4. Operations \in Seq(DeltaOps)
  BY <1>3 DEF DeltaPlanOK
<1>5. MaxDeltaFaults \in Nat
  BY DeltaAssumption
<1> QED
  BY <1>1, <1>2, <1>3, <1>4, <1>5

LEMMA DeltaMoves ==
    ASSUME DeltaType, NEW pc \in DeltaStates
    PROVE  /\ To(pc) => /\ delta'.pc = pc /\ delta'.old = delta.old /\ delta'.new = delta.new
                        /\ delta'.at = delta.at /\ delta'.step = delta.step /\ delta'.faults = delta.faults
                        /\ delta' \in [pc : DeltaStates, old : Snapshots, new : Targets, at : Nat, step : Nat, faults : 0..MaxDeltaFaults]
           /\ FailTo(pc) => /\ delta'.pc = pc /\ delta'.old = delta.old /\ delta'.new = delta.new
                            /\ delta'.faults > 0
                            /\ delta' \in [pc : DeltaStates, old : Snapshots, new : Targets, at : Nat, step : Nat, faults : 0..MaxDeltaFaults]
<1>1. delta \in [pc : DeltaStates, old : Snapshots, new : Targets, at : Nat, step : Nat, faults : 0..MaxDeltaFaults]
  BY DEF DeltaType
<1>2. MaxDeltaFaults \in Nat
  BY DeltaAssumption
<1>3. ASSUME To(pc)
      PROVE  /\ delta'.pc = pc /\ delta'.old = delta.old /\ delta'.new = delta.new
             /\ delta'.at = delta.at /\ delta'.step = delta.step /\ delta'.faults = delta.faults
             /\ delta' \in [pc : DeltaStates, old : Snapshots, new : Targets, at : Nat, step : Nat, faults : 0..MaxDeltaFaults]
  BY <1>1, <1>3 DEF To
<1>4. ASSUME FailTo(pc)
      PROVE  /\ delta'.pc = pc /\ delta'.old = delta.old /\ delta'.new = delta.new
             /\ delta'.faults > 0
             /\ delta' \in [pc : DeltaStates, old : Snapshots, new : Targets, at : Nat, step : Nat, faults : 0..MaxDeltaFaults]
  <2>1. delta' = [delta EXCEPT !.pc = pc, !.faults = @ + 1] /\ delta.faults < MaxDeltaFaults
    BY <1>4 DEF FailTo, Fault
  <2>2. delta.faults + 1 \in 0..MaxDeltaFaults /\ delta.faults + 1 > 0
    BY <1>1, <1>2, <2>1
  <2>3. delta'.faults = delta.faults + 1
    BY <1>1, <2>1
  <2> QED
    BY <1>1, <2>1, <2>2, <2>3
<1> QED
  BY <1>3, <1>4

LEMMA DeltaInitOK == DeltaInit => DeltaInv
<1> SUFFICES ASSUME NEW old \in Snapshots, NEW new \in Targets, tree = old,
                    delta = [pc |-> "start", old |-> old, new |-> new, at |-> 1, step |-> 1, faults |-> 0]
             PROVE  DeltaInv
  BY DEF DeltaInit
<1>1. MaxDeltaFaults \in Nat /\ old \in Collections
  BY DeltaAssumption
<1>2. 0 \in 0..MaxDeltaFaults /\ "start" \in DeltaStates
  BY <1>1 DEF DeltaStates
<1>3. DeltaType
  BY <1>1, <1>2 DEF DeltaType
<1>4. delta.pc = "start" /\ delta.at = 1 /\ delta.step = 1 /\ delta.old = old
  OBVIOUS
<1> QED
  BY <1>3, <1>4 DEF DeltaInv, DeltaCalls, DeltaFaults, EndsWhole

\* A step to a state in which no call is pending.
LEMMA LeavesCalls ==
    ASSUME DeltaInv, NEW pc \in DeltaStates \ {"start", "call"}, tree' \in Collections, To(pc) \/ FailTo(pc),
           pc \in {"await", "whole"} => delta'.faults > 0,
           pc \in {"unchanged", "delta", "fallback"} => tree' = delta.new,
           pc \in {"mismatch", "failed"} => tree' = delta.old,
           pc = "verify" /\ delta'.faults = 0 /\ ~ Reordered(delta.old, delta.new) => tree' = delta.new,
           pc \in {"undo", "mismatch"} /\ delta'.faults = 0 => Reordered(delta.old, delta.new)
    PROVE  DeltaInv'
<1>1. DeltaType /\ pc \in DeltaStates
  BY DEF DeltaInv
<1>2. /\ delta'.pc = pc /\ delta'.old = delta.old /\ delta'.new = delta.new
      /\ delta' \in [pc : DeltaStates, old : Snapshots, new : Targets, at : Nat, step : Nat, faults : 0..MaxDeltaFaults]
  BY <1>1, DeltaMoves
<1>3. DeltaType'
  BY <1>2 DEF DeltaType
<1>4. DeltaCalls'
  BY <1>2 DEF DeltaCalls
<1>5. EndsWhole'
  BY <1>2 DEF EndsWhole
<1>6. DeltaFaults'
  BY <1>2 DEF DeltaFaults
<1> QED
  BY <1>3, <1>4, <1>5, <1>6 DEF DeltaInv

LEMMA FirstOf ==
    ASSUME NEW k \in 1..3
    PROVE  1 \in 1..k
OBVIOUS

LEMMA StartKeeps == DeltaInv /\ StartDelta => DeltaInv' /\ tree' = tree
<1> SUFFICES ASSUME DeltaInv, StartDelta PROVE DeltaInv'
  BY DEF StartDelta
<1>1. /\ DeltaType /\ delta.pc = "start" /\ tree' = tree /\ tree = delta.old /\ delta.at = 1 /\ delta.step = 1
  BY DEF DeltaInv, DeltaFaults, StartDelta
<1>2. tree' \in Collections /\ {"unchanged", "direct", "again", "refused", "call"} \subseteq DeltaStates
  BY <1>1, DeltaParts DEF DeltaStates
<1>3. \/ delta.old = delta.new /\ To("unchanged")
      \/ To("direct") \/ To("call") \/ FailTo("again") \/ FailTo("refused")
  BY DEF StartDelta
<1>4. CASE delta.old = delta.new /\ To("unchanged")
  <2>1. "unchanged" \in DeltaStates \ {"start", "call"}
    BY <1>2
  <2> QED
    BY <2>1, <1>1, <1>2, <1>4, LeavesCalls
<1>5. CASE To("direct")
  <2>1. "direct" \in DeltaStates \ {"start", "call"}
    BY <1>2
  <2> QED
    BY <2>1, <1>2, <1>5, LeavesCalls
<1>6. CASE FailTo("again")
  <2>1. "again" \in DeltaStates \ {"start", "call"}
    BY <1>2
  <2> QED
    BY <2>1, <1>2, <1>6, LeavesCalls
<1>7. CASE FailTo("refused")
  <2>1. "refused" \in DeltaStates \ {"start", "call"}
    BY <1>2
  <2> QED
    BY <2>1, <1>2, <1>7, LeavesCalls
<1>8. CASE To("call")
  <2>1. /\ delta'.pc = "call" /\ delta'.old = delta.old /\ delta'.new = delta.new
        /\ delta'.at = 1 /\ delta'.step = 1
        /\ delta' \in [pc : DeltaStates, old : Snapshots, new : Targets, at : Nat, step : Nat, faults : 0..MaxDeltaFaults]
    BY <1>1, <1>2, <1>8, DeltaMoves
  <2>2. Operations' = Operations
    BY <2>1 DEF Operations
  <2>3. /\ delta.old \in Collections /\ delta.new \in Collections /\ DeltaPlanOK(delta.old, delta.new, Operations)
        /\ Len(Operations) \in Nat /\ DOMAIN Operations = 1..Len(Operations)
    BY <1>1, DeltaParts
  <2>4. /\ DeltaHeld(delta.old, delta.new, Operations, delta.old, 1, 1)
        /\ DeltaTexts(delta.new, Operations, delta.old, 1, 1)
        /\ ~ Reordered(delta.old, delta.new) => DeltaOrdered(delta.new, Operations, delta.old, 1, 1)
    BY <2>3, PlanStarts
  <2>5. 1 <= Len(Operations) => 1 \in 1..Len(Calls(Operations[1], delta.new))
    <3> SUFFICES ASSUME 1 <= Len(Operations) PROVE 1 \in 1..Len(Calls(Operations[1], delta.new))
      OBVIOUS
    <3>1. Operations[1] \in DeltaOps
      BY <2>3 DEF DeltaPlanOK
    <3>2. Len(Calls(Operations[1], delta.new)) \in 1..3
      BY <3>1, CallsOK
    <3> QED
      BY <3>2, FirstOf
  <2>6. DeltaCalls'
    <3>1. 1 \in 1..(Len(Operations) + 1)
      BY <2>3
    <3> QED
      BY <3>1, <2>1, <2>2, <2>4, <2>5, <1>1 DEF DeltaCalls
  <2>7. DeltaType'
    BY <2>1, <1>2 DEF DeltaType
  <2>8. DeltaFaults' /\ EndsWhole'
    BY <2>1 DEF DeltaFaults, EndsWhole
  <2> QED
    BY <2>6, <2>7, <2>8 DEF DeltaInv
<1> QED
  BY <1>3, <1>4, <1>5, <1>6, <1>7, <1>8

\* What the invariant says of a call.
LEMMA CallReached ==
    ASSUME DeltaInv, delta.pc = "call", delta.at <= Len(Operations)
    PROVE  /\ Reached(delta.old, delta.new, Operations, tree, delta.at, delta.step)
           /\ DeltaTexts(delta.new, Operations, tree, delta.at, delta.step)
           /\ ~ Reordered(delta.old, delta.new) => DeltaOrdered(delta.new, Operations, tree, delta.at, delta.step)
           /\ Len(Calls(Operations[delta.at], delta.new)) \in Nat
<1>1. DeltaType /\ DeltaCalls
  BY DEF DeltaInv
<1>2. /\ delta.old \in Collections /\ delta.new \in Collections /\ tree \in Collections
      /\ DeltaPlanOK(delta.old, delta.new, Operations)
      /\ DOMAIN Operations = 1..Len(Operations) /\ Len(Operations) \in Nat /\ delta.at \in Nat
  BY <1>1, DeltaParts
<1>3. /\ delta.at \in 1..(Len(Operations) + 1)
      /\ delta.step \in 1..Len(Calls(Operations[delta.at], delta.new))
      /\ DeltaHeld(delta.old, delta.new, Operations, tree, delta.at, delta.step)
      /\ DeltaTexts(delta.new, Operations, tree, delta.at, delta.step)
      /\ ~ Reordered(delta.old, delta.new) => DeltaOrdered(delta.new, Operations, tree, delta.at, delta.step)
  BY <1>1 DEF DeltaCalls
<1>4. delta.at \in DOMAIN Operations
  BY <1>2, <1>3
<1>5. Operations[delta.at] \in DeltaOps
  BY <1>2, <1>4 DEF DeltaPlanOK
<1>6. Len(Calls(Operations[delta.at], delta.new)) \in 1..3
  BY <1>5, CallsOK
<1> QED
  BY <1>2, <1>3, <1>4, <1>6 DEF Reached

LEMMA SendKeeps == DeltaInv /\ SendCall => DeltaInv' /\ (tree = delta.new => tree' = tree)
<1> SUFFICES ASSUME DeltaInv, SendCall PROVE DeltaInv' /\ (tree = delta.new => tree' = tree)
  OBVIOUS
<1> DEFINE calls == Calls(Operations[delta.at], delta.new)
           sent == Sent(calls[delta.step], tree, delta.new)
<1>1. /\ delta.pc = "call" /\ delta.at <= Len(Operations)
      /\ \/ /\ tree' = sent
            /\ delta' = IF delta.step < Len(calls) THEN [delta EXCEPT !.step = @ + 1]
                        ELSE [delta EXCEPT !.at = @ + 1, !.step = 1]
         \/ FailTo("refused") /\ UNCHANGED tree
         \/ FailTo("again") /\ tree' \in {tree, sent}
         \/ FailTo("await") /\ tree' \in {tree, sent}
  BY DEF SendCall
<1>2. /\ Reached(delta.old, delta.new, Operations, tree, delta.at, delta.step)
      /\ DeltaTexts(delta.new, Operations, tree, delta.at, delta.step)
      /\ ~ Reordered(delta.old, delta.new) => DeltaOrdered(delta.new, Operations, tree, delta.at, delta.step)
      /\ Len(calls) \in Nat
  BY <1>1, CallReached
<1>3. DeltaType
  BY DEF DeltaInv
<1> DEFINE at2 == IF delta.step < Len(calls) THEN delta.at ELSE delta.at + 1
           step2 == IF delta.step < Len(calls) THEN delta.step + 1 ELSE 1
<1>4. /\ sent \in Collections
      /\ DeltaHeld(delta.old, delta.new, Operations, sent, at2, step2)
      /\ DeltaTexts(delta.new, Operations, sent, at2, step2)
      /\ ~ Reordered(delta.old, delta.new) => DeltaOrdered(delta.new, Operations, sent, at2, step2)
  <2>1. Reached(delta.old, delta.new, Operations, tree, delta.at, delta.step)
    BY <1>2
  <2>2. /\ sent \in Collections
        /\ DeltaHeld(delta.old, delta.new, Operations, sent, at2, step2)
        /\ DeltaTexts(delta.new, Operations, tree, delta.at, delta.step) => DeltaTexts(delta.new, Operations, sent, at2, step2)
        /\ DeltaOrdered(delta.new, Operations, tree, delta.at, delta.step) => DeltaOrdered(delta.new, Operations, sent, at2, step2)
    BY <2>1, CallProgress
  <2> HIDE DEF at2, step2, sent
  <2> QED
    BY <2>2, <1>2
<1>5. tree = delta.new => sent = tree
  BY <1>2, CallStays
<1>6. tree \in Collections
  BY <1>3, DeltaParts
<1> HIDE DEF calls, sent
<1>7. CASE FailTo("refused") /\ UNCHANGED tree
  <2>1. "refused" \in DeltaStates \ {"start", "call"}
    BY DEF DeltaStates
  <2> QED
    BY <2>1, <1>6, <1>7, LeavesCalls
<1>8. CASE FailTo("again") /\ tree' \in {tree, sent}
  <2>1. "again" \in DeltaStates \ {"start", "call"}
    BY DEF DeltaStates
  <2> QED
    BY <2>1, <1>4, <1>5, <1>6, <1>8, LeavesCalls
<1>9. CASE FailTo("await") /\ tree' \in {tree, sent}
  <2>1. "await" \in DeltaStates \ {"start", "call"} /\ "await" \in DeltaStates
    BY DEF DeltaStates
  <2>2. delta'.faults > 0
    BY <2>1, <1>3, <1>9, DeltaMoves
  <2> QED
    BY <2>1, <2>2, <1>4, <1>5, <1>6, <1>9, LeavesCalls
<1>10. CASE /\ tree' = sent
            /\ delta' = IF delta.step < Len(calls) THEN [delta EXCEPT !.step = @ + 1]
                        ELSE [delta EXCEPT !.at = @ + 1, !.step = 1]
  <2>1. delta \in [pc : DeltaStates, old : Snapshots, new : Targets, at : Nat, step : Nat, faults : 0..MaxDeltaFaults]
    BY <1>3 DEF DeltaType
  <2>2. /\ delta' \in [pc : DeltaStates, old : Snapshots, new : Targets, at : Nat, step : Nat, faults : 0..MaxDeltaFaults]
        /\ delta'.pc = "call" /\ delta'.old = delta.old /\ delta'.new = delta.new
        /\ delta'.at = at2 /\ delta'.step = step2
    <3>1. CASE delta.step < Len(calls)
      <4>1. delta' = [delta EXCEPT !.step = delta.step + 1]
        BY <3>1, <1>10
      <4> QED
        BY <4>1, <3>1, <2>1, <1>1
    <3>2. CASE ~ (delta.step < Len(calls))
      <4>1. delta' = [delta EXCEPT !.at = delta.at + 1, !.step = 1]
        BY <3>2, <1>10
      <4>2. /\ delta' \in [pc : DeltaStates, old : Snapshots, new : Targets, at : Nat, step : Nat, faults : 0..MaxDeltaFaults]
            /\ delta'.pc = delta.pc /\ delta'.old = delta.old /\ delta'.new = delta.new
            /\ delta'.at = delta.at + 1 /\ delta'.step = 1
        <5> DEFINE e == delta.at + 1
        <5>1. e \in Nat /\ 1 \in Nat
          BY <2>1
        <5>2. delta' = [delta EXCEPT !.at = e, !.step = 1]
          BY <4>1
        <5> HIDE DEF e
        <5>3. /\ delta' \in [pc : DeltaStates, old : Snapshots, new : Targets, at : Nat, step : Nat, faults : 0..MaxDeltaFaults]
              /\ delta'.pc = delta.pc /\ delta'.old = delta.old /\ delta'.new = delta.new
              /\ delta'.at = e /\ delta'.step = 1
          BY <5>1, <5>2, <2>1
        <5> QED
          BY <5>3 DEF e
      <4> QED
        BY <4>2, <3>2, <1>1
    <3> QED
      BY <3>1, <3>2
  <2>3. Operations' = Operations
    BY <2>2 DEF Operations
  <2>4. /\ delta.at \in Nat /\ delta.step \in Nat /\ Len(Operations) \in Nat /\ DOMAIN Operations = 1..Len(Operations)
        /\ DeltaPlanOK(delta.old, delta.new, Operations)
    BY <1>3, DeltaParts
  <2>5. /\ at2 \in 1..(Len(Operations) + 1)
        /\ IF at2 <= Len(Operations) THEN step2 \in 1..Len(Calls(Operations[at2], delta.new)) ELSE step2 = 1
    <3>1. delta.at \in 1..Len(Operations)
      BY <1>2, <2>4 DEF Reached
    <3>2. CASE delta.step < Len(calls)
      <4>1. at2 = delta.at /\ step2 = delta.step + 1
        BY <3>2
      <4>2. step2 \in 1..Len(calls)
        BY <4>1, <3>2, <2>4, <1>2
      <4> QED
        BY <4>1, <4>2, <3>1, <2>4 DEF calls
    <3>3. CASE ~ (delta.step < Len(calls))
      <4>1. at2 = delta.at + 1 /\ step2 = 1
        BY <3>3
      <4>2. at2 \in 1..(Len(Operations) + 1)
        BY <4>1, <3>1, <2>4
      <4>3. at2 <= Len(Operations) => 1 \in 1..Len(Calls(Operations[at2], delta.new))
        <5> SUFFICES ASSUME at2 <= Len(Operations) PROVE 1 \in 1..Len(Calls(Operations[at2], delta.new))
          OBVIOUS
        <5> HIDE DEF at2
        <5>1. at2 \in 1..Len(Operations)
          BY <4>2, <2>4
        <5>2. Operations[at2] \in DeltaOps
          BY <5>1, <2>4 DEF DeltaPlanOK
        <5>3. Len(Calls(Operations[at2], delta.new)) \in 1..3
          BY <5>2, CallsOK
        <5> QED
          BY <5>3, FirstOf
      <4> QED
        BY <4>1, <4>2, <4>3
    <3> QED
      BY <3>2, <3>3
  <2> HIDE DEF at2, step2
  <2>6. DeltaCalls'
    BY <2>2, <2>3, <2>5, <1>4, <1>10 DEF DeltaCalls
  <2>7. DeltaType'
    BY <2>2, <1>4, <1>10 DEF DeltaType
  <2>8. DeltaFaults' /\ EndsWhole'
    BY <2>2 DEF DeltaFaults, EndsWhole
  <2> QED
    BY <2>6, <2>7, <2>8, <1>5, <1>10 DEF DeltaInv
<1> QED
  BY <1>1, <1>7, <1>8, <1>9, <1>10 DEF calls, sent

LEMMA EndKeeps == DeltaInv /\ CallsEnd => DeltaInv' /\ tree' = tree
<1> SUFFICES ASSUME DeltaInv, CallsEnd PROVE DeltaInv'
  BY DEF CallsEnd
<1>1. /\ DeltaType /\ DeltaCalls /\ delta.pc = "call" /\ delta.at > Len(Operations) /\ To("verify") /\ tree' = tree
  BY DEF DeltaInv, CallsEnd
<1>2. /\ delta.old \in Collections /\ delta.new \in Collections /\ tree \in Collections
      /\ DeltaPlanOK(delta.old, delta.new, Operations) /\ Len(Operations) \in Nat /\ delta.at \in Nat
  BY <1>1, DeltaParts
<1>3. /\ delta.step = 1
      /\ DeltaHeld(delta.old, delta.new, Operations, tree, delta.at, 1)
      /\ DeltaTexts(delta.new, Operations, tree, delta.at, 1)
      /\ ~ Reordered(delta.old, delta.new) => DeltaOrdered(delta.new, Operations, tree, delta.at, 1)
  <2>1. ~ (delta.at <= Len(Operations))
    BY <1>1, <1>2
  <2> QED
    BY <2>1, <1>1 DEF DeltaCalls
<1>4. ~ Reordered(delta.old, delta.new) => tree = delta.new
  BY <1>1, <1>2, <1>3, PlanEnds
<1>5. "verify" \in DeltaStates \ {"start", "call"}
  BY DEF DeltaStates
<1> QED
  BY <1>1, <1>2, <1>4, <1>5, LeavesCalls

LEMMA AwaitKeeps == DeltaInv /\ AwaitDigest => DeltaInv' /\ tree' = tree
<1> SUFFICES ASSUME DeltaInv, AwaitDigest PROVE DeltaInv'
  BY DEF AwaitDigest
<1>1. /\ DeltaType /\ delta.faults > 0 /\ tree' = tree
      /\ (tree = delta.new /\ To("verify")) \/ FailTo("whole") \/ To("whole")
  BY DEF DeltaInv, DeltaFaults, AwaitDigest
<1>2. tree \in Collections /\ "verify" \in DeltaStates \ {"start", "call"} /\ "whole" \in DeltaStates \ {"start", "call"}
  BY <1>1, DeltaParts DEF DeltaStates
<1>3. CASE tree = delta.new /\ To("verify")
  BY <1>1, <1>2, <1>3, LeavesCalls
<1>4. CASE FailTo("whole") \/ To("whole")
  <2>1. delta'.faults > 0
    BY <1>1, <1>2, <1>4, DeltaMoves
  <2> QED
    BY <2>1, <1>1, <1>2, <1>4, LeavesCalls
<1> QED
  BY <1>1, <1>3, <1>4

LEMMA VerifyKeeps == DeltaInv /\ VerifyDigest => DeltaInv' /\ tree' = tree
<1> SUFFICES ASSUME DeltaInv, VerifyDigest PROVE DeltaInv'
  BY DEF VerifyDigest
<1>1. /\ DeltaType /\ tree' = tree /\ delta.faults \in Nat
      /\ delta.faults = 0 /\ ~ Reordered(delta.old, delta.new) => tree = delta.new
      /\ \/ tree = delta.new /\ To("delta")
         \/ FailTo("undo")
         \/ tree # delta.new /\ To("undo")
  BY DeltaParts DEF DeltaInv, DeltaFaults, VerifyDigest
<1>2. tree \in Collections /\ "delta" \in DeltaStates \ {"start", "call"} /\ "undo" \in DeltaStates \ {"start", "call"}
  BY <1>1, DeltaParts DEF DeltaStates
<1>3. CASE tree = delta.new /\ To("delta")
  BY <1>1, <1>2, <1>3, LeavesCalls
<1>4. CASE FailTo("undo")
  <2>1. delta'.faults > 0
    BY <1>1, <1>2, <1>4, DeltaMoves
  <2> QED
    BY <2>1, <1>1, <1>2, <1>4, LeavesCalls
<1>5. CASE tree # delta.new /\ To("undo")
  <2>1. delta'.faults = delta.faults
    BY <1>1, <1>2, <1>5, DeltaMoves
  <2> QED
    BY <2>1, <1>1, <1>2, <1>5, LeavesCalls
<1> QED
  BY <1>1, <1>3, <1>4, <1>5

LEMMA WholeKeeps ==
    ASSUME DeltaInv, NEW target \in Collections, NEW done \in DeltaStates \ {"start", "call"},
           done \in {"fallback", "mismatch", "failed"},
           NEW refused \in {"refused", "restore"}, NEW failed \in {"refused", "again", "restore"},
           done = "fallback" => target = delta.new,
           done \in {"mismatch", "failed"} => target = delta.old,
           done = "mismatch" /\ delta.faults = 0 => Reordered(delta.old, delta.new),
           Whole(target, done, refused, failed)
    PROVE  DeltaInv' /\ tree' \in {tree, target}
<1>1. DeltaType /\ tree \in Collections
  BY DeltaParts DEF DeltaInv
<1>2. /\ \/ tree' = target /\ To(done)
         \/ tree' \in {tree, target} /\ FailTo(refused)
         \/ tree' \in {tree, target} /\ FailTo(failed)
  BY DEF Whole
<1>3. /\ refused \in DeltaStates \ {"start", "call"} /\ failed \in DeltaStates \ {"start", "call"}
  BY DEF DeltaStates
<1>4. CASE tree' = target /\ To(done)
  <2>1. delta'.faults = delta.faults
    BY <1>1, <1>4, DeltaMoves
  <2> QED
    BY <2>1, <1>4, LeavesCalls
<1>5. CASE tree' \in {tree, target} /\ FailTo(refused)
  BY <1>1, <1>3, <1>5, LeavesCalls
<1>6. CASE tree' \in {tree, target} /\ FailTo(failed)
  BY <1>1, <1>3, <1>6, LeavesCalls
<1> QED
  BY <1>2, <1>4, <1>5, <1>6

LEMMA WholesKeep ==
    ASSUME DeltaInv
    PROVE  /\ WholeDirect \/ WholeAfterAmbiguous \/ WholeInCatch => DeltaInv' /\ (tree = delta.new => tree' = tree)
           /\ UndoMismatch \/ RestoreInCatch => DeltaInv' /\ delta.pc \in {"undo", "restore"}
<1>1. delta.old \in Collections /\ delta.new \in Collections
  BY DeltaParts DEF DeltaInv
<1>2. /\ "fallback" \in DeltaStates \ {"start", "call"} /\ "mismatch" \in DeltaStates \ {"start", "call"}
      /\ "failed" \in DeltaStates \ {"start", "call"}
  BY DEF DeltaStates
<1>3. ASSUME WholeDirect PROVE DeltaInv' /\ (tree = delta.new => tree' = tree)
  <2>1. Whole(delta.new, "fallback", "refused", "refused")
    BY <1>3 DEF WholeDirect
  <2> QED
    BY <2>1, <1>1, <1>2, WholeKeeps
<1>4. ASSUME WholeAfterAmbiguous PROVE DeltaInv' /\ (tree = delta.new => tree' = tree)
  <2>1. Whole(delta.new, "fallback", "refused", "again")
    BY <1>4 DEF WholeAfterAmbiguous
  <2> QED
    BY <2>1, <1>1, <1>2, WholeKeeps
<1>5. ASSUME WholeInCatch PROVE DeltaInv' /\ (tree = delta.new => tree' = tree)
  <2>1. Whole(delta.new, "fallback", "restore", "restore")
    BY <1>5 DEF WholeInCatch
  <2> QED
    BY <2>1, <1>1, <1>2, WholeKeeps
<1>6. ASSUME UndoMismatch PROVE DeltaInv' /\ delta.pc \in {"undo", "restore"}
  <2>1. Whole(delta.old, "mismatch", "refused", "again") /\ delta.pc = "undo"
    BY <1>6 DEF UndoMismatch
  <2>2. delta.faults = 0 => Reordered(delta.old, delta.new)
    BY <2>1 DEF DeltaInv, DeltaFaults
  <2> QED
    BY <2>1, <2>2, <1>1, <1>2, WholeKeeps
<1>7. ASSUME RestoreInCatch PROVE DeltaInv' /\ delta.pc \in {"undo", "restore"}
  <2>1. Whole(delta.old, "failed", "refused", "refused") /\ delta.pc = "restore"
    BY <1>7 DEF RestoreInCatch
  <2> QED
    BY <2>1, <1>1, <1>2, WholeKeeps
<1> QED
  BY <1>3, <1>4, <1>5, <1>6, <1>7

LEMMA DeltaKeeps ==
    DeltaInv /\ [DeltaNext]_deltaVars => DeltaInv' /\ (DesiredStays \/ UNCHANGED deltaVars)
<1> SUFFICES ASSUME DeltaInv, [DeltaNext]_deltaVars PROVE DeltaInv' /\ (DesiredStays \/ UNCHANGED deltaVars)
  OBVIOUS
<1>1. CASE UNCHANGED deltaVars
  <2>1. delta' = delta /\ tree' = tree
    BY <1>1 DEF deltaVars
  <2>2. Operations' = Operations
    BY <2>1 DEF Operations
  <2>3. DeltaInv'
    BY <2>1, <2>2 DEF DeltaInv, DeltaType, DeltaCalls, DeltaFaults, EndsWhole
  <2> QED
    BY <2>3, <1>1
<1>2. ASSUME StartDelta \/ CallsEnd \/ AwaitDigest \/ VerifyDigest PROVE DeltaInv' /\ DesiredStays
  BY <1>2, StartKeeps, EndKeeps, AwaitKeeps, VerifyKeeps DEF DesiredStays
<1>3. ASSUME SendCall PROVE DeltaInv' /\ DesiredStays
  BY <1>3, SendKeeps DEF DesiredStays
<1>4. ASSUME WholeDirect \/ WholeAfterAmbiguous \/ WholeInCatch PROVE DeltaInv' /\ DesiredStays
  BY <1>4, WholesKeep DEF DesiredStays
<1>5. ASSUME UndoMismatch \/ RestoreInCatch PROVE DeltaInv' /\ DesiredStays
  BY <1>5, WholesKeep DEF DesiredStays
<1> QED
  BY <1>1, <1>2, <1>3, <1>4, <1>5 DEF DeltaNext

LEMMA DeltaInvImplies == DeltaInv => DeltaTypeOK /\ EndsWhole /\ OnlyReordersMiss
<1> SUFFICES ASSUME DeltaInv PROVE DeltaTypeOK /\ EndsWhole /\ OnlyReordersMiss
  OBVIOUS
<1>1. /\ delta.pc \in DeltaStates /\ delta.at \in Nat /\ delta.step \in Nat /\ delta.faults \in 0..MaxDeltaFaults
      /\ tree \in Collections
  BY DeltaParts DEF DeltaInv
<1>2. DeltaTypeOK
  BY <1>1 DEF DeltaTypeOK
<1>3. EndsWhole /\ OnlyReordersMiss
  BY DEF DeltaInv, DeltaFaults, OnlyReordersMiss
<1> QED
  BY <1>2, <1>3

\* No call of an update, of its restore or of its fallback leaves the collection half-way: a
\* reported success has the desired collection, a reported failure the snapshot, and no call
\* disturbs a collection that is as desired (applyCollectionDelta).
THEOREM DeltaSafe == DeltaSpec => DeltaIsSafe
<1>1. DeltaInv /\ [DeltaNext]_deltaVars =>
        [DeltaTypeOK' /\ EndsWhole' /\ OnlyReordersMiss' /\ DesiredStays]_deltaVars
  <2>1. DeltaInv' => DeltaTypeOK' /\ EndsWhole' /\ OnlyReordersMiss'
    BY DeltaInvImplies, PTL
  <2> QED
    BY <2>1, DeltaKeeps
<1> QED
  BY <1>1, DeltaInitOK, DeltaKeeps, PTL DEF DeltaSpec, DeltaIsSafe
=============================================================================
