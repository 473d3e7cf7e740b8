--------------------------- MODULE CollectionDelta ---------------------------
(***************************************************************************)
(* The granular update of one collection: planCollectionDelta compares an  *)
(* exported snapshot with the desired collection and orders deletes,       *)
(* creates, patches and moves; applyCollectionDelta sends them one by one  *)
(* and falls back to a whole update, or rolls back, when one fails.        *)
(*                                                                         *)
(* A collection is the order of every bucket (the folders or the requests  *)
(* of one parent; an export lists folders first) and the text of every     *)
(* item.  An item keeps its parent: the desired ids are random, and the    *)
(* planner matches them with the snapshot's by the path of names.          *)
(***************************************************************************)
EXTENDS Integers, Sequences, FiniteSets, SequencesExt, SortedSets
CONSTANTS
    DeltaItems,      \* folders and requests, of both collections
    DeltaFolders,    \* the folders among them, all of the top level
    Top,             \* the collection's root
    ParentOf,        \* the folder (or Top) of an item
    KeyRank,         \* the order of the items' keys, arbitrary identifiers
    Snapshots, Targets, \* the exported and the desired collections
    MaxOperations,   \* COLLECTION_DELTA_MAX_OPERATIONS
    MaxDeltaFaults   \* bound: calls of the run that fail

VARIABLES delta, tree
deltaVars == <<delta, tree>>

Gone == "gone"
\* A scripted item needs calls of its own for scripts and saved responses.
Texts == {"plain", "edited", "scripted"}
Bucket(i) == <<ParentOf[i], i \in DeltaFolders>>
Buckets == {<<p, k>> : p \in DeltaFolders \cup {Top}, k \in BOOLEAN}
Holds(t, i) == t.text[i] # Gone
\* Each item once, in its bucket.
Collections ==
    {t \in [order : [Buckets -> Seq(DeltaItems)], text : [DeltaItems -> Texts \cup {Gone}]] :
        \A b \in Buckets :
            /\ IsInjective(t.order[b])
            /\ ToSet(t.order[b]) = {i \in DeltaItems : Bucket(i) = b /\ Holds(t, i)}}

ASSUME DeltaAssumption ==
    /\ IsFiniteSet(DeltaItems) /\ DeltaFolders \subseteq DeltaItems /\ Top \notin DeltaItems
    /\ ParentOf \in [DeltaItems -> DeltaFolders \cup {Top}] /\ \A f \in DeltaFolders : ParentOf[f] = Top
    /\ KeyRank \in [DeltaItems -> Nat] /\ IsInjective(KeyRank)
    /\ \A t \in Snapshots \cup Targets : t \in Collections
    /\ {MaxOperations, MaxDeltaFaults} \subseteq Nat

Place(seq, i) == CHOOSE k \in 1..Len(seq) : seq[k] = i
Position(t, i) == Place(t.order[Bucket(i)], i)

-----------------------------------------------------------------------------
(* The plan. *)

\* Among all siblings: the folders of a parent precede its requests.
IndexOf(t, i) ==
    Position(t, i) + IF i \in DeltaFolders THEN 0 ELSE Len(t.order[<<ParentOf[i], TRUE>>])
Depth(i) == IF ParentOf[i] = Top THEN 0 ELSE 1
ParentRank(i) == IF ParentOf[i] = Top THEN 0 ELSE KeyRank[ParentOf[i]]
Neighbour(t, i, d) ==
    LET k == Position(t, i) + d IN
    IF k \in DOMAIN t.order[Bucket(i)] THEN t.order[Bucket(i)][k] ELSE Top

Planned(kind, t, i) ==
    [kind |-> kind, item |-> i, previous |-> Neighbour(t, i, -1), next |-> Neighbour(t, i, 1)]
InOrder(S, R, kind, t) ==
    LET seq == Ascending(S, R) IN [k \in 1..Cardinality(S) |-> Planned(kind, t, seq[k])]

Pairs == DeltaItems \X DeltaItems
ByKey == {r \in Pairs : KeyRank[r[1]] < KeyRank[r[2]]}
ByDepth == {r \in Pairs : Depth(r[1]) < Depth(r[2]) \/ (Depth(r[1]) = Depth(r[2]) /\ r \in ByKey)}
DeepestFirst == {r \in Pairs : Depth(r[1]) > Depth(r[2]) \/ (Depth(r[1]) = Depth(r[2]) /\ r \in ByKey)}
\* A new item is placed before a sibling that exists by then.
LaterFirst(t) ==
    {r \in Pairs :
        IF Depth(r[1]) # Depth(r[2]) THEN Depth(r[1]) < Depth(r[2])
        ELSE IF ParentRank(r[1]) # ParentRank(r[2]) THEN ParentRank(r[1]) < ParentRank(r[2])
        ELSE IndexOf(t, r[1]) > IndexOf(t, r[2])}

Moved(old, new) ==
    {i \in DeltaItems : Holds(old, i) /\ Holds(new, i) /\ IndexOf(old, i) # IndexOf(new, i)}
MovedLater(old, new) == {i \in Moved(old, new) : IndexOf(old, i) < IndexOf(new, i)}
\* An item that moves later shifts the ones behind it; they need no move.
ExplicitMoves(old, new) ==
    IF MovedLater(old, new) # {} THEN MovedLater(old, new) ELSE Moved(old, new)
Changed(old, new) ==
    {i \in DeltaItems : Holds(old, i) /\ Holds(new, i) /\ old.text[i] # new.text[i]}

PlanOperations(old, new) ==
    InOrder({i \in DeltaItems : Holds(old, i) /\ ~Holds(new, i)}, DeepestFirst, "delete", old)
    \o InOrder({i \in DeltaItems : Holds(new, i) /\ ~Holds(old, i)}, LaterFirst(new), "create", new)
    \o InOrder(Changed(old, new), ByKey, "patch", new)
    \o InOrder(ExplicitMoves(old, new), ByDepth, "move", new)

\* Scripts and saved responses are not patched, and a long plan is not applied.
PlanFallback(old, new) ==
    \/ \E i \in Changed(old, new) : "scripted" \in {old.text[i], new.text[i]}
    \/ Len(PlanOperations(old, new)) > MaxOperations

-----------------------------------------------------------------------------
(* The calls of an operation and what each does to the stored collection. *)

Calls(op, new) ==
    IF op.kind # "create" THEN <<op>>
    ELSE <<[op EXCEPT !.kind = "post"]>>
         \o (IF op.next = Top THEN <<>> ELSE <<[op EXCEPT !.kind = "place"]>>)
         \o IF new.text[op.item] = "scripted" THEN <<[op EXCEPT !.kind = "finish"]>> ELSE <<>>

Dropped(seq, i) == RemoveAt(seq, Place(seq, i))
Before(seq, i, n) == LET s == Dropped(seq, i) IN InsertAt(s, Place(s, n), i)
After(seq, i, p) == LET s == Dropped(seq, i) IN InsertAt(s, Place(s, p) + 1, i)

Sent(call, t, new) ==
    LET i == call.item
        seq == t.order[Bucket(i)]
    IN CASE call.kind = "delete" ->
              [t EXCEPT !.order[Bucket(i)] = Dropped(@, i), !.text[i] = Gone]
         [] call.kind = "post" ->
              [t EXCEPT !.order[Bucket(i)] = Append(@, i),
                        !.text[i] = IF new.text[i] = "scripted" THEN "plain" ELSE new.text[i]]
         [] call.kind = "finish" -> [t EXCEPT !.text[i] = "scripted"]
         [] call.kind = "patch" -> [t EXCEPT !.text[i] = new.text[i]]
         [] call.kind = "place" -> [t EXCEPT !.order[Bucket(i)] = Before(seq, i, call.next)]
         [] call.kind = "move" ->
              [t EXCEPT !.order[Bucket(i)] =
                 IF call.previous # Top THEN After(seq, i, call.previous)
                 ELSE IF call.next # Top THEN Before(seq, i, call.next) ELSE seq]

-----------------------------------------------------------------------------
(* The run. *)

DeltaStates == {"start", "direct", "call", "await", "verify", "whole", "again", "undo", "restore",
                "unchanged", "delta", "fallback", "mismatch", "refused", "failed"}

DeltaInit ==
    \E old \in Snapshots, new \in Targets :
        /\ tree = old
        /\ delta = [pc |-> "start", old |-> old, new |-> new, at |-> 1, step |-> 1, faults |-> 0]

To(pc) == delta' = [delta EXCEPT !.pc = pc]
Fault == delta.faults < MaxDeltaFaults
FailTo(pc) == Fault /\ delta' = [delta EXCEPT !.pc = pc, !.faults = @ + 1]

\* The decision, and the listing that resolves the items' identifiers.
StartDelta ==
    /\ delta.pc = "start"
    /\ UNCHANGED tree
    /\ IF delta.old = delta.new THEN To("unchanged")
       ELSE IF PlanFallback(delta.old, delta.new) THEN To("direct")
       ELSE To("call") \/ FailTo("again") \/ FailTo("refused")

Operations == PlanOperations(delta.old, delta.new)

\* One call of one operation: answered, refused, rejected in its answer, or
\* unanswered.
SendCall ==
    /\ delta.pc = "call" /\ delta.at <= Len(Operations)
    /\ LET calls == Calls(Operations[delta.at], delta.new)
           sent == Sent(calls[delta.step], tree, delta.new)
       IN
       \/ /\ tree' = sent
          /\ delta' = IF delta.step < Len(calls) THEN [delta EXCEPT !.step = @ + 1]
                      ELSE [delta EXCEPT !.at = @ + 1, !.step = 1]
       \/ FailTo("refused") /\ UNCHANGED tree
       \/ FailTo("again") /\ tree' \in {tree, sent}
       \/ FailTo("await") /\ tree' \in {tree, sent}

CallsEnd ==
    /\ delta.pc = "call" /\ delta.at > Len(Operations)
    /\ To("verify") /\ UNCHANGED tree

\* Mutant: an unanswered create is sent again.
AwaitResend ==
    /\ delta.pc = "await" /\ UNCHANGED tree
    /\ IF Operations[delta.at].kind = "create" THEN To("call") ELSE To("whole")
\* An unanswered call is not sent again: the export says whether it was the last one.
AwaitDigest ==
    /\ delta.pc = "await" /\ UNCHANGED tree
    /\ IF tree = delta.new THEN To("verify") \/ FailTo("whole") ELSE To("whole")

VerifyDigest ==
    /\ delta.pc = "verify" /\ UNCHANGED tree
    /\ IF tree = delta.new THEN To("delta") \/ FailTo("undo") ELSE To("undo")

\* A whole update (CollectionImport) succeeds, or fails before or after its write.
Whole(target, done, refused, failed) ==
    \/ tree' = target /\ To(done)
    \/ tree' \in {tree, target} /\ (FailTo(refused) \/ FailTo(failed))

\* A plan that is not applied: one whole update, whose failure is the caller's.
WholeDirect == delta.pc = "direct" /\ Whole(delta.new, "fallback", "refused", "refused")
\* Inside the try block a failure is caught and the update is tried once more.
WholeAfterAmbiguous == delta.pc = "whole" /\ Whole(delta.new, "fallback", "refused", "again")
UndoMismatch == delta.pc = "undo" /\ Whole(delta.old, "mismatch", "refused", "again")
WholeInCatch == delta.pc = "again" /\ Whole(delta.new, "fallback", "restore", "restore")
RestoreInCatch == delta.pc = "restore" /\ Whole(delta.old, "failed", "refused", "refused")

DeltaNext ==
    \/ StartDelta \/ SendCall \/ CallsEnd \/ AwaitDigest \/ VerifyDigest
    \/ WholeDirect \/ WholeAfterAmbiguous \/ UndoMismatch \/ WholeInCatch \/ RestoreInCatch
DeltaSpec == DeltaInit /\ [][DeltaNext]_deltaVars

-----------------------------------------------------------------------------
DeltaTypeOK ==
    /\ delta.pc \in DeltaStates /\ {delta.at, delta.step} \subseteq Nat /\ delta.faults \in 0..MaxDeltaFaults
    /\ tree \in Collections

\* An update that reports success left the desired collection, one that
\* reports a mismatch or a failed fallback the snapshot, whichever of its calls
\* was lost, executed unanswered or rejected (applyCollectionDelta).
EndsWhole ==
    /\ delta.pc \in {"unchanged", "delta", "fallback"} => tree = delta.new
    /\ delta.pc \in {"mismatch", "failed"} => tree = delta.old

\* Once the collection is as desired, only a restore of the snapshot changes
\* it: no call is repeated, and the calls left over undo nothing.
DesiredStays ==
    tree = delta.new /\ tree' # tree => delta.pc \in {"undo", "restore"}

\* Two siblings that both collections have, in different orders.
Reordered(old, new) ==
    \E i, j \in DeltaItems :
        /\ Bucket(i) = Bucket(j) /\ \A k \in {i, j} : Holds(old, k) /\ Holds(new, k)
        /\ Position(old, i) < Position(old, j) /\ Position(new, j) < Position(new, i)

\* Without a failing call a plan misses the desired collection only where kept
\* siblings change their order: creates are placed exactly, and the shifts
\* that creates and deletes cause disturb nothing (planCollectionDelta).
OnlyReordersMiss ==
    delta.pc = "mismatch" /\ delta.faults = 0 => Reordered(delta.old, delta.new)

\* No call of an update, of its restore or of its fallback breaks any of it.
DeltaIsSafe == [][DeltaTypeOK' /\ EndsWhole' /\ OnlyReordersMiss' /\ DesiredStays]_deltaVars
=============================================================================
