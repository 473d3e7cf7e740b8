--------------------------- MODULE DefinitionClosure ---------------------------
(***************************************************************************)
(* Acquiring a definition and everything it refers to.  Local references   *)
(* are followed breadth first into a bundle that must equal the inventory  *)
(* when there is one; then the loader walks the same references depth      *)
(* first, taking local documents from the bundle and fetching the remote   *)
(* ones, each failed attempt counted against the budget of references.     *)
(***************************************************************************)
EXTENDS Integers, Sequences, FiniteSets, SequencesExt
CONSTANTS
    Documents,
    LocalDocuments,  \* those under the directory of a local root
    Loads,           \* what may be loaded: root, references, inventory
    NoInventory,
    MaxDepth,        \* levels of references below the root
    MaxFiles,        \* local documents, the root included
    MaxReferences,   \* bundle members and fetch attempts together
    FetchAttempts    \* attempts for one remote document

ASSUME ClosureAssumption ==
    /\ IsFiniteSet(Documents) /\ LocalDocuments \subseteq Documents
    /\ {MaxDepth, MaxFiles, MaxReferences} \subseteq Nat
    /\ MaxFiles > 0 /\ FetchAttempts \in Nat \ {0}
    /\ \A l \in Loads : l.root \in Documents /\ l.links \in [Documents -> Seq(Documents)]

VARIABLES
    load,     \* [root, links, inventory]: the definition and its references
    members,  \* [document -> depth at which it was acquired, -1: not]
    queue,    \* acquired documents whose references are still to be followed
    trail,    \* the documents the depth-first walk is inside of
    visited, fetches,
    reading   \* pc, the references left of the document at hand, attempts, why
closureVars == <<load, members, queue, trail, visited, fetches, reading>>

Local(d) == d \in LocalDocuments
Acquired == {d \in Documents : members[d] >= 0}
Stops(why) == reading' = [reading EXCEPT !.pc = "failed", !.why = why]
Proceeds(pc) == reading' = [reading EXCEPT !.pc = pc]
Frame(d) == [document |-> d, left |-> load.links[d]]

\* A definition in the workspace starts with its own file, one given by a URL
\* with a fetch of the root.
ClosureInit ==
    /\ load \in Loads
    /\ members = [d \in Documents |-> IF d = load.root /\ Local(d) THEN 0 ELSE -1]
    /\ queue = (IF Local(load.root) THEN <<load.root>> ELSE <<>>)
    /\ trail = <<>> /\ visited = {load.root} /\ fetches = 0
    /\ reading = [pc |-> IF Local(load.root) THEN "inventory" ELSE "fetch",
                  left |-> <<>>, document |-> load.root, attempt |-> 1, why |-> "none"]

\* Limits before any member is opened; then every inventoried member is read
\* and compared with the size and the digest declared for it.
CheckInventory ==
    /\ reading.pc = "inventory" /\ UNCHANGED <<load, members, queue, trail, visited, fetches>>
    /\ \/ Stops("inventory")
       \/ /\ load.inventory # NoInventory => Cardinality(load.inventory) <= MaxFiles
          /\ Proceeds("acquire")

\* The next member leaves the queue and its references are collected.
ReadMember ==
    /\ reading.pc = "acquire" /\ reading.left = <<>> /\ queue # <<>>
    /\ queue' = Tail(queue)
    /\ IF members[Head(queue)] > MaxDepth THEN Stops("depth")
       ELSE \/ Stops("read")
            \/ reading' = [reading EXCEPT !.left = load.links[Head(queue)], !.document = Head(queue)]
    /\ UNCHANGED <<load, members, trail, visited, fetches>>

\* Mutant: the queue is a stack.
EnqueuedFirst(d) == <<d>> \o queue
Enqueued(d) == Append(queue, d)

\* A remote reference is left to the loader, a member is not acquired twice.
FollowReference ==
    /\ reading.pc = "acquire" /\ reading.left # <<>>
    /\ LET named == Head(reading.left)
           rest == [reading EXCEPT !.left = Tail(@)]
       IN  \/ /\ ~Local(named) \/ named \in Acquired
              /\ reading' = rest /\ UNCHANGED <<members, queue>>
           \/ /\ Local(named) /\ named \notin Acquired
              /\ UNCHANGED <<members, queue>>
              /\ IF Cardinality(Acquired) + 1 > MaxFiles THEN Stops("count") ELSE Stops("read")
           \/ /\ Local(named) /\ named \notin Acquired /\ Cardinality(Acquired) + 1 <= MaxFiles
              /\ members' = [members EXCEPT ![named] = members[reading.document] + 1]
              /\ queue' = Enqueued(named) /\ reading' = rest
    /\ UNCHANGED <<load, trail, visited, fetches>>

InventoryMatches == load.inventory # NoInventory => Acquired = load.inventory

\* The bundle is complete: compared with the inventory, then walked from the
\* root.  Its files count against the loader's budget.
CloseBundle ==
    /\ reading.pc = "acquire" /\ reading.left = <<>> /\ queue = <<>>
    /\ IF InventoryMatches
       THEN Proceeds("walk") /\ trail' = <<Frame(load.root)>> /\ fetches' = Cardinality(Acquired)
       ELSE Stops("inventory") /\ UNCHANGED <<trail, fetches>>
    /\ UNCHANGED <<load, members, queue, visited>>

Inner == trail[Len(trail)]
Popped == Front(trail)
\* The top document with its first reference taken off.
Advanced == [trail EXCEPT ![Len(trail)].left = Tail(@)]

LeaveDocument ==
    /\ reading.pc = "walk" /\ Inner.left = <<>>
    /\ trail' = Popped
    /\ IF Popped = <<>> THEN Proceeds("done") ELSE UNCHANGED reading
    /\ UNCHANGED <<load, members, queue, visited, fetches>>

\* A document is entered at its first reference, whatever the length of the
\* path to it: Len(trail) is the depth of the document referred to.
VisitReference ==
    /\ reading.pc = "walk" /\ Inner.left # <<>>
    /\ UNCHANGED <<load, members, queue, fetches>>
    /\ LET named == Head(Inner.left)
       IN  \/ named \in visited /\ trail' = Advanced /\ UNCHANGED <<visited, reading>>
           \/ /\ named \notin visited /\ Len(trail) > MaxDepth
              /\ Stops("path") /\ UNCHANGED <<visited, trail>>
           \/ /\ named \notin visited /\ Len(trail) <= MaxDepth /\ Local(named)
              /\ visited' = visited \cup {named}
              /\ IF named \in Acquired THEN trail' = Append(Advanced, Frame(named)) /\ UNCHANGED reading
                 ELSE Stops("closure") /\ UNCHANGED trail
           \/ /\ named \notin visited /\ Len(trail) <= MaxDepth /\ ~Local(named)
              /\ visited' = visited \cup {named} /\ trail' = Advanced
              /\ reading' = [reading EXCEPT !.pc = "fetch", !.document = named, !.attempt = 1]

\* An attempt: counted, then answered, refused for good, or worth a retry.
Fetch ==
    /\ reading.pc = "fetch" /\ UNCHANGED <<load, members, queue, visited>>
    /\ fetches' = fetches + 1
    /\ IF fetches' > MaxReferences THEN Stops("limit") /\ UNCHANGED trail
       ELSE \/ trail' = Append(trail, Frame(reading.document)) /\ Proceeds("walk")
            \/ Stops("fetch") /\ UNCHANGED trail
            \/ /\ reading.attempt < FetchAttempts /\ UNCHANGED trail
               /\ reading' = [reading EXCEPT !.attempt = @ + 1]

ClosureNext ==
    \/ CheckInventory \/ ReadMember \/ FollowReference \/ CloseBundle
    \/ LeaveDocument \/ VisitReference \/ Fetch
ClosureSpec == ClosureInit /\ [][ClosureNext]_closureVars
-------------------------------------------------------------------------------
\* The documents within n references of the root, along references that stay
\* in the set D.
Within(n, D) ==
    LET reach[k \in 0..n] ==
            IF k = 0 THEN {load.root}
            ELSE reach[k-1] \cup UNION {ToSet(load.links[d]) \cap D : d \in reach[k-1]}
    IN  reach[n]
Closure(D) == Within(Cardinality(Documents), D)

\* TypeOK: the variables keep their types.
ClosureTypeOK ==
    /\ load.root \in Documents /\ members \in [Documents -> -1..(MaxDepth + 1)]
    /\ ToSet(queue) \subseteq Acquired /\ ToSet(reading.left) \subseteq Documents
    /\ visited \subseteq Documents /\ fetches \in 0..(MaxFiles + MaxReferences + 1)
    /\ \A i \in 1..Len(trail) : trail[i].document \in visited
    /\ reading.pc \in {"inventory", "acquire", "walk", "fetch", "done", "failed"}
    /\ reading.attempt \in 1..FetchAttempts

\* A definition that loads is whole: the bundle holds exactly the local
\* documents reachable through local ones, which are those of the inventory;
\* every reachable document was read; and none of them is further from the
\* root than the depth limit.
LoadIsWhole ==
    reading.pc = "done" =>
        /\ Local(load.root) => Acquired = Closure(LocalDocuments) /\ InventoryMatches
        /\ visited = Closure(Documents)
        /\ visited = Within(MaxDepth, Documents)

\* Acquisition refuses a bundle for its depth only when a local document
\* really is further from the root than the limit: a document is acquired at
\* its shortest distance.
OnlyDeepRefused ==
    /\ \A d \in Acquired : d \in Within(members[d], LocalDocuments)
    /\ \A d \in Acquired : members[d] > 0 => d \notin Within(members[d] - 1, LocalDocuments)
    /\ reading.why = "depth" => Closure(LocalDocuments) # Within(MaxDepth, LocalDocuments)

\* A load gives the closure of the root or refuses it for a reason.
LoadIsExact == ClosureTypeOK /\ LoadIsWhole /\ OnlyDeepRefused
================================================================================
