--------------------------- MODULE InventoryReads ----------------------------
(***************************************************************************)
(* The settle loops that wait until the workspace inventory shows their    *)
(* collection (MemoizedWorkspaceInventoryObserver, collectPagedList and    *)
(* resolveCollectionRootUid, postman-gateway-assets-client.ts).  Loops of  *)
(* one process share the physical read in flight, and a physical read is a *)
(* sequence of page requests during which collections become visible.      *)
(***************************************************************************)
EXTENDS Integers, FiniteSets

CONSTANTS
    Loops,        \* settle loops, each waiting for a collection of its own
    SettleDelays, \* length of the delays of a loop
    Pages,        \* the inventory has at most so many pages
    PageLimit     \* 200 in the code

ASSUME InventoryAssumption ==
    IsFiniteSet(Loops) /\ SettleDelays \in Nat /\ Pages \in Nat \ {0} /\ PageLimit \in Nat \ {0}

VARIABLES
    lastPage, \* the pages that the inventory has
    shown,    \* [Loops -> 0..Pages]: the page that shows each collection, 0 for none
    reading,  \* the read in flight
    loop      \* [Loops -> LoopState]

inventoryVars == <<lastPage, shown, reading, loop>>

\* cursors are the next-page cursors seen, promised is what the inventory showed
\* when the read began.
NoRead == [on |-> FALSE, page |-> 1, count |-> 0, cursors |-> {}, rows |-> {}, promised |-> {}]
ReadState ==
    [on : BOOLEAN, page : 1..Pages, count : 0..PageLimit, cursors : SUBSET (1..Pages),
     rows : SUBSET Loops, promised : SUBSET Loops]
LoopState ==
    [pc : {"new", "reading", "sleeping", "found", "absent"},
     delays : 0..SettleDelays,
     joined : BOOLEAN,      \* the read had begun before the loop arrived
     own : BOOLEAN,         \* some answered read began after the loop arrived
     missed : BOOLEAN]      \* a successful read lacked a row that it was promised

InventoryTypeOK ==
    /\ lastPage \in 1..Pages
    /\ shown \in [Loops -> 0..Pages]
    /\ reading \in ReadState
    /\ loop \in [Loops -> LoopState]

InventoryInit ==
    /\ lastPage \in 1..Pages
    /\ shown = [l \in Loops |-> 0]
    /\ reading = NoRead
    /\ loop = [l \in Loops |-> [pc |-> "new", delays |-> SettleDelays,
                                joined |-> FALSE, own |-> FALSE, missed |-> FALSE]]

-----------------------------------------------------------------------------
Shown == {l \in Loops : shown[l] # 0}

\* The inventory shows one more collection, on any page.
Show(l) ==
    /\ shown[l] = 0
    /\ \E p \in 1..lastPage : shown' = [shown EXCEPT ![l] = p]
    /\ UNCHANGED <<lastPage, reading, loop>>

\* observe: the loop joins the read in flight or starts one.
Observe(l) ==
    /\ loop[l].pc \in {"new", "sleeping"}
    /\ loop' = [loop EXCEPT ![l].pc = "reading",
                            ![l].joined = loop[l].pc = "new" /\ reading.on]
    /\ reading' = IF reading.on THEN reading
                  ELSE [NoRead EXCEPT !.on = TRUE, !.promised = Shown]
    /\ UNCHANGED <<lastPage, shown>>

\* consumeDelay: the next delay, or the loop gives up.
Sleep(state) ==
    IF state.delays > 0 THEN [state EXCEPT !.pc = "sleeping", !.delays = @ - 1]
    ELSE [state EXCEPT !.pc = "absent"]

Heard(l, rows, ok) ==
    LET state == [loop[l] EXCEPT !.own = @ \/ ~loop[l].joined,
                                 !.missed = @ \/ (ok /\ l \in reading.promised \ rows)] IN
    IF ok /\ l \in rows THEN [state EXCEPT !.pc = "found"] ELSE Sleep(state)

\* Mutant: only a successful read clears inFlight.
AnswerKept(rows, ok) ==
    /\ loop' = [l \in Loops |-> IF loop[l].pc = "reading" THEN Heard(l, rows, ok) ELSE loop[l]]
    /\ reading' = IF ok THEN NoRead ELSE [reading EXCEPT !.on = TRUE]
\* The read settles and every loop that waits for it goes on.  A failed read is
\* an observation without rows.
AnswerLoops(rows, ok) ==
    /\ loop' = [l \in Loops |-> IF loop[l].pc = "reading" THEN Heard(l, rows, ok) ELSE loop[l]]
    /\ reading' = NoRead

Listed(p) == {l \in Loops : shown[l] = p}

\* Mutant: repeated cursors are followed.
FetchRepeated ==
    LET rows == reading.rows \cup Listed(reading.page) IN
    /\ reading.on
    /\ \/ reading.page = lastPage /\ AnswerLoops(rows, TRUE)
       \/ \E next \in reading.cursors \cup {reading.page + 1} :
             /\ next <= lastPage
             /\ reading' = [reading EXCEPT !.page = next, !.rows = rows,
                                           !.cursors = @ \cup {next}]
             /\ UNCHANGED loop
    /\ UNCHANGED <<lastPage, shown>>
\* One page request of collectPagedList.  It fails, or shows the last page, or
\* names a next page; a cursor seen before or one page too many is a failure.
FetchPage ==
    LET rows == reading.rows \cup Listed(reading.page) IN
    /\ reading.on
    /\ \/ AnswerLoops({}, FALSE)
       \/ reading.page = lastPage /\ AnswerLoops(rows, TRUE)
       \/ \E next \in reading.cursors \cup {reading.page + 1} :
             /\ next <= lastPage
             /\ IF next \in reading.cursors \/ reading.count + 1 >= PageLimit
                THEN AnswerLoops({}, FALSE)
                ELSE /\ reading' = [reading EXCEPT !.page = next, !.count = @ + 1,
                                      !.cursors = @ \cup {next}, !.rows = rows]
                     /\ UNCHANGED loop
    /\ UNCHANGED <<lastPage, shown>>

InventoryNext ==
    \/ \E l \in Loops : Show(l) \/ Observe(l)
    \/ FetchPage

InventorySpec == InventoryInit /\ [][InventoryNext]_inventoryVars

-----------------------------------------------------------------------------
(* Properties *)

\* A loop that has any delay never reports its collection absent on the strength
\* of shared reads alone that began before it arrived.
GivesUpOnOwnRead ==
    \A l \in Loops : loop[l].pc = "absent" /\ SettleDelays > 0 => loop[l].own

\* A list that is returned has every row that was shown when its read began, on
\* whichever page: a short list would make the caller create a duplicate.
ListsAreComplete == \A l \in Loops : ~loop[l].missed

\* A service that repeats a cursor cannot keep a loop waiting.
EveryLoopEnds == \A l \in Loops : loop[l].pc = "reading" ~> loop[l].pc \in {"found", "absent"}

\* The settle loops answer, and what they answer rests on whole reads of their own.
LoopsSettle == [](InventoryTypeOK /\ GivesUpOnOwnRead /\ ListsAreComplete) /\ EveryLoopEnds
=============================================================================
