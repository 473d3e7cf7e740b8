----------------------------- MODULE ImportLanes -----------------------------
(***************************************************************************)
(* withImportMutation (postman-gateway-assets-client.ts): at most two      *)
(* whole-collection writes of one process are in flight.  A release wakes  *)
(* the first waiter, but the waiter counts itself only when its            *)
(* continuation runs, so the gap between the two is modelled: continuations *)
(* run in the order they were queued, before the next answer is delivered. *)
(***************************************************************************)
EXTENDS Integers, Sequences, SequencesExt, FiniteSets

CONSTANTS
    Writes,      \* the whole-collection writes of one process
    Then         \* [Writes -> Writes]: the write that follows in the same lane

ASSUME LaneAssumption == IsFiniteSet(Writes) /\ Then \in [Writes -> Writes]

VARIABLES
    active,      \* activeImportMutations
    waiters,     \* importMutationWaiters
    microtasks,  \* continuations that are due
    write        \* [Writes -> {"todo", "due", "waiting", "sent", "done"}]

laneVars == <<active, waiters, microtasks, write>>

\* A write that no other precedes is started by the caller.
First == {w \in Writes : \A v \in Writes : Then[v] = w => v = w}

LaneTypeOK ==
    /\ active \in 0..Cardinality(Writes)
    /\ waiters \in Seq(Writes)
    /\ microtasks \in Seq(Writes)
    /\ write \in [Writes -> {"todo", "due", "waiting", "sent", "done"}]

LaneInit ==
    /\ active = 0
    /\ waiters = <<>>
    /\ microtasks = <<>>
    /\ write = [w \in Writes |-> "todo"]

\* A caller arrives with a turn of its own.
Arrive(w) ==
    /\ microtasks = <<>> /\ write[w] = "todo" /\ w \in First
    /\ microtasks' = <<w>>
    /\ write' = [write EXCEPT ![w] = "due"]
    /\ UNCHANGED <<active, waiters>>

\* The next continuation: an arrival waits at the limit, a woken waiter does not
\* look again.
Continue ==
    /\ microtasks # <<>>
    /\ LET w == Head(microtasks) IN
       IF write[w] = "due" /\ active >= 2
       THEN /\ waiters' = Append(waiters, w)
            /\ write' = [write EXCEPT ![w] = "waiting"]
            /\ UNCHANGED active
       ELSE /\ active' = active + 1
            /\ write' = [write EXCEPT ![w] = "sent"]
            /\ UNCHANGED waiters
    /\ microtasks' = Tail(microtasks)

\* What the caller of w does next is queued behind the waiter that w woke.
Following(w) == IF Then[w] = w \/ write[Then[w]] # "todo" THEN <<>> ELSE <<Then[w]>>

\* Mutant: a failed write does not release.
FinishOnSuccess(w) ==
    /\ microtasks = <<>> /\ write[w] = "sent"
    /\ \E ok \in BOOLEAN :
          /\ active' = IF ok THEN active - 1 ELSE active
          /\ waiters' = IF ok /\ waiters # <<>> THEN Tail(waiters) ELSE waiters
          /\ microtasks' = (IF ok /\ waiters # <<>> THEN <<Head(waiters)>> ELSE <<>>)
                           \o Following(w)
    /\ write' = [v \in Writes |-> IF v = w THEN "done"
                                  ELSE IF v \in ToSet(Following(w)) THEN "due" ELSE write[v]]
\* The write settles, whatever its outcome: release, wake, and then the caller.
Finish(w) ==
    /\ microtasks = <<>> /\ write[w] = "sent"
    /\ active' = active - 1
    /\ waiters' = IF waiters = <<>> THEN <<>> ELSE Tail(waiters)
    /\ microtasks' = (IF waiters = <<>> THEN <<>> ELSE <<Head(waiters)>>) \o Following(w)
    /\ write' = [v \in Writes |-> IF v = w THEN "done"
                                  ELSE IF v \in ToSet(Following(w)) THEN "due" ELSE write[v]]

LaneNext == Continue \/ \E w \in Writes : Arrive(w) \/ Finish(w)
LaneSpec == LaneInit /\ [][LaneNext]_laneVars

-----------------------------------------------------------------------------
(* Properties *)

\* "At most two" whole-collection writes in flight, in spite of the gap between
\* a release and the count of the waiter that it woke.
AtMostTwoWrites == Cardinality({w \in Writes : write[w] = "sent"}) <= 2

\* Every write that waits is sent: no release forgets the queue, not even that
\* of a failed write.
EveryWriteIsSent == \A w \in Writes : write[w] = "waiting" ~> write[w] = "sent"

\* The lanes keep their limit and lose no write.
LanesFlow == [](LaneTypeOK /\ AtMostTwoWrites) /\ EveryWriteIsSent
=============================================================================
