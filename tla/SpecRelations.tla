---------------------------- MODULE SpecRelations ----------------------------
(***************************************************************************)
(* Linking the three collections of a run to its specification: one PUT,   *)
(* repeated while a peer's job holds the specification's lock, a bounded    *)
(* wait until the paged relation list shows every link, and the tags, the  *)
(* artifact manifest and the tracked state, written only after that.       *)
(* Runs of one project share specification and collections.                *)
(***************************************************************************)
EXTENDS Integers, FiniteSets
CONSTANTS
    Linkers,         \* the runs
    Linked,          \* 1..n: the collections, in the order of the relation list
    Asked,           \* [Linkers -> the options and syncOptions a run asks for]
    LockedRetries,   \* SYNC_LOCKED_MAX_RETRIES
    SettleAttempts,  \* RELATION_SETTLE_MAX_ATTEMPTS
    MaxLinkFaults    \* bound: failing calls and broken relations

ASSUME LinkedAssumption ==
    /\ 1 \in Linked /\ Linked \subseteq Nat \ {0} /\ \A c \in Linked : 1..c \subseteq Linked
    /\ {LockedRetries, SettleAttempts, MaxLinkFaults} \subseteq Nat

VARIABLES
    linker,   \* per run: pc, attempt, the row it reads next, what it found so far
    relation, \* collection -> what the list shows: options and state, or NoRow
    queued,   \* accepted links the list does not show yet: <<collection, run>>
    broken    \* faults so far
relationVars == <<linker, relation, queued, broken>>

Options == {Asked[r] : r \in Linkers}
NoRow == [options |-> "none", state |-> "absent"]
Recognized == {"synced"} \* in-sync or out-of-sync
Rows == [options : Options \cup {"incomplete"}, state : Recognized \cup {"error"}] \cup {NoRow}
Findings == {"missing", "invalid", "other"}

RelationInit ==
    /\ linker = [r \in Linkers |->
        [pc |-> "put", attempt |-> 0, page |-> 1, found |-> {}, raced |-> FALSE]]
    /\ relation \in [Linked -> {NoRow} \cup [options : Options, state : Recognized]]
    /\ queued = {} /\ broken = 0

\* What a run has read does not outlive it.
Go(r, rec) ==
    linker' = [linker EXCEPT ![r] =
        IF rec.pc \in {"saved", "failed"}
        THEN [rec EXCEPT !.attempt = 0, !.page = 1, !.found = {}, !.raced = FALSE] ELSE rec]
Break == broken < MaxLinkFaults /\ broken' = broken + 1

\* PUT of the links.  A 423 (a job of the service holds the lock) did
\* nothing; it is retried, then given up.
PutLinks(r) ==
    LET l == linker[r] IN
    /\ l.pc = "put" /\ UNCHANGED relation
    /\ \/ /\ queued' = queued \cup (Linked \X {r}) /\ UNCHANGED broken
          /\ Go(r, [l EXCEPT !.pc = "list", !.attempt = 1])
       \/ /\ UNCHANGED <<queued, broken>>
          /\ Go(r, IF l.attempt < LockedRetries THEN [l EXCEPT !.attempt = @ + 1]
                   ELSE [l EXCEPT !.pc = "failed"])
       \/ /\ Break /\ queued' \in {queued, queued \cup (Linked \X {r})}
          /\ Go(r, [l EXCEPT !.pc = "failed"])

\* One page of the list; a failing page fails the run.
Finding(r, row) ==
    IF row = NoRow THEN {"missing"}
    ELSE IF row.state \notin Recognized \/ row.options = "incomplete" THEN {"invalid"}
    ELSE IF row.options = Asked[r] THEN {} ELSE {"other"}
ReadPage(r) ==
    LET l == linker[r] IN
    /\ l.pc = "list" /\ UNCHANGED <<relation, queued>>
    /\ \/ /\ UNCHANGED broken
          /\ LET found == l.found \cup Finding(r, relation[l.page]) IN
             IF l.page + 1 \in Linked
             THEN Go(r, [l EXCEPT !.page = @ + 1, !.found = found])
             ELSE Go(r, [l EXCEPT !.page = 1, !.found = found, !.pc = "judge"])
       \/ Break /\ Go(r, [l EXCEPT !.pc = "failed"])

\* Mutant: rows are judged by their states alone.
JudgeStates(r) ==
    LET l == linker[r] IN
    /\ l.pc = "judge" /\ UNCHANGED <<relation, queued, broken>>
    /\ Go(r, IF "invalid" \in l.found THEN [l EXCEPT !.pc = "failed"]
             ELSE IF "missing" \notin l.found THEN [l EXCEPT !.pc = "tag", !.found = {}]
             ELSE IF l.attempt = SettleAttempts THEN [l EXCEPT !.pc = "failed"]
             ELSE [l EXCEPT !.pc = "list", !.attempt = @ + 1, !.found = {}, !.raced = FALSE])
\* A missing row is awaited; an invalid one fails at once, and so does a row
\* with options this run did not ask for.
Judge(r) ==
    LET l == linker[r] IN
    /\ l.pc = "judge" /\ UNCHANGED <<relation, queued, broken>>
    /\ Go(r, IF "invalid" \in l.found THEN [l EXCEPT !.pc = "failed"]
             ELSE IF "missing" \notin l.found
             THEN [l EXCEPT !.pc = IF l.found = {} THEN "tag" ELSE "failed", !.found = {}]
             ELSE IF l.attempt = SettleAttempts THEN [l EXCEPT !.pc = "failed"]
             ELSE [l EXCEPT !.pc = "list", !.attempt = @ + 1, !.found = {}, !.raced = FALSE])

\* Tags are a replaced set; the manifest and the state follow, in that order.
TagAndSave(r) ==
    LET l == linker[r] IN
    /\ l.pc = "tag" /\ UNCHANGED <<relation, queued>>
    /\ \/ UNCHANGED broken /\ Go(r, [l EXCEPT !.pc = "saved"])
       \/ Break /\ Go(r, [l EXCEPT !.pc = "failed"])

\* The specification service: an accepted link appears in the list, now and
\* then with a state of its own; a reading under way is not of one moment.
LinkAppears ==
    \E q \in queued :
        /\ queued' = queued \ {q}
        /\ \/ /\ \E s \in Recognized :
                    relation' = [relation EXCEPT ![q[1]] = [options |-> Asked[q[2]], state |-> s]]
              /\ UNCHANGED broken
           \/ /\ Break
              /\ \E row \in {[options |-> Asked[q[2]], state |-> "error"],
                             [options |-> "incomplete", state |-> "synced"]} :
                    relation' = [relation EXCEPT ![q[1]] = row]
        /\ linker' = [r \in Linkers |->
             IF linker[r].pc \in {"judge", "tag"} \/ linker[r].page > 1
             THEN [linker[r] EXCEPT !.raced = TRUE] ELSE linker[r]]

LinkStep(r) == PutLinks(r) \/ ReadPage(r) \/ Judge(r) \/ TagAndSave(r)
RelationNext == (\E r \in Linkers : LinkStep(r)) \/ LinkAppears
RelationSpec == RelationInit /\ [][RelationNext]_relationVars

-----------------------------------------------------------------------------
RelationTypeOK ==
    /\ relation \in [Linked -> Rows] /\ queued \subseteq Linked \X Linkers
    /\ broken \in 0..MaxLinkFaults
    /\ \A r \in Linkers :
        /\ linker[r].pc \in {"put", "list", "judge", "tag", "saved", "failed"}
        /\ linker[r].found \subseteq Findings /\ linker[r].page \in Linked

\* A run that tags and saves its state found every one of its own links in the
\* list, with its options: if the list did not change since that reading began
\* it shows them still, although the PUT of a peer that asks for other options,
\* or the lag of its own, was between (index.ts:4285-4400).
SavedMeansLinked ==
    \A r \in Linkers : linker[r].pc = "tag" /\ ~linker[r].raced =>
        \A c \in Linked : relation[c].options = Asked[r] /\ relation[c].state \in Recognized

\* No run's links, and no peer's, make a run save what is not linked.
LinkingIsSafe == RelationTypeOK /\ SavedMeansLinked
=============================================================================
