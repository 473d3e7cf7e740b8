----------------------------- MODULE BranchRuns -----------------------------
(***************************************************************************)
(* Branch-aware sync: from the events of a CI provider a run classifies    *)
(* its branch (canonical, channel, preview or gated), and that tier decides *)
(* which asset set it names, whether it resolves tracked ids, what marker   *)
(* it stamps and whether it writes at all.                                  *)
(*                                                                         *)
(* A branch name is a sequence of characters: the suffix of a preview set   *)
(* is computed from it.  The six-digit hash of a name is taken as distinct  *)
(* from every other name and hash.                                          *)
(***************************************************************************)
EXTENDS Integers, Sequences, FiniteSets, SequencesExt
CONSTANTS
    Events,          \* what CI runs: provider, name, pr, fork, kind, sha
    CanonicalInput,  \* the canonical-branch input, or NoName
    DefaultBranch,   \* the repository's default branch
    Channels,        \* the channel rules in order: prefix, star, code
    Strategy,        \* legacy, publish-gate or preview
    SlugMax,         \* PREVIEW_SLUG_MAX
    MaxBranchRuns    \* bound: runs of a behaviour
ASSUME BranchAssumption ==
    Events # {} /\ (\A e \in Events : e.sha \in Nat) /\ MaxBranchRuns \in Nat

NoName == <<>>
VARIABLES
    assets,   \* asset set name -> the stored specification, or no asset
    tracked,  \* the set .postman/resources.yaml points to
    task,     \* the run in progress
    started   \* runs so far, the clock of the markers
branchVars == <<assets, tracked, task, started>>

-----------------------------------------------------------------------------
(* Identity and tier. *)

\* Each provider's variables.  Bitbucket and Azure expose no default branch,
\* Bitbucket no fork; a tag, a merge ref or a foreign runner names no branch.
KnowsDefault(e) == e.provider \in {"github", "gitlab"}
Identity(e) ==
    LET branch == e.provider # "none" /\ (e.kind = "branch" \/ (e.pr /\ e.provider # "bitbucket"))
    IN [head |-> IF branch THEN e.name ELSE NoName,
        kind |-> IF branch THEN "branch" ELSE IF e.kind = "tag" THEN "tag" ELSE "unknown",
        default |-> IF CanonicalInput # NoName THEN CanonicalInput
                    ELSE IF KnowsDefault(e) THEN DefaultBranch ELSE NoName,
        fork |-> e.pr /\ e.fork /\ e.provider \notin {"bitbucket", "none"}]

Matches(rule, name) ==
    IF rule.star THEN Len(name) >= Len(rule.prefix) /\ SubSeq(name, 1, Len(rule.prefix)) = rule.prefix
    ELSE name = rule.prefix
ChannelOf(name) ==
    LET hits == {k \in DOMAIN Channels : Matches(Channels[k], name)} IN
    IF hits = {} THEN "none" ELSE Channels[CHOOSE k \in hits : \A j \in hits : k <= j].code

Decision(e) ==
    LET i == Identity(e) IN
    IF Strategy = "legacy" THEN "legacy"
    ELSE IF i.default = NoName THEN "error"
    ELSE IF i.head = NoName THEN "gated"
    ELSE IF i.head = i.default THEN "canonical"
    ELSE IF ChannelOf(i.head) # "none" THEN "channel"
    ELSE IF Strategy = "preview" /\ ~i.fork THEN "preview" ELSE "gated"

-----------------------------------------------------------------------------
(* Names of asset sets. *)

Unsafe == {"/", " "}
Edge == {".", "_", "-"}
Dashed(s) == [k \in DOMAIN s |-> IF s[k] \in Unsafe THEN "-" ELSE s[k]]
Collapsed(s) ==
    LET keep == {k \in DOMAIN s : s[k] # "-" \/ k = 1 \/ s[k - 1] # "-"}
        order == SetToSortSeq(keep, <)
    IN [j \in 1..Len(order) |-> s[order[j]]]
Trimmed(s) ==
    LET inner == {k \in DOMAIN s : s[k] \notin Edge} IN
    IF inner = {} THEN <<>>
    ELSE SubSeq(s, CHOOSE k \in inner : \A j \in inner : k <= j,
                   CHOOSE k \in inner : \A j \in inner : j <= k)
Sanitized(name) == Trimmed(Collapsed(Dashed(name)))
Cut(s) == SubSeq(s, 1, IF Len(s) < SlugMax THEN Len(s) ELSE SlugMax)

\* A lossy suffix carries the hash of the whole name.
BranchSlug(name) ==
    LET s == Cut(Sanitized(name)) IN [slug |-> s, hash |-> IF s = name THEN NoName ELSE name]

CanonicalSet == [role |-> "canonical", suffix |-> NoName]
SetName(e) ==
    CASE Decision(e) = "preview" -> [role |-> "preview", suffix |-> BranchSlug(Identity(e).head)]
      [] Decision(e) = "channel" -> [role |-> "channel", suffix |-> ChannelOf(Identity(e).head)]
      [] OTHER -> CanonicalSet
SetNames == {SetName(e) : e \in Events} \cup {CanonicalSet}
Writes(e) == Decision(e) \notin {"gated", "error"}
IsCanonicalWriter(e) == Decision(e) \in {"legacy", "canonical"}

-----------------------------------------------------------------------------
NoAsset == [sha |-> 0, branch |-> NoName, marked |-> FALSE, created |-> 0, synced |-> 0]
Idle == [pc |-> "idle", event |-> CHOOSE e \in Events : TRUE, target |-> CanonicalSet,
         previous |-> NoAsset]

BranchInit ==
    /\ assets = [n \in SetNames |-> NoAsset]
    /\ tracked = "none" /\ task = Idle /\ started = 0

\* The decide step precedes every credential; a gated run ends here, with the
\* static validation, and a run that cannot name the canonical branch fails.
\* Explicit asset ids are refused to a run that is no canonical writer.
Decide ==
    /\ task.pc = "idle" /\ started < MaxBranchRuns
    /\ started' = started + 1
    /\ \E e \in Events, explicit \in BOOLEAN :
        task' = IF Writes(e) /\ (explicit => IsCanonicalWriter(e))
                THEN [Idle EXCEPT !.pc = "resolve", !.event = e] ELSE Idle
    /\ UNCHANGED <<assets, tracked>>

\* Mutant: every branch takes the ids that are tracked.
ResolveTracked ==
    /\ task.pc = "resolve"
    /\ LET n == IF tracked # "none" THEN CanonicalSet ELSE SetName(task.event) IN
       task' = [task EXCEPT !.pc = "write", !.target = n, !.previous = assets[n]]
    /\ UNCHANGED <<assets, tracked, started>>
\* Tracked ids resolve for canonical writers only, the others go by name.
ResolveSet ==
    /\ task.pc = "resolve"
    /\ LET n == IF IsCanonicalWriter(task.event) /\ tracked # "none" THEN CanonicalSet
                ELSE SetName(task.event) IN
       task' = [task EXCEPT !.pc = "write", !.target = n, !.previous = assets[n]]
    /\ UNCHANGED <<assets, tracked, started>>

\* The marker keeps the birth of a branch's set, and its last sync as long as
\* nothing else changed, so that a rerun finds its own bytes.
Marked(e, previous) ==
    IF IsCanonicalWriter(e) THEN [NoAsset EXCEPT !.sha = e.sha, !.branch = Identity(e).head]
    ELSE LET same == previous.marked /\ previous.branch = Identity(e).head
             created == IF same THEN previous.created ELSE started
             with(t) == [sha |-> e.sha, branch |-> Identity(e).head, marked |-> TRUE,
                         created |-> created, synced |-> t]
         IN IF same /\ with(previous.synced) = previous THEN previous ELSE with(started)

WriteSet ==
    /\ task.pc = "write"
    /\ assets' = [assets EXCEPT ![task.target] = Marked(task.event, task.previous)]
    /\ task' = [task EXCEPT !.pc = "save"] /\ UNCHANGED <<tracked, started>>

\* Only a canonical writer saves the tracked state.
SaveTracked ==
    /\ task.pc = "save"
    /\ tracked' = IF IsCanonicalWriter(task.event) THEN "canonical" ELSE tracked
    /\ task' = Idle /\ UNCHANGED <<assets, started>>
\* A run that fails stops anywhere.
FailRun == task.pc # "idle" /\ task' = Idle /\ UNCHANGED <<assets, tracked, started>>

BranchNext == Decide \/ ResolveSet \/ WriteSet \/ SaveTracked \/ FailRun
BranchSpec == BranchInit /\ [][BranchNext]_branchVars

-----------------------------------------------------------------------------
BranchTypeOK ==
    /\ \A n \in SetNames : assets[n].sha \in Nat /\ assets[n].synced \in 0..MaxBranchRuns
    /\ tracked \in {"none", "canonical"} /\ task.target \in SetNames
    /\ task.pc \in {"idle", "resolve", "write", "save"} /\ started \in 0..MaxBranchRuns

\* A set is only ever written by the branch it belongs to, in any order of runs
\* and whatever an earlier run tracked: a preview suffix names one branch, a
\* channel the branches of its code, and the canonical set the branch with the
\* canonical name (resolveBranchDecision, buildBranchSlug, index.ts:2613).
BranchesApart ==
    \A n \in SetNames : assets'[n] # assets[n] /\ assets[n] # NoAsset =>
       \/ assets'[n].branch = assets[n].branch
       \/ Strategy = "legacy"
       \/ ~assets'[n].marked /\ ~assets[n].marked
       \/ n.role = "channel" /\ ChannelOf(assets'[n].branch) = ChannelOf(assets[n].branch)

\* A rerun of the revision a branch stored last writes the stored bytes, and a
\* refresh keeps the birth the retention clock counts from
\* (embedSpecBranchMarker).
RerunsAreSilent ==
    \A n \in SetNames :
       (assets[n].marked /\ assets'[n].branch = assets[n].branch) =>
          /\ assets'[n].created = assets[n].created
          /\ (assets'[n].sha = assets[n].sha => assets'[n] = assets[n])

\* No sequence of runs on the branches breaks any of it.
BranchWritesAreSafe == [][BranchTypeOK' /\ BranchesApart /\ RerunsAreSilent]_branchVars
=============================================================================
