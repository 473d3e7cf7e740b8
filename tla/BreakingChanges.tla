---------------------------- MODULE BreakingChanges ----------------------------
(***************************************************************************)
(* The breaking-change gate: a comparison source is chosen by the mode, a   *)
(* pinned tool is installed into the runner's temporary directory (which   *)
(* other runs use, and killed ones leave as it is), two reports are taken,  *)
(* and a run whose check fails ends before it publishes anything.           *)
(***************************************************************************)
EXTENDS Integers, FiniteSets
CONSTANTS
    Specs,          \* versions of a definition
    NoSpec,
    Breaks,         \* pairs <<old, new>> of which the tool reports a marker
    Redirects,      \* redirects of one download
    MaxCheckFaults, \* bound: failing steps and kills
    MaxChecks       \* bound: runs

ASSUME BreaksAssumption == Breaks \subseteq Specs \X Specs /\ NoSpec \notin Specs
ASSUME CheckBoundsAssumption ==
    {Redirects, MaxCheckFaults} \subseteq Nat /\ MaxChecks \in Nat \ {0}

VARIABLES
    hub,    \* the specification in Spec Hub
    tool,   \* [binary, archive]: none, broken or pinned
    check,  \* the run
    checks  \* [runs, faults]
changeVars == <<hub, tool, check, checks>>

Modes == {"off", "pr-native", "baseline-only", "previous-spec"}
Files == {"none", "broken", "pinned"}
CheckEnded == {"published", "refused", "killed"}
CheckAt(pc) == check.pc = pc
CheckTo(pc) == check' = [check EXCEPT !.pc = pc]
CheckFault == checks.faults < MaxCheckFaults /\ checks' = [checks EXCEPT !.faults = @ + 1]
CheckWorks == UNCHANGED checks
\* A failing step ends the check, and the run with it.
CheckFails == CheckFault /\ check' = [check EXCEPT !.pc = "refused", !.hit = TRUE]

\* What a run finds: the version it brings, its mode, and the specifications in
\* Spec Hub (as read), the target branch and the baseline file.
FreshCheck(m, s, read, t, b) ==
    [pc |-> "source", mode |-> m, new |-> s, previous |-> read, target |-> t, baseline |-> b,
     base |-> NoSpec, hops |-> 0, report |-> "none", status |-> "none", hit |-> FALSE, raced |-> FALSE]
ChangeInit ==
    /\ hub \in Specs \cup {NoSpec}
    /\ tool = [binary |-> "none", archive |-> "none"]
    /\ checks = [runs |-> 1, faults |-> 0]
    /\ \E m \in Modes, s \in Specs, t \in Specs \cup {NoSpec}, b \in Specs \cup {NoSpec} :
        \E read \in {hub, NoSpec} : check = FreshCheck(m, s, read, t, b)

Base(r) ==
    CASE r.mode = "previous-spec" -> r.previous
      [] r.mode = "pr-native"     -> IF r.target # NoSpec THEN r.target ELSE r.baseline
      [] r.mode = "baseline-only" -> r.baseline
      [] r.mode = "off"           -> NoSpec

\* Nothing to compare with: the check is skipped.
ResolveSource ==
    /\ CheckAt("source") /\ UNCHANGED <<hub, tool>>
    /\ \/ /\ check' = [check EXCEPT !.base = Base(check), !.status = IF Base(check) = NoSpec THEN "skipped" ELSE @,
                                    !.pc = IF Base(check) = NoSpec THEN "publish" ELSE "installed"]
          /\ CheckWorks
       \/ check.mode # "off" /\ CheckFails

\* Mutant: a binary that is there is taken for the pinned one.
TrustInstalled ==
    /\ CheckAt("installed") /\ UNCHANGED <<hub, tool>> /\ CheckWorks
    /\ CheckTo(IF tool.binary = "none" THEN "download" ELSE "report")
\* A binary that answers with the pinned version is used, any other removed.
UseInstalled ==
    /\ CheckAt("installed") /\ UNCHANGED hub
    /\ IF tool.binary = "pinned" THEN CheckTo("report") /\ UNCHANGED tool
       ELSE CheckTo("download") /\ tool' = [tool EXCEPT !.binary = "none"]
    /\ CheckWorks

\* Redirects are followed, to https only, and counted; what arrives replaces
\* the archive of an earlier run.
Download ==
    /\ CheckAt("download") /\ UNCHANGED hub
    /\ \/ tool' = [tool EXCEPT !.archive = "pinned"] /\ CheckTo("digest") /\ CheckWorks
       \/ /\ tool' = [tool EXCEPT !.archive = "broken"]
          /\ check' = [check EXCEPT !.pc = "digest", !.hit = TRUE] /\ CheckFault
       \/ /\ check.hops < Redirects /\ check' = [check EXCEPT !.hops = @ + 1]
          /\ UNCHANGED tool /\ CheckWorks
       \/ tool' \in {tool, [tool EXCEPT !.archive = "broken"]} /\ CheckFails

CheckDigest ==
    /\ CheckAt("digest") /\ UNCHANGED <<hub, tool>> /\ CheckWorks
    /\ CheckTo(IF tool.archive = "pinned" THEN "extract" ELSE "refused")

\* Entries that leave the directory and links are refused, then the binary is
\* searched for; here and when copying, a step may fail.
Extract ==
    /\ CheckAt("extract") /\ UNCHANGED <<hub, tool>>
    /\ \/ CheckTo("copy") /\ CheckWorks
       \/ CheckFails
CopyBinary ==
    /\ CheckAt("copy") /\ UNCHANGED hub
    /\ \/ tool' = [tool EXCEPT !.binary = "pinned"] /\ CheckTo("report") /\ CheckWorks
       \/ tool' \in {[tool EXCEPT !.binary = f] : f \in {"none", "broken"}} /\ CheckFails

\* The JSON report: its markers are counted when it can be read.  A report that
\* cannot, with exit code 0, is warned about and the check goes on.
Report ==
    /\ CheckAt("report") /\ UNCHANGED <<hub, tool>>
    /\ \/ /\ check' = [check EXCEPT !.pc = "summary",
                          !.report = IF <<check.base, check.new>> \in Breaks THEN "breaking" ELSE "clean"]
          /\ CheckWorks
       \/ \E r \in {"unread", "crashed"} :
             check' = [check EXCEPT !.pc = "summary", !.report = r, !.hit = TRUE] /\ CheckFault
       \/ CheckFails

FailsOn(report, summarised) ==
    \/ report \in {"crashed", "breaking"}
    \/ ~summarised
\* The summary; then the report files and the status.
Summarize ==
    /\ CheckAt("summary") /\ UNCHANGED <<hub, tool>>
    /\ \E summarised \in BOOLEAN :
        /\ IF summarised THEN CheckWorks ELSE CheckFault
        /\ check' = [check EXCEPT !.status = IF FailsOn(check.report, summarised) THEN "failed" ELSE "passed",
                                  !.hit = @ \/ ~summarised, !.pc = "gate"]

\* index.ts: a failed check sets its outputs and throws.
Gate ==
    /\ CheckAt("gate") /\ UNCHANGED <<hub, tool>> /\ CheckWorks
    /\ CheckTo(IF check.status = "failed" THEN "refused" ELSE "publish")

PublishSpec ==
    /\ CheckAt("publish") /\ UNCHANGED tool
    /\ \/ hub' = check.new /\ CheckTo("published") /\ CheckWorks
       \/ UNCHANGED hub /\ CheckFails

\* A peer publishes between the read of the previous content and this run's write.
PeerPublishes ==
    /\ check.pc \notin CheckEnded /\ CheckFault
    /\ \E s \in Specs \ {hub} : hub' = s
    /\ check' = [check EXCEPT !.raced = TRUE] /\ UNCHANGED tool

KillCheck ==
    /\ check.pc \notin CheckEnded /\ CheckFault /\ CheckTo("killed") /\ UNCHANGED hub
    /\ tool' \in (CASE CheckAt("download") -> {tool, [tool EXCEPT !.archive = "broken"]}
                    [] CheckAt("copy") -> {[tool EXCEPT !.binary = f] : f \in {"none", "broken"}}
                    [] OTHER -> {tool})

NextCheck ==
    /\ check.pc \in CheckEnded /\ checks.runs < MaxChecks
    /\ checks' = [checks EXCEPT !.runs = @ + 1]
    /\ \E s \in Specs : check' = FreshCheck(check.mode, s, hub, check.target, check.baseline)
    /\ UNCHANGED <<hub, tool>>

ChangeNext ==
    \/ ResolveSource \/ UseInstalled \/ Download \/ CheckDigest \/ Extract \/ CopyBinary
    \/ Report \/ Summarize \/ Gate \/ PublishSpec \/ PeerPublishes \/ KillCheck \/ NextCheck
ChangeSpec == ChangeInit /\ [][ChangeNext]_changeVars
--------------------------------------------------------------------------------
\* TypeOK: the variables keep their types.
ChangeTypeOK ==
    /\ hub \in Specs \cup {NoSpec} /\ tool \in [binary : Files, archive : Files]
    /\ check.mode \in Modes /\ check.base \in Specs \cup {NoSpec} /\ check.hops \in 0..Redirects
    /\ check.status \in {"none", "skipped", "passed", "failed"}
    /\ checks.runs \in 1..MaxChecks /\ checks.faults \in 0..MaxCheckFaults

\* A version that breaks what it was to be compared with is never published,
\* except on a report that could not be read; and in the previous-spec mode what
\* it replaces is what it was compared with, unless a peer wrote in between
\* (docs/spec-handling.md:37, openapi-changes.ts).
BreakingRefused ==
    CheckAt("publish") /\ check'.pc = "published" /\ check.mode # "off" =>
       \A old \in {IF check.mode = "previous-spec" THEN check.previous
                   ELSE IF check.mode = "pr-native" /\ check.target # NoSpec THEN check.target
                   ELSE check.baseline}
                  \cup (IF check.mode = "previous-spec" /\ check.previous # NoSpec /\ ~check.raced
                        THEN {hub} ELSE {}) :
          <<old, check.new>> \in Breaks => check.report = "unread"

\* The reports are taken with the pinned tool, whatever earlier runs left.
PinnedToolReports == CheckAt("report") => tool.binary = "pinned"

\* What a killed or failed run left in the temporary directory never fails a
\* later one: a run is refused for a break it found or a failure of its own.
LeftoversHarmless ==
    CheckAt("refused") => check.hit \/ <<check.base, check.new>> \in Breaks

\* No step of a check, of a peer or of the run after a killed one breaks any of it.
ChangeCheckIsSafe ==
    [][ChangeTypeOK' /\ PinnedToolReports' /\ LeftoversHarmless' /\ BreakingRefused]_changeVars
================================================================================
