------------------------------- MODULE ReleaseCut -------------------------------
(***************************************************************************)
(* The release train: a cut (auto-release.yml, release-cut.mjs) plans the   *)
(* next version from the commits since the highest tag, waits for the       *)
(* publication of the tag before it, validates the release commit and       *)
(* pushes its tag; a release run (release.yml, verify-release-artifacts.mjs, *)
(* compare-release-versions.mjs) builds and publishes a tag, has it verified *)
(* end to end and advances the major alias.  One cut and one release run    *)
(* work at a time, and one more release run may be queued; tags are also    *)
(* pushed and moved, and release runs started, by hand.                     *)
(***************************************************************************)
EXTENDS Integers, Sequences, FiniteSets
CONSTANTS MaxMain,         \* bound: commits on main
          MaxReleaseFaults \* bound: failing calls, unlike builds, tags pushed or moved by hand
ASSUME ReleaseAssumption == MaxMain \in Nat \ {0} /\ MaxReleaseFaults \in Nat

VARIABLES
    mainline,   \* what kind each commit of main is, in their order
    vTags,      \* the version tags: the version, the one in the commit's manifest, and main's commit
    ghReleases, \* version -> the tarball of its GitHub release
    npm,        \* version -> the tarball the registry has
    majorAliases, \* the tags the major aliases stand for, one of each major version
    cut,        \* the cut
    release,    \* the release run
    queued,     \* the tag of the release run that waits
    relFaults
releaseVars == <<mainline, vTags, ghReleases, npm, majorAliases, cut, release, queued, relFaults>>

\* Conventional commits.
BumpKinds == [chore |-> 0, fix |-> 1, feat |-> 2, breaking |-> 3]
FirstVersion == <<1, 0, 0>>
NoVersion == <<0, 0, 0>>
NoTag == [v |-> NoVersion, pkg |-> NoVersion, src |-> 0]
IdleCut == [pc |-> "idle", head |-> 0, previous |-> NoTag, planned |-> NoVersion, local |-> NoVersion,
            started |-> FALSE]
IdleRelease == [pc |-> "idle", tag |-> NoTag, tgz |-> "x", onNpm |-> FALSE]
ReleaseInit ==
    LET first == [v |-> FirstVersion, pkg |-> FirstVersion, src |-> 1] IN
    /\ mainline = <<"fix">> /\ vTags = {first} /\ majorAliases = {first}
    /\ ghReleases = {<<FirstVersion, "x">>} /\ npm = {<<FirstVersion, "x">>}
    /\ cut = IdleCut /\ release = IdleRelease /\ queued = NoTag /\ relFaults = 0

RelFault == relFaults < MaxReleaseFaults /\ relFaults' = relFaults + 1
\* A call that answers, or one that fails.
Answers(ok) == IF ok THEN UNCHANGED relFaults ELSE RelFault
CutTo(pc) == cut' = [cut EXCEPT !.pc = pc]
EndCut == cut' = IdleCut
ReleaseTo(pc) == release' = [release EXCEPT !.pc = pc]
EndRelease == release' = IdleRelease
SameTrain == UNCHANGED <<vTags, mainline>>
SamePublic == UNCHANGED <<ghReleases, npm, majorAliases>>

\* compareReleaseVersions.
Older(a, b) == \/ a[1] < b[1]
               \/ a[1] = b[1] /\ a[2] < b[2]
               \/ a[1] = b[1] /\ a[2] = b[2] /\ a[3] < b[3]
Newest(tags) == CHOOSE t \in tags : \A u \in tags : ~Older(t.v, u.v)
Released(v) == \E r \in ghReleases : r[1] = v
TarballOf(v, where) == {r[2] : r \in {r \in where : r[1] = v}}

\* parseConventionalBump: the greatest bump of the commits since the tag.
ConventionalBump(previous, head) ==
    LET ranks == {0} \cup {BumpKinds[mainline[k]] : k \in (previous.src + 1)..head}
    IN  CHOOSE r \in ranks : \A q \in ranks : q <= r
ApplyBump(v, rank) ==
    IF rank = 3 THEN <<v[1] + 1, 0, 0>> ELSE IF rank = 2 THEN <<v[1], v[2] + 1, 0>> ELSE <<v[1], v[2], v[3] + 1>>
\* selectNextVersion: a version that has a tag is passed over, on the patch axis.
NextVersion(v, rank) ==
    LET first == ApplyBump(v, rank)
        ahead == {<<first[1], first[2], first[3] + k>> : k \in 0..Cardinality(vTags)}
        free == {w \in ahead : \A t \in vTags : t.v # w}
    IN  CHOOSE w \in free : \A u \in free : ~Older(u, w)
\* planRelease, from the highest tag ever cut; none when nothing shippable landed.
PlanVersion(head) ==
    LET previous == Newest(vTags)  rank == ConventionalBump(previous, head)
    IN  IF rank = 0 THEN NoVersion ELSE NextVersion(previous.v, rank)

\* A release run of a tag takes the place of the one that waits.
Enqueue(t) == IF release.pc = "idle" /\ queued = NoTag
              THEN release' = [IdleRelease EXCEPT !.pc = "verify", !.tag = t] /\ UNCHANGED queued
              ELSE queued' = t /\ UNCHANGED release
Quiet == UNCHANGED <<release, queued>>

MergeToMain(kind) ==
    /\ Len(mainline) < MaxMain /\ mainline' = Append(mainline, kind)
    /\ UNCHANGED <<vTags, cut, relFaults>> /\ SamePublic /\ Quiet

PlanRelease ==
    /\ cut.pc = "idle" /\ SameTrain /\ SamePublic /\ Quiet
    /\ \E ok \in BOOLEAN : \* the remote's tags cannot be listed: the cut refuses
          /\ Answers(ok)
          /\ cut' = IF ok THEN [IdleCut EXCEPT !.pc = "reconcile", !.head = Len(mainline),
                                    !.previous = Newest(vTags), !.planned = PlanVersion(Len(mainline))]
                    ELSE IdleCut

\* The tags the train cut: their manifest says their version.  An unanswered view is no release.
CutTags == {t \in vTags : t.pkg = t.v}
Latest == Newest(CutTags)
AliasIsDue == cut.planned = NoVersion /\ Latest \notin majorAliases
ReleaseActive(t) == (release.pc # "idle" /\ release.tag.v = t.v) \/ queued.v = t.v
\* Mutant: publication is not waited for.
SkipReconcile ==
    /\ cut.pc = "reconcile" /\ SameTrain /\ SamePublic /\ UNCHANGED relFaults /\ Quiet
    /\ CutTo(IF cut.planned # NoVersion THEN "execute" ELSE "start")
\* The train waits for the publication of the latest tag, and without a new
\* release for the alias to have it.
ReconcilePrior ==
    /\ cut.pc = "reconcile" /\ SameTrain /\ SamePublic
    /\ \E answer \in {"ok", "none", "fail"} :
          /\ Answers(answer = "ok")
          /\ IF answer = "fail" THEN EndCut /\ Quiet
             ELSE IF CutTags # {} /\ (answer = "none" \/ ~Released(Latest.v) \/ AliasIsDue)
             THEN EndCut /\ IF ReleaseActive(Latest) THEN Quiet ELSE Enqueue(Latest)
             ELSE CutTo(IF cut.planned # NoVersion THEN "execute" ELSE "start") /\ Quiet

\* executeRelease plans again; a receipt, a test or a build that fails leaves no tag.
ExecuteRelease ==
    /\ cut.pc = "execute" /\ SameTrain /\ SamePublic /\ Quiet /\ UNCHANGED relFaults
    /\ \/ PlanVersion(cut.head) # NoVersion
          /\ cut' = [cut EXCEPT !.pc = "push", !.local = PlanVersion(cut.head)]
       \/ PlanVersion(cut.head) = NoVersion /\ CutTo("push")
       \/ EndCut
\* The planned tag: there is none when another was cut, and one the remote has
\* already is rejected.  A push may start a release run, and its answer be lost.
PushTag ==
    /\ cut.pc = "push" /\ UNCHANGED mainline /\ SamePublic
    /\ IF cut.local # cut.planned \/ \E t \in vTags : t.v = cut.planned
       THEN EndCut /\ Quiet /\ UNCHANGED <<vTags, relFaults>>
       ELSE \E sent, ok, starts \in BOOLEAN :
              LET t == [v |-> cut.planned, pkg |-> cut.planned, src |-> cut.head] IN
              /\ Answers(sent /\ ok) /\ (ok => sent)
              /\ vTags' = IF sent THEN vTags \cup {t} ELSE vTags
              /\ IF sent /\ starts THEN Enqueue(t) ELSE Quiet
              /\ cut' = IF ok THEN [cut EXCEPT !.pc = "start", !.started = starts] ELSE IdleCut
\* A release run the push started is seen or, within the time it is given, not
\* seen; without a new release only a tag that has none is dispatched.
StartRelease ==
    /\ cut.pc = "start" /\ SameTrain /\ SamePublic /\ EndCut
    /\ \E answer \in {"ok", "none", "fail"} :
          LET t == IF cut.planned # NoVersion THEN CHOOSE u \in vTags : u.v = cut.planned ELSE cut.previous
              seen == IF cut.planned # NoVersion THEN cut.started ELSE Released(t.v) IN
          /\ Answers(answer = "ok")
          /\ IF answer = "fail" \/ (answer = "ok" /\ seen) THEN Quiet ELSE Enqueue(t)

\* A tag by hand at main's last commit, whose manifest has another version; a tag
\* moved there; a release run of any tag by hand.
BurnTag ==
    /\ RelFault /\ UNCHANGED <<mainline, cut>> /\ SamePublic /\ Quiet
    /\ LET v == NextVersion(Newest(vTags).v, 1)
       IN  vTags' = vTags \cup {[v |-> v, pkg |-> NoVersion, src |-> Len(mainline)]}
MoveVersionTag(t) ==
    /\ t.src # Len(mainline) /\ RelFault /\ UNCHANGED <<mainline, cut>> /\ SamePublic /\ Quiet
    /\ vTags' = (vTags \ {t}) \cup {[t EXCEPT !.src = Len(mainline), !.pkg = NoVersion]}
DispatchRelease(t) ==
    /\ RelFault /\ ~ReleaseActive(t) /\ UNCHANGED cut /\ SameTrain /\ SamePublic /\ Enqueue(t)

NextRelease ==
    /\ release.pc = "idle" /\ queued # NoTag
    /\ release' = [IdleRelease EXCEPT !.pc = "verify", !.tag = queued] /\ queued' = NoTag
    /\ UNCHANGED <<cut, relFaults>> /\ SameTrain /\ SamePublic
\* The tag's form and the manifest's version, the gates, the tarball; another
\* build of a commit may differ in its bytes.
VerifyPackage ==
    /\ release.pc = "verify" /\ SameTrain /\ SamePublic /\ UNCHANGED <<cut, queued>>
    /\ \E tgz \in {"x", "y"} :
          /\ Answers(tgz = "x")
          /\ \/ release.tag.pkg = release.tag.v /\ release' = [release EXCEPT !.pc = "publish", !.tgz = tgz]
             \/ EndRelease
\* verifyReleaseArtifacts again, then the assets, which replace what is there.
PublishGitHub ==
    /\ release.pc = "publish" /\ SameTrain /\ UNCHANGED <<cut, queued, npm, majorAliases>>
    /\ \E ok \in BOOLEAN :
          /\ Answers(ok)
          /\ IF ok THEN /\ ghReleases' = {r \in ghReleases : r[1] # release.tag.v}
                                            \cup {<<release.tag.v, release.tgz>>}
                        /\ ReleaseTo("npm")
             ELSE EndRelease /\ UNCHANGED ghReleases
\* The registry keeps the first tarball of a version, which the run compares with
\* its own; what fails before that leaves the GitHub release authoritative.
PublishNpm ==
    /\ release.pc = "npm" /\ SameTrain /\ UNCHANGED <<cut, queued, ghReleases, majorAliases>>
    /\ \E ok, stored \in BOOLEAN :
          LET v == release.tag.v
              after == IF TarballOf(v, npm) = {} /\ (ok \/ stored) THEN npm \cup {<<v, release.tgz>>} ELSE npm IN
          /\ Answers(ok) /\ (ok => stored)
          /\ npm' = after
          /\ IF ~ok THEN ReleaseTo("e2e")
             ELSE IF TarballOf(v, after) = {release.tgz} THEN release' = [release EXCEPT !.pc = "e2e", !.onNpm = TRUE]
             ELSE EndRelease
VerifyReleaseE2e ==
    /\ release.pc = "e2e" /\ SameTrain /\ SamePublic /\ UNCHANGED <<cut, queued, relFaults>>
    /\ ReleaseTo("alias") \/ EndRelease
AliasOf(v) == {t \in majorAliases : t.v[1] = v[1]}
\* An older candidate leaves the alias; a tag that is elsewhere by now stops it.
AdvanceMajorAlias ==
    /\ release.pc = "alias" /\ SameTrain /\ UNCHANGED <<cut, queued, ghReleases, npm>> /\ EndRelease
    /\ \E ok \in BOOLEAN :
          LET v == release.tag.v IN
          /\ Answers(ok)
          /\ majorAliases' = IF ok /\ release.tag \in vTags /\ \A t \in AliasOf(v) : ~Older(v, t.v)
                             THEN (majorAliases \ AliasOf(v)) \cup {release.tag}
                             ELSE majorAliases

ReleaseNext ==
    \/ \E kind \in DOMAIN BumpKinds : MergeToMain(kind)
    \/ PlanRelease \/ ReconcilePrior \/ ExecuteRelease \/ PushTag \/ StartRelease
    \/ BurnTag \/ \E t \in vTags : MoveVersionTag(t) \/ DispatchRelease(t)
    \/ NextRelease \/ VerifyPackage \/ PublishGitHub \/ PublishNpm \/ VerifyReleaseE2e \/ AdvanceMajorAlias
ReleaseSpec == ReleaseInit /\ [][ReleaseNext]_releaseVars
--------------------------------------------------------------------------------
\* "Publication must finish for the already-public immutable tag before another
\* version is cut" (auto-release.yml), whichever calls fail and whatever is tagged
\* or dispatched by hand.
OneUnpublished == Cardinality({t \in CutTags : ~Released(t.v)}) <= 1
\* A later version holds later commits (planRelease, selectNextVersion) ...
VersionsFollowCommits == \A t, u \in CutTags : Older(t.v, u.v) <=> t.src < u.src
\* ... and unless a tag by hand hid them, breaking ones a new major version.
BreakingIsMajor ==
    vTags = CutTags =>
        \A t, u \in vTags : (\E k \in (t.src + 1)..u.src : mainline[k] = "breaking") => t.v[1] < u.v[1]
\* What the registry and GitHub have of a version that a run has on npm is what the
\* run built and has verified.
OneTarball ==
    release.onNpm => /\ TarballOf(release.tag.v, npm) = {release.tgz}
                     /\ TarballOf(release.tag.v, ghReleases) = {release.tgz}
\* An alias is of a published tag, and never goes back (advance-major-alias).
AliasesPublished == \A t \in majorAliases : Released(t.v) /\ t.pkg = t.v
AliasesAdvance ==
    \A t \in majorAliases : \E u \in majorAliases' : u.v[1] = t.v[1] /\ ~Older(u.v, t.v)
\* A version's tarball on npm never changes, and a released version stays so.
PublicForGood == npm \subseteq npm' /\ \A r \in ghReleases : \E q \in ghReleases' : q[1] = r[1]

\* The train publishes in order, once, and what it verified.
ReleaseCutIsSafe ==
    [][/\ (OneUnpublished /\ VersionsFollowCommits /\ BreakingIsMajor /\ OneTarball /\ AliasesPublished)'
       /\ AliasesAdvance /\ PublicForGood]_releaseVars
================================================================================
