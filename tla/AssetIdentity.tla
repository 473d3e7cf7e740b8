----------------------------- MODULE AssetIdentity -----------------------------
(***************************************************************************)
(* Which asset a canonical run takes for its own (index.ts): the release   *)
(* label and the names made from it, the keys under which the tracked        *)
(* state file holds specification and collection ids, its scoping to the   *)
(* selected workspace, and the decision to regenerate collections for an   *)
(* unchanged specification.  Runs of one repository follow one another     *)
(* with inputs of every kind; inside a run, the stages SpecElection and    *)
(* BootstrapRun model step by step are single steps that work or fail.     *)
(***************************************************************************)
EXTENDS Integers, Sequences, FiniteSets, SequencesExt
CONSTANTS RunInputs,      \* the inputs of runs: see Needs, AssetName and Key
          AssetIds, AssetRoles, CloudWorkspaces,
          HomeWorkspace,  \* the one selection finds or creates when none is known
          NoId,
          Unseen,         \* a workspace that these credentials cannot view
          MaxIdentityRuns, MaxIdentityFaults
ASSUME IdentityAssumption ==
    /\ NoId \notin AssetIds \cup CloudWorkspaces /\ Unseen \notin CloudWorkspaces \cup {NoId}
    /\ HomeWorkspace \in CloudWorkspaces /\ "baseline" \in AssetRoles
    /\ \A i \in RunInputs : /\ i.workspace \in CloudWorkspaces \cup {NoId} /\ i.collMode \in {"refresh", "version"}
                            /\ i.linked \in CloudWorkspaces \cup {NoId, Unseen}
    /\ MaxIdentityRuns \in Nat /\ MaxIdentityFaults \in Nat

VARIABLES hubSpecs,       \* AssetIds -> the specification with this id
          hubCollections, \* AssetIds -> the collection with this id
          stateFile,        \* .postman/resources.yaml: the workspace and the two maps
          onboard         \* the run
identityVars == <<hubSpecs, hubCollections, stateFile, onboard>>

NoHubAsset == [ws |-> NoId, name |-> <<>>, key |-> <<>>, text |-> NoId]

\* refs/heads/x, refs/tags/x and x are one label, refs/pull/x is pull-x, and a
\* run of other characters becomes one dash.
Normalize(ref) ==
    LET prefixed == IF ref.kind = "pull" THEN <<"pull", "-">> \o ref.text ELSE ref.text
        dashed == [k \in DOMAIN prefixed |-> IF prefixed[k] = "/" THEN "-" ELSE prefixed[k]]
    IN  FoldLeft(LAMBDA acc, ch : IF ch = "-" /\ acc # <<>> /\ Last(acc) = "-" THEN acc ELSE Append(acc, ch),
                <<>>, dashed)
\* The input, or else what the event's ref says.
ReleaseLabel(i) == IF i.label.text # <<>> THEN Normalize(i.label) ELSE Normalize(i.ref)
NeedsLabel(i) == i.specMode = "version" \/ (i.scope = "full" /\ i.collMode = "version")

AssetName(i, mode) == IF mode = "version" THEN Append(i.project, ReleaseLabel(i)) ELSE i.project
RoleName(role, name) == IF role = "baseline" THEN name ELSE <<role>> \o name
Legacy(name) == <<"[Baseline]">> \o name
\* Mutant: all releases of a path share a key.
SpecKeyPath(i) == <<i.path>>
\* The tracked file's key of a specification: its path, and the release in version mode.
SpecKey(i) == IF i.specMode = "version" THEN <<i.path, ReleaseLabel(i)>> ELSE <<i.path>>

Lookup(map, keys) == LET hits == {e \in map : e.key \in keys} IN
                     IF hits = {} THEN NoId ELSE (CHOOSE e \in hits : TRUE).id
Put(map, key, id) == {e \in map : e.key # key} \cup {[key |-> key, id |-> id]}

NoTrackedState == [ws |-> NoId, specs |-> {}, collections |-> {}]
\* Mutant: the ids are kept whatever the workspace.
KeepIds(file, selected) == [file EXCEPT !.ws = selected]
\* Tracked ids count only in the workspace tracked with them.
ScopeToWorkspace(file, selected) ==
    IF file = NoTrackedState \/ (file.ws # NoId /\ file.ws = selected) THEN file
    ELSE [NoTrackedState EXCEPT !.ws = selected]

\* The workspace that the repository is linked to goes before the workspace-id,
\* and that before the tracked workspace.
SelectedWorkspace(i, file) ==
    IF i.linked \in CloudWorkspaces THEN i.linked ELSE IF i.workspace # NoId THEN i.workspace ELSE file.ws

IdleRun == [pc |-> "idle", input |-> NoId, file |-> NoId, ws |-> NoId, persist |-> FALSE, deferred |-> FALSE,
            spec |-> NoId, unchanged |-> FALSE, ids |-> [r \in AssetRoles |-> NoId],
            verified |-> TRUE, skipped |-> FALSE, before |-> NoId, runs |-> 0, faults |-> 0]
IdentityInit ==
    /\ hubSpecs = [a \in AssetIds |-> NoHubAsset] /\ hubCollections = [a \in AssetIds |-> NoHubAsset]
    /\ stateFile = NoTrackedState
    /\ onboard = IdleRun

In == onboard.input
\* What the run's document and root content make of a role's collection.
Desired(role) == <<role, In.doc, In.content>>
EndRun(outcome) == onboard' = [onboard EXCEPT !.pc = outcome]

\* A new run reads the file; a mode that needs a label and has none ends it.
StartOnboarding ==
    /\ onboard.pc \in {"idle", "saved", "failed"} /\ onboard.runs < MaxIdentityRuns
    /\ \E i \in RunInputs :
          LET scoped == IF i.scope = "full" THEN stateFile
                        ELSE ScopeToWorkspace(stateFile, SelectedWorkspace(i, stateFile))
          IN  onboard' = [IdleRun EXCEPT !.input = i, !.file = scoped, !.deferred = scoped # stateFile,
                            !.pc = IF NeedsLabel(i) /\ ReleaseLabel(i) = <<>> THEN "failed" ELSE "preflight",
                            !.before = [specs |-> hubSpecs, collections |-> hubCollections, file |-> stateFile],
                            !.runs = onboard.runs + 1, !.faults = onboard.faults]
    /\ UNCHANGED <<hubSpecs, hubCollections, stateFile>>

\* The tracked specification is read, and one that cannot be read ends the run, as
\* does a link to a workspace that cannot be viewed; then the workspace is linked,
\* given, tracked, adopted by its name or created, and persisted unless it was
\* only found by name or its ids were put aside.
PreflightOnboarding ==
    /\ onboard.pc = "preflight"
    /\ LET id == Lookup(onboard.file.specs, {SpecKey(In)})
           known == SelectedWorkspace(In, onboard.file)
       IN  IF (id # NoId /\ hubSpecs[id] = NoHubAsset) \/ In.linked = Unseen THEN EndRun("failed") /\ UNCHANGED stateFile
           ELSE \E persist \in BOOLEAN :
                  /\ known # NoId => persist
                  /\ LET w == IF known # NoId THEN known ELSE HomeWorkspace IN
                     IF ~persist /\ In.scope = "with-additional"
                     THEN EndRun("failed") /\ UNCHANGED stateFile
                     ELSE /\ onboard' = [onboard EXCEPT !.pc = "resolve", !.ws = w, !.persist = persist,
                                                        !.spec = id, !.file.ws = IF persist THEN w ELSE @]
                          /\ stateFile' = IF persist /\ ~onboard.deferred
                                        THEN [onboard.file EXCEPT !.ws = w] ELSE stateFile
    /\ UNCHANGED <<hubSpecs, hubCollections>>

\* Whoever gives a collection's id names the collection.
Named(name) == CHOOSE a \in AssetIds \cup {NoId} :
                  IF \E b \in AssetIds : hubCollections[b].name = name
                  THEN a # NoId /\ hubCollections[a].name = name ELSE a = NoId
\* Ids of the roles: an input, or the tracked directory of the role's name; two
\* roles with one id end the run before any asset is written.
Directories(role) == LET name == AssetName(In, In.collMode) IN
                     {RoleName(role, name)} \cup (IF role = "baseline" THEN {Legacy(name)} ELSE {})
ResolveCollections ==
    /\ onboard.pc = "resolve"
    /\ LET ids == [r \in AssetRoles |->
                     IF In.scope # "full" THEN NoId
                     ELSE IF r = "baseline" /\ In.baseline # <<>> THEN Named(In.baseline)
                     ELSE Lookup(onboard.file.collections, Directories(r))]
       IN  IF \E r, q \in AssetRoles : r # q /\ ids[r] = ids[q] /\ ids[r] # NoId
           THEN EndRun("failed") ELSE onboard' = [onboard EXCEPT !.pc = "spec", !.ids = ids]
    /\ UNCHANGED <<hubSpecs, hubCollections, stateFile>>

\* A tracked specification is updated by its id unless it has this document; else
\* the one of this name, workspace and document is adopted or one is created.
SyncSpec ==
    /\ onboard.pc = "spec"
    /\ LET name == AssetName(In, In.specMode)
           twins == {a \in AssetIds : hubSpecs[a].ws = onboard.ws /\ hubSpecs[a].name = name
                                      /\ hubSpecs[a].text = In.doc}
           free == {a \in AssetIds : hubSpecs[a] = NoHubAsset}
           own == [ws |-> onboard.ws, name |-> name, key |-> SpecKey(In), text |-> In.doc]
       IN  IF onboard.spec # NoId
           THEN /\ hubSpecs' = [hubSpecs EXCEPT ![onboard.spec].text = In.doc]
                /\ onboard' = [onboard EXCEPT !.pc = "collections", !.unchanged = hubSpecs' = hubSpecs]
           ELSE IF twins # {} \/ free # {}
           THEN LET chosen == CHOOSE chosen \in IF twins # {} THEN twins ELSE free : TRUE IN
                /\ hubSpecs' = IF twins # {} THEN hubSpecs ELSE [hubSpecs EXCEPT ![chosen] = own]
                /\ onboard' = [onboard EXCEPT !.pc = "collections", !.spec = chosen]
           ELSE EndRun("failed") /\ UNCHANGED hubSpecs
    /\ UNCHANGED <<hubCollections, stateFile>>

\* Without generated collections the specification is all there is to record.
SkipCollections ==
    /\ onboard.pc = "collections" /\ In.scope # "full"
    /\ onboard' = [onboard EXCEPT !.pc = "save"]
    /\ UNCHANGED <<hubSpecs, hubCollections, stateFile>>

\* Version mode and an unchanged specification: the digests of the collections'
\* receipts are compared with the content now configured; what cannot be read
\* is not evidence.
VerifyReceipts ==
    /\ onboard.pc = "collections" /\ In.scope = "full"
    /\ \E unread \in SUBSET {r \in AssetRoles : onboard.ids[r] # NoId} :
          LET compared == {r \in AssetRoles : onboard.ids[r] # NoId} \ unread
              asked == onboard.unchanged /\ In.collMode = "version" /\ In.content # NoId
          IN  /\ (unread # {} => asked)
              /\ onboard' = [onboard EXCEPT !.pc = "generate",
                    !.verified = asked => \A r \in compared : hubCollections[onboard.ids[r]].text = Desired(r),
                    !.skipped = unread # {}]
    /\ UNCHANGED <<hubSpecs, hubCollections, stateFile>>

\* An unchanged specification keeps its collections, unless configured content
\* could have changed since (refresh) or was seen to differ (version).
KeepsCollections ==
    onboard.unchanged /\ ~(In.content # NoId /\ In.collMode = "refresh") /\ onboard.verified
GenerateCollections ==
    /\ onboard.pc = "generate"
    /\ IF KeepsCollections
       THEN onboard' = [onboard EXCEPT !.pc = "save"] /\ UNCHANGED hubCollections
       ELSE \E f \in [AssetRoles -> AssetIds] :
              /\ \A r, q \in AssetRoles : r # q => f[r] # f[q]
              /\ \A r \in AssetRoles :
                    IF onboard.ids[r] # NoId THEN f[r] = onboard.ids[r] /\ hubCollections[f[r]] # NoHubAsset
                    ELSE hubCollections[f[r]] = NoHubAsset
                         /\ \A a \in AssetIds : hubCollections[a] = NoHubAsset => f[r] <= a \/ a \in {f[q] : q \in AssetRoles}
              /\ hubCollections' = [a \in AssetIds |->
                    IF \E r \in AssetRoles : f[r] = a
                    THEN LET r == CHOOSE r \in AssetRoles : f[r] = a IN
                         [ws |-> IF onboard.ids[r] # NoId THEN hubCollections[a].ws ELSE onboard.ws,
                          name |-> RoleName(r, AssetName(In, In.collMode)), key |-> <<>>, text |-> Desired(r)]
                    ELSE hubCollections[a]]
              /\ onboard' = [onboard EXCEPT !.pc = "save", !.ids = f]
    /\ UNCHANGED <<hubSpecs, stateFile>>

\* The file gets the workspace if it is certain, the specification under its key
\* and the collections under their directories, in one write at the end.
RecordCurrentResources(file) ==
    [ws |-> IF onboard.persist THEN onboard.ws ELSE file.ws,
     specs |-> Put(file.specs, SpecKey(In), onboard.spec),
     collections |-> IF In.scope # "full" THEN file.collections
                     ELSE {e \in file.collections : \A r \in AssetRoles : e.key # RoleName(r, AssetName(In, In.collMode))
                                                                         \/ onboard.ids[r] = NoId}
                          \cup {[key |-> RoleName(r, AssetName(In, In.collMode)), id |-> onboard.ids[r]] :
                                   r \in {q \in AssetRoles : onboard.ids[q] # NoId}}]
SaveOnboarding ==
    /\ onboard.pc = "save"
    /\ stateFile' = RecordCurrentResources(onboard.file)
    /\ EndRun("saved")
    /\ UNCHANGED <<hubSpecs, hubCollections>>

\* A failure after the first write restores the assets (BootstrapRun); the file
\* keeps the workspace it got before.
FailOnboarding ==
    /\ onboard.pc \in {"spec", "collections", "generate", "save"} /\ onboard.faults < MaxIdentityFaults
    /\ hubSpecs' = onboard.before.specs /\ hubCollections' = onboard.before.collections
    /\ onboard' = [onboard EXCEPT !.pc = "failed", !.faults = @ + 1]
    /\ UNCHANGED stateFile

IdentityNext ==
    \/ StartOnboarding \/ PreflightOnboarding \/ ResolveCollections \/ SyncSpec \/ SkipCollections
    \/ VerifyReceipts \/ GenerateCollections \/ SaveOnboarding \/ FailOnboarding
OnboardingSpec == IdentityInit /\ [][IdentityNext]_identityVars

\* Some tracked id is of another workspace than the tracked one.
Mixed(file) == \E e \in file.specs : file.ws # NoId /\ hubSpecs[e.id].ws # file.ws
SpecsWritten == {a \in AssetIds : hubSpecs'[a] # hubSpecs[a]}
CollectionsWritten == {a \in AssetIds : hubCollections'[a] # hubCollections[a]}

\* A run that publishes writes no specification but one of its own key or a new
\* one, so a release never overwrites another release; no collection but one that
\* had its role's name before, an input id or a new one; and a scope without
\* generated collections stays in its workspace, unless a full-scope run had
\* tracked another workspace's specification there.
OwnAssetsOnly ==
    onboard.pc \in {"spec", "generate"} /\ onboard'.pc # "failed" =>
        /\ \A a \in SpecsWritten :
              /\ hubSpecs[a] # NoHubAsset => hubSpecs[a].key = SpecKey(In)
              /\ In.scope # "full" /\ ~Mixed(onboard.file) => hubSpecs'[a].ws = onboard.ws
        /\ \A a \in CollectionsWritten :
              hubCollections[a] # NoHubAsset =>
                  \/ hubCollections[a].name = In.baseline
                  \/ \E r \in AssetRoles : hubCollections[a].name = RoleName(r, AssetName(In, In.collMode))
\* The file comes to hold another workspace's specification only when workspace-id
\* or the link of the repository moves a full-scope run to that other workspace.
TrackedInOnePlace ==
    ~Mixed(stateFile) /\ stateFile' # stateFile /\ Mixed(stateFile') =>
        In.scope = "full" /\ SelectedWorkspace(In, stateFile) # stateFile.ws
\* A run that fails leaves the file's ids as they were.
FailureKeepsIds ==
    onboard.pc # "failed" /\ onboard'.pc = "failed" =>
        stateFile'.specs = onboard'.before.file.specs /\ stateFile'.collections = onboard'.before.file.collections
\* A full-scope run that saved left every collection it names with the document
\* and the configured root content of its inputs, unless the receipts could not
\* be read in version mode or no content is configured any more.
CollectionsCurrent ==
    onboard.pc = "save" /\ onboard'.pc = "saved" /\ In.scope = "full" /\ ~onboard.skipped /\ In.content # NoId =>
        \A r \in AssetRoles : onboard.ids[r] # NoId => hubCollections[onboard.ids[r]].text = Desired(r)

\* A run works on its own assets, whatever runs with other releases, scopes,
\* workspaces and content came before it.
IdentityStep == OwnAssetsOnly /\ TrackedInOnePlace /\ FailureKeepsIds /\ CollectionsCurrent
IdentityIsSafe == [][IdentityStep]_identityVars
================================================================================
