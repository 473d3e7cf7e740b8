# A TLA+ model of the Postman bootstrap action

The program takes an API definition from a repository and makes a Postman
workspace match it: it finds or creates the workspace, uploads the definition to
Spec Hub, converts it to three collections (baseline, smoke, contract), imports
or updates them, links them to the specification, tags them, and saves the asset
ids in `.postman/resources.yaml`. It is one Node process per workflow run, but
several workflow runs can work on one workspace, every remote call can fail or
be executed although its answer was lost, and the process can be killed between
any two calls. Nothing on the server side is transactional and Spec Hub has no
create-if-absent. That is where the program is hard, and that is what the
modules here model.

Paths below are relative to the repository root; `client` is
`src/lib/postman/postman-gateway-assets-client.ts` and `index` is `src/index.ts`.

## 1. Inventory

| component | state it keeps | operations | interacts with | what is hard | what makes it correct |
|---|---|---|---|---|---|
| Specification upload and election (client 662-800, 806-893) | none of its own; the list of specifications with the asset name lives in Spec Hub | `uploadSpecWithOutcome`, `findSpecificationsByExactName`, `electStableNewSpecificationIdentity`, `deleteSpec` | orchestrator; concurrent runs through Spec Hub | two runs list, create and list again; lists lag; answers get lost | runs agree on one id, nobody deletes a peer's specification, the last one is never deleted, bounded waits end |
| Bootstrap orchestration (index 2528-4502, `runBootstrapInner`) | `specId`, `createdNewSpec`, `previousSpecContent`, `deepUpdateSnapshots`, `attemptedDeepUpdates`, results per role; `.postman/resources.yaml` | preflight, specification stage, conversion, snapshot, two write lanes, verification, link, tag, save, `failOwned`, the outer catch | all of the others | partial failure, rollback beside a second lane, kills and reruns | a failed run restores what it found; saved ids exist and are verified; reruns do not duplicate |
| Convergent import and deep update (client 3481-3950, `convergent-collection-root.ts`, `collection-semantic-receipt.ts`) | deterministic root ids, journaled roots, receipts | `importV2Collection`, `deepUpdateV2Collection`, `deleteVerifiedRunOwnedCollections` | orchestrator | a timed out import may be executed later or twice | one root per name, only run-owned roots are deleted |
| Import semaphore (client 2326-2337) | `active`, queue of waiters | `withImportMutation` | convergent import | a woken waiter increments a microtask later than it was let in | at most two imports at once, every waiter is woken |
| Workspace inventory observer (client 148-200) | one in-flight read, its waiters | `observe` | settle loops | a read older than a peer's write is shared | no loop decides on a read that began before it |
| Granular collection update (client 3957-4330, `collection-delta.ts`) | a plan of creates, patches, moves and deletes | `planCollectionDelta`, `applyCollectionDelta` | write lanes | stopping half way, name collisions, order of children | the applied plan yields the desired tree |
| Multi-file specification (client 982-1500, `spec-file-reconcile.ts`, `spec-tree.ts`) | the previous bundle | `uploadSpecBundle`, `reconcileSpecBundle`, `planSpecFileReconcile` | orchestrator | one of several file calls fails; the root file is special | new bundle or old bundle, the root is never missing |
| Random-root imports (client 4847-5009) and duplicate finals (client 5010-5237) | run-owned ids; names and branch markers in the inventory | `electImportedCollectionIdentity`, `findAdoptableSameMarkerCollection`, `reconcileDuplicateFinalCollections` | convergent import | two runs delete what each takes for the loser; inventory without descriptions | strangers are never deleted, one copy remains |
| Spec Hub generation (client 1532-1980) | generation task ids | `generateCollection` | orchestrator (protocol path) | lock by a peer, ambiguous start of a task | one task per role, bounded retries |
| Workspace provisioning (index 1725-2056, `workspace-selection.ts`, `git-url.ts`, client 1989-2320) | workspace id, canonical choice | `provisionWorkspace`, `createWorkspace`, link to the repository | orchestrator | ambiguous create, several candidates, a workspace linked elsewhere | a run never takes a workspace linked to another repository |
| Branch decision (`branch-decision.ts`, `context.ts`) and identity of assets (index 1944-3100, `collection-root-content.ts`) | the tracked ids of `.postman/resources.yaml`, markers on assets | `resolveBranchDecision`, preview names, release labels, keys of the state file | `runAction`, orchestrator | slugs and labels truncated to the same name; runs with other releases, scopes, workspaces before this one | a run writes only what is its own |
| Additional collections and tracked state (`additional-collections.ts`) | the state file | `loadAdditionalCollectionFiles`, `syncAdditionalCollections` | orchestrator | created one by one, state saved in between; files moved, edited and linked between runs | reruns do not duplicate authored collections, each file has its own |
| Access token provider (`token-provider.ts`) | token, one in-flight mint, cached preflight | `refresh`, `mintWithRetry`, `preflightMintCredential`, `mintOnce` | every gateway call | concurrent 401 answers | one mint at a time, a failed mint is forgotten |
| Paged list reads (client 358-376) | cursor | `collectPagedList` | election, adoption | repeated cursor, 200 page limit | ends, and never silently loses a match |
| Internal integration adapter (`internal-integration-adapter.ts`) | none | linking, relation settling, governance | link stage | eventual consistency of relations, a lock held by a peer | tags and state are written only for what is linked |
| Local artifacts (`local-collection-artifacts.ts`) | snapshot of a tree | `writeTreeAtomic`, `materializeLocalCollectionArtifacts`, restore | orchestrator | failure between two renames | the old tree or the new one |
| Extensible collection client (`postman-ec-client.ts`) | none | item by item creation of protocol collections | protocol path | partial creation | |
| Definition acquisition, safe fetch (`acquire-definition-bundle.ts`, `safe-spec-fetch.ts`) | closure of files | local closure, remote references, redirects | preflight | cycles, limits, budgets shared by retries | the whole closure or a refusal |
| Breaking-change check (`openapi-changes.ts`) | the installed tool | choice of the baseline, pinned install, two reports, verdict | runs before anything is published | a torn install left by a killed run, a tool replaced by a peer | a breaking change is refused, a refusal has a reason |
| Contract matching (`contract-index.ts`, `collection-contracts.ts`, `contract-root-script.ts`, `contract-dispatch.ts`) | scripts in a collection | index, match, shard, install, dispatch | conversion, contract role | templates that overlap, several servers, a script that exceeds its limit | a request is asserted by its own operation, once |
| Local generation and example repair (`local-openapi-collection-generation.ts`, `request-example-repair.ts`, `deterministic-schema-faker.ts`) | the process-global faker | conversion, repair of examples, role payloads | conversion | two conversions share one faker; recursive and composed schemas | sent examples are valid, authored ones are kept |
| Entry points and credentials (index 4628-4760, `cli.ts`, `credential-identity.ts`) | memoised session, team scope of three clients | gated validation, preflight, team detection, scoping | everything | a session that cannot be resolved, clients built before the team is known | a gated run sends nothing, all writes have one scope |
| Release tooling (`scripts/probe-multifile-spec-sync.mjs`, `rebind-multifile-receipt.mjs`, `release-cut.mjs`, `.github/scripts/verify-e2e-release.mjs`, workflows) | committed receipt, tags, releases | capability probe, cut, publication, gate | client reads the receipt | unanswered calls, tags moved by hand, queued runs replaced | evidence claims no more than was seen, releases are ordered |
| MCP contract collections (`protocols/mcp`) | collection variables `mcp_*`, shared by the items of all servers | parse, build, gate; the scripts before and after each HTTP item | protocol path; live servers | what one server leaves in the variables when the next one is tested; pages, subscriptions and sessions over several items | a passed run exercised every server, under a handshake and a session of its own |
| Protocol contract collections (`protocols/grpc`, `graphql`, `soap`, `dispatch.ts`) | none beyond the collection being built | build items and probes, instrument them, refuse; the tests of an item against an answer | protocol path; live servers | the script of an item is found by a name that may repeat; nested and recursive types; tests that skip | every operation has its item and its own tests, and an answer passes just when it meets the contract |
| Documents in, documents out: lints and the parsers of the protocols, AsyncAPI | none | pure transformations | preflight, conversion | data, not control | tested by example in the repository |
| GitHub client, masking, telemetry, advice texts, recording and packing scripts | none worth a model | | | | |

The hazards, each at the line where it bites, and the properties that would catch
it, are in `PROJECT.json` under `hazards`.

## 2. Modules

| module | what it is |
|---|---|
| `SpecIdentity` | abstract: what the upload promises its concurrent callers |
| `SpecElection`, `MCSpecElection`, `SpecElectionProofs` | the single-file upload, call by call, for any set of concurrent runs; instances; theorems about every number of runs, and about the agreement of two |
| `BootstrapRun`, `MCBootstrapRun`, `BootstrapRunProofs` | the stages, write lanes and rollback routes of one branch's runs, with kills and reruns; instances; theorems |
| `CollectionImport`, `MCCollectionImport` | whole-collection imports of several processes, convergent and with random roots, with late execution, receipts, recovery and verified deletion; instances |
| `MCGatewayClient` over `TokenProvider`, `InventoryReads`, `ImportLanes`, `GeneratedCollections` | the parts of the gateway client in which calls of one process, or runs, wait for each other |
| `MCRepository` over the next seventeen | the mechanisms of the action that share no state with one another |
| `SpecFiles` | the multi-file specification: create, three reconcile policies, verification, rollback |
| `Workspaces` | selection, creation and sharing of the workspace by several runs |
| `SortedSets` | the sequence that a sort makes of a set |
| `CuratedCollections`, `CuratedFiles` | one curated collection item by item; the files of the directory over several runs |
| `CollectionDelta` | the planner of the granular update, and its calls with failures and fallback |
| `SpecRelations` | links of collections to the specification, their settling, what is saved then |
| `BranchRuns` | branch tiers, preview suffixes, markers |
| `LocalArtifacts` | generated trees written into the checkout, with kills between renames |
| `DefinitionClosure` | local bundle and remote references with their limits |
| `ProtocolBootstrap` | the contract collection of a definition that is not OpenAPI |
| `BreakingChanges` | the breaking-change gate and its tool |
| `ContractMatch` | operations, requests, script shards, dispatch |
| `AssetIdentity` | names, keys and ids over runs with inputs of every kind |
| `McpLane` | the contract collection of an MCP manifest, and its run against the servers |
| `ProtocolContracts`, `MCContracts` | the contract collections of gRPC, GraphQL and SOAP documents, and what their tests say of an answer; instances |
| `DuplicateFinals` | adoption and collapse of collections with one final name |
| `ExampleRepair`, `MCExampleRepair` | repair of examples, the transaction around it, the queue for the faker |
| `MCRelease` over `CapabilityProbe`, `ReleaseCut`, `ReleaseGate`, `RunEntry` | from a commit to a release, and from a start of the released program to its writes |
| `GatewayClientProofs` | theorems about `TokenProvider`, `InventoryReads`, `ImportLanes`, `GeneratedCollections` and `CollectionImport` |
| `RepositoryProofs` | theorems about `DuplicateFinals`, `SpecRelations`, `BreakingChanges`, `LocalArtifacts` and `DefinitionClosure` |
| `UpdateProofs` | theorems about `CollectionDelta`, `CuratedCollections`, `CuratedFiles` and `SpecFiles` |
| `OwnershipProofs` | theorems about `Workspaces`, `BranchRuns`, `ProtocolBootstrap` and `AssetIdentity` |
| `ProtocolProofs` | theorems about `McpLane` and `ProtocolContracts` |
| `ReleaseProofs` | theorems about `ReleaseGate`, `RunEntry`, `CapabilityProbe` and `ReleaseCut` |

`BootstrapRun` sees the upload as `SpecIdentity` promises it to a single caller (find
the one match or create); `SpecElection` opens that call up. The property
`IdentitySpec` shows that the detailed upload implements the abstract one.
Likewise `BootstrapRun` sees an import as a write with an outcome (`CollectionImport`
opens it), and `AssetIdentity` sees a stage as a step that works or fails.

`MCGatewayClient`, `MCRepository` and `MCRelease` are harnesses: they extend modules that
have no variable in common and let each behaviour exercise one of them (`part`, `stage`),
with the others at rest in one initial state. That is one run per harness in place of
one per module, with the same states. In the places where the code
makes these parts interact, the interaction is inside the module: several writers in
`SpecRelations`, `Workspaces`, `DuplicateFinals`, `GeneratedCollections` and
`ReleaseGate`, the branch tier and the entry point in `BranchRuns` and `RunEntry`, the
gate and the publication in `BreakingChanges`.

### SpecElection and the code

Spec Hub is `alive` (specifications with the exact name), `listed` (those that list
reads return), `creator` (whose create allocated an id) and `late` (creates whose
answer was lost and that may still be executed). A run is a record with the locals
of the three functions: `id` is `createdSpecId` and then the elected `specId`,
`mine` is `createdByThisRun`, `poll`, `last`, `streak` and `shared` are the loop
variables of the election, `tries` counts the reads of the wait for self-cleaning
peers, and `owned` is the `created` result that the orchestrator keeps as
`createdNewSpec`. Every action is one awaited gateway call and the synchronous code
up to the next, so runs interleave wherever the event loops of two processes can.

| action | code |
|---|---|
| `FindBefore`, `AdoptExisting` | the lookup, `adoptExactMatch`, and the error for several matches |
| `Post`, `PostAmbiguous`, `LandLate`, `Recover` | the create, the ambiguous transport error and the read that follows it |
| `Poll` | one read of the election loop, and what the loop decides when it stops |
| `DeleteLoser`, `AwaitPeers`, `PushToWinner`, `ReadBack` | the clean-up of the own loser, the bounded wait, the update of a winner made by a peer, the read-back |
| `Publish`, `FailLate`, `RollBack` | what the orchestrator does with the result: later stages, and `restorePreviousSpecContent` for a specification it owns |
| `Fault` | a definite error of any call, or a killed process |

Three choices matter. `before` in the election is always empty, because the upload
returns or throws when the first list is not, so the branch of the code for a
non-empty `before` is not modelled. A list answer with an empty id counts as a
rejected call. The order of ids is the order of `localeCompare`; the model uses
numbers, and the server may allocate them in any order.

### BootstrapRun and the code

The content of an asset is `Old` (produced by an earlier document), `New` (by this
one) or `Mixed` (a granular update that stopped half way); `Absent` is no asset.
`file` is `.postman/resources.yaml`. `run` holds the locals of `runBootstrapInner`
by their names in the code. `StartWrite` and `WriteRole` are separate, so
two lanes interleave between the start and the end of each other's writes;
`CollectWrites` is the `Promise.all` / `Promise.allSettled` that joins them.
`FailOwned` and `Catch` are the two rollback routes, which the code runs one
after the other: `failOwned` restores and rethrows into the outer catch, which
restores again when the first attempt did not clear the set.

Every remote call has the outcomes: executed; rejected and not executed; rejected
but executed. A rejected write is executed by the time it is rejected or never; what
lands later than that is the matter of `CollectionImport`. An accepted
write whose stored content differs from the payload is an outcome too, because the
code verifies for it.

Abstracted: workspace selection, additional collections, local artifact trees, the
manifest and the receipts (modules of their own); the form of the previous content (it is
restored in normalised form, which the action compares as equal); linking is assumed
configured. An adopted specification (found by name but not tracked) is overwritten
and nothing restores it on failure: the model has this, and `FailedRunRestores`
is accordingly about tracked assets.

`Init` allows every combination of tracked and left-over assets that runs
can leave, with one restriction: a saved specification that already has this
document's content has current collections. Runs killed at the wrong place and
spec-only runs break the restriction; the run `BootstrapRun_stale` shows
what happens then.

### The other modules and the code

A state variable is a local of the function that `map` names, what its process shares, or
what the service holds; an action is one awaited call with the synchronous code up to the
next. Where a module takes a larger step it says so in its header, and it does so only
where nothing else can change what the step reads: the polls of one loop in
`CollectionImport` and `SpecRelations`, a row of the probe in a workspace of its own in
`CapabilityProbe`, a stage that works or fails in `AssetIdentity`. A call
may be executed, refused, or executed without an answer; where the service can still execute it
later (`CollectionImport!late`, the specification locked by a generation, relations that
appear late), that is an action of the service.

Some choices a reader should know:

- `ImportLanes` has the microtask between waking a waiter and its `active += 1`; the continuations
  run in the order they were queued before the next answer arrives, which is
  what makes the limit of two hold.
- `TokenProvider` takes the settling of a mint, its `finally` and the resumption of the
  waiters as one step, because they are microtasks of one turn.
- `CollectionDelta` reads the planner as an operator: matched items by path of names, operations
  in the code's order, and then sends them. The text of an item stands for all of its
  fields but the order.
- `BranchRuns` takes the six digits of a name's hash as distinct. It has slugs and their truncation,
  because those decide whether two branches meet.
- `ContractMatch` has documents of two or three operations with literal, parameter and mixed
  segments, servers and script sizes; what the assertions say about payloads is left out.
- `ExampleRepair` has schemas by kind with their bounds, and values by JSON type; the faker draws
  from a small set that contains valid and invalid values. Only integers are numbers, the budget of calls is the depth limit, and
  `exclusiveMinimum` leaves a plain minimum to the faker as the code does.
- `CuratedFiles` has real paths and links; a path outside of the checkout is refused where the
  code refuses it.
- `McpLane` has `kept`, the collection variables, and beside them `live`, what the present server really did;
  the properties compare the two. A server answers what it likes, an answer passes or fails the tests that decide a variable
  as the script says, and any other test (media type, shapes) may fail it. Items have the names of the JSON-RPC calls, an item's
  id is its kind and name, `pm.execution.skipRequest` is there (without it the guards send anyway), and lints of the manifest only warn.
- `ProtocolContracts` has what the parsers leave of a document: operations, and the fields of messages and types. A value is right or wrong for
  its type, at any one place that was selected (GraphQL) or any set of places (gRPC); an envelope keeps the rules of the WSDL and the
  binding or breaks them (SOAP). Which places are asserted, selected or skipped is the code's, and so is which test looks at what. Warnings, and
  tests of the request that hold of every request as it is built, are left out.
- `RunEntry` enumerates the combinations of inputs, account and failing session; the input `odd` is at most
  one unusual thing at a time.

## 3. Runs

Passing runs:

| run | asks | bounds |
|---|---|---|
| `SpecElection_pair` | types, agreement without duplicates, deletion of own losers only, termination, and refinement of `SpecIdentity`, with lagging lists | 2 runs, the polling constants of the code (10 polls, quiet streak 2, third poll, 5 waits), lists lag by less than the singleton window |
| `SpecElection_ambiguous` | what holds without any timing assumption: the last specification survives, rollback deletes only what the run created | 3 runs, ambiguous creates, late failures, one fault; 4 polls and 2 waits, because nothing here depends on how long a loop waits |
| `BootstrapRun_onefault` | a successful run's collections are current; reruns converge | full scope, 1 failing call |
| `BootstrapRun_restarts` | what a failed run reports as restored is restored, after its lanes and from earlier snapshots; the tracked state names existing assets and verified ones; reruns never duplicate the specification | both scopes, granular updates, 3 failing calls (a failed write, a failed `failOwned`, a failed catch), 1 kill |
| `CollectionImport` | shared, foreign and receipt-less roots are safe; a failed import leaves nothing of its own; every import ends | 2 convergent imports of different revisions and a random-root one, 2 lost or refused calls, every earlier root |
| `MCGatewayClient` | one mint for a burst of 401 answers and no stale resend; settle loops decide on reads of their own and end; two writes at most and none lost; generating runs end and leave one collection | 3 calls, 2 mints; 2 loops, 3 pages with a limit of 2; 4 writes in 3 lanes; 2 generating runs, 1 fault |
| `MCRepository` | one property per part, below | per part, below |
| `MCRelease` | evidence is what was seen of this source; releases are ordered, published once and verified; a gate passes only evidence of its own dispatch; gated runs send nothing and all writes have one scope | 2 legs, 1 commit, 1 fault; 3 commits, 2 faults; 2 verifiers with one correlation, 1 fault; 2 squads, 2 session attempts, 2 faults |

The parts of `MCRepository`:

| property | says, in short | bounds |
|---|---|---|
| `ReconcileIsSafe` | the service has the files the run reports, a failed reconcile restores the closure of the root, only an unshared specification is deleted | 4 paths of which two share a base name, 5 bundles, 2 faults |
| `ProvisioningIsSafe` | a created workspace is shared by the runs of one repository, nothing is left over but what was lost, a personal workspace in an account with sub-teams is that of a run without its team, roles and deletion touch own workspaces only | 2 runs with two spellings of one URL, one of them with everything and the other with everything, without a session identity or with nothing; 3 ids, 1 fault |
| `CuratedIsSafe` | a successful update left the whole tree, no root is forgotten, new items follow the removal of the old ones; every file of the directory has its own collection | tree of 3 items in 2 runs, 2 faults; 8 directories of 3 files, 2 runs, 1 fault |
| `DeltaIsSafe` | an update ends whole or falls back, only reorderings are missed, what is desired stays | all order and text combinations over 4 requests and a folder, 5 operations, 2 faults |
| `LinkingIsSafe` | what a run saves is linked, unless a peer asked for something else | 2 runs with different options, 2 collections |
| `BranchWritesAreSafe` | branches do not write each other's assets, reruns are silent | 3 runs, names that meet after truncation |
| `InstallIsSafe` | a failure restores the destinations, a success replaced them all, some whole tree survives every kill, only an interrupted restore tears one | 3 trees, 3 failing operations, 2 runs |
| `LoadIsExact` | a load gives the closure or refuses for a reason | 7 documents, depth 2, 5 files, 6 references |
| `ContractIsSafe` | a done run's contract collection is whole, any is a beginning of the definition in its order, none is forgotten, the replaced one is gone | 3 runs, 3 faults |
| `ChangeCheckIsSafe` | only the pinned tool reports, leftovers do not refuse, a breaking change is not published | 2 versions, 2 runs, 2 faults |
| `GeneratedIsSafe` | requests are asserted by their own operation, once, refused on ties only; repaired examples are valid, and nothing leaks out of the faker's use; a run of an MCP collection passes only a server that was exercised; every operation of a gRPC, GraphQL or SOAP document has tests, its own or those of a namesake, and an item passes just the answers that meet the contract, apart from the cases of section 4 | 14 documents of one to five operations, messages of depth 3 with `MAX_SHAPE_DEPTH` 2, every status, media type and single flaw; pairs and triples of operations; 2 conversions, 1 fault; 7 manifests with up to 3 servers, 6 tools, 2 page probes |
| `IdentityIsSafe` | a run takes only its own assets, the file mixes workspaces only when a full run is moved to another one, failure keeps ids, collections are current | 3 runs over 8 and more inputs, three of them with a linked repository, 4 ids, 1 fault |
| `DuplicatesAreSafe` | strangers are never deleted, one copy remains, the own ones collapse to the lowest | 2 runs, 3 collections, 1 fault |

A name like `ReconcileIsSafe` is a conjunction of named parts, each with its comment in
its module. Several are written as `[][P' /\ A]_vars` so that one property holds the
state invariants together with what a step may never do; `P` is true of the initial states, because each
of them is a resting state of the program.

Bounds. Two runs suffice where the code compares one run with everything else it
sees, three where a loser can have a loser. Faults are two where an error path has itself an error
path (restore, fallback, delete after create), else one. Retries and polls are
reduced to one or two where the loop body does not depend on the count, and are the
constants of the code where agreement depends on them (`SpecElection_pair`).

Two parameters of `SpecElection` state what the election needs and the code cannot
enforce: `Window` (a peer that saw nothing has a listed specification before any
run makes that poll) and `LoneAdopters` (a run that finds a specification finds
it when no peer is still electing). `RunsAgree` (that is, `HoldersAgree`, `NoDuplicateRetained`,
`SomeRunPublishes`) and `IdentitySpec` depend on `Window` and on timing in general, and
on there being two runs: with three and the window of the singleton poll, the third may
adopt a loser before it is deleted. What holds without any of this is in `SpecElection_ambiguous`
and in the theorems.

Fairness. `SpecElection!FairSpec` has weak fairness of each run's own steps: a run is
one sequential process that the runtime keeps executing, and every loop in it is
bounded; and of a created specification becoming listed. `BootstrapRun!FairSpec` has weak
fairness of the run's steps and of starting an unpublished run again, which
is what a workflow's next execution does. `FairImportSpec` and `ClientSpec` have weak fairness
of each coroutine of the process, of the continuations that are due and of the answer to a
request (every request of the client has a timeout); nothing is
assumed of peers, of what the inventory shows, nor of a generation that holds the lock.
No other specification states fairness, and none is needed for its properties.
Deadlock is not checked because the runs of the program end.

The symmetry in `SpecElection_ambiguous` permutes the runs, which are
interchangeable; ids are ordered and are not permuted. Runs with liveness use none.

## 4. Where the code and its documents differ

Four runs each check one statement of a document, comment or test and find it violated;
the quotations are in `PROJECT.json` under `findings`.

| run | statement | what happens |
|---|---|---|
| `SpecElection_peerdelete` | a run deletes only its own created loser | after an ambiguous create the one listed match counts as created by this run, and is deleted as its loser when a lower id appears |
| `BootstrapRun_stale` | refresh regenerates the collections | an unchanged specification skips regeneration, also when a spec-only run changed the specification and the collections are behind |
| `BootstrapRun_specskipped` | a failure after the update restores the previous content | when a collection cannot be restored, the catch block throws before it reaches the specification |
| `MCExampleRepair_authored` | valid examples are preserved | a valid example is repaired against the first alternative when its schema contains alternatives |

What the properties leave out. Modelling met the following cases; the properties
exclude them explicitly, in their antecedents, and a change of the code there should revisit them.

- `SpecElection`: a quiet singleton is accepted about 1.5 s after the create; a slower peer
  that then gets a lower id leaves two specifications. A winner that saw only itself owns
  the specification, so its late failure deletes what a peer adopted since.
- `BootstrapRun`: deterministic imports are not in the ledger of owned ids and stay after a failed
  link or tag, for the next run to adopt. The run has no root content, which in refresh mode regenerates the
  collections of an unchanged specification (index 3539, `AssetIdentity`), the receipt that `Verify` compares (identity, name, marker,
  digest) is the content, and a granular update is one write: the mixed collection that a kill between two of its calls leaves
  is not modelled here (`CollectionDelta` has the states between the calls).
- `CuratedFiles`: a moved file whose old path now holds another file loses its collection in
  a run that succeeds; files of one name are refused only in the scope
  `spec-with-additional-collections`.
- `DuplicateFinals`: the reconciliation is wired and not called; its winner may be gone already
  when the others are deleted (`others`), and a 500 answer to every attempt passes for a
  deletion.
- `Workspaces`: without a memoized session identity `getTeams` answers `[]` (client 627), so nothing tells
  the run of sub-teams and it makes a personal workspace in such an account too; without a repository URL
  or a team id no workspace is looked for by its name and a second one is made (index 1785).
- `AssetIdentity`: the workspace that the repository is linked to goes before `workspace-id` and the tracked
  workspace (index 1771, 2773), and `workspace-id` before the tracked one. A full run that either
  moves keeps the old specification ids and saves them under the new workspace (`TrackedInOnePlace`
  names these runs). Raw refs
  of one label share assets; a protocol run takes any tracked path that contains `[Contract]`. A run that
  is given another release's baseline collection as `baseline-collection-id` renames it and tracks it under
  its own key beside the old one; both releases write it from then on. Two definitions with one project name and
  one document share the specification that the second adopts (`NamesApart`, section 5).
- `ContractMatch`: a resolver item whose script patch failed is skipped by later runs.
- `McpLane`: from six tools on the manifest is refused, because the sixth template has the id 8 that `resources/list` has
  (`MCP_REQUEST_ID_DUPLICATE`; `docs/generated-assertions.md:217` promises a template per tool). `resources/list` and
  `prompts/list` are always sent and a server that does not declare them fails, so a server with tools alone never passes. A second
  server that issues no session is sent the first one's id, and after a first server that failed, its cursor (`OwnSession`, `OwnCursor` say
  when not). An empty cursor ends the pages without the completeness test.
- `ProtocolContracts`: the test of GraphQL keys compares names sorted with `localeCompare` at generation with names sorted by code units at
  run time, so a conforming answer fails where the two orders differ (`idToken` and `identity`; `graphql/instrumenter.ts:339` means never to "false-fail a
  legitimate response"), and it fails an absent nullable field, which `:469` says never happens (`Misordered`). `selectFields` has no guard against
  a connection type among its own fields and recurses until the stack overflows (`Endless`). An empty 202 of a SOAP service is announced as "response body assertions are
  skipped", and the tests of the expected element and of WS-Addressing do not skip. One-way scripts of SOAP 1.2 carry two tests that read
  `accepted202` and `cleanXml`, which only request-response scripts declare, so they always fail (`undefined`). Operations of one name in two SOAP
  services all get the last one's tests (`Shadowed`).
- `RunEntry`: only the action looks for an organisation early; a reused workspace without
  `workspace-team-id` resets the scope; an unresolved session has no teams; a result file may
  fail to be written after the writes. A gated run may fetch the definition's URL.
- `CapabilityProbe`: a workspace create that throws after the POST leaves a workspace that no journal
  names; an unanswered read-back counts as no residue; two unreadable snapshots count as an
  atomic bulk.
- `ReleaseCut`: a version tag burnt by hand hides the commits before it; a rerun overwrites the
  GitHub assets before the integrity on npm is compared.
- `LocalArtifacts`: a destination that an interrupted restore left torn is what the next run snapshots;
  when that run fails too, its restore clears the tree and writes the torn one again (`NeverTorn` is about
  trees that were whole when their run began).
- `ExampleRepair`: pruning stops at a recursive definition; a required read-only name of an `allOf` sibling
  gets null; so do parameters whose text is empty.

## 5. Proofs

All theorems hold for any sets of runs, ids, roles, paths and definitions and any numbers of polls,
pages, lanes, retries, faults and kills, from the named assumptions that each module makes about its
constants. These say four kinds of things only: model values differ from each other and from
ids; bounds and limits are natural numbers, some at least one; a set that the program iterates over is not empty or is
listed once (`RoleOrder`, `TagOrder`, `EcTree`, `Trees`); and an input has the form of one (`Loads`, `Snapshots`, `Targets`). TLC evaluates every one of them
on the instances. Four theorems have a hypothesis of their own, stated where it is used and
explained below: `~ Ambiguous`, `PairTiming`, `Undisturbed` or `OneFaultBounds`, and `NamesApart`.

Every safety theorem goes the same way. The property is not inductive, so a strengthening is; there is one
lemma per action of the module, with one step per conjunct that the action can disturb, and
the last step is temporal. A strengthening says what the locals of a run know at each
of its `await`s about the state that others change in between, and that is where the argument is. TLC found
each of them to hold on the instance before it was proved. Where
the property is a part of what one harness checks (`MCGatewayClient`), the theorem states the named parts.

### The upload

`SpecElectionProofs`:

- `TypeCorrect`, `LowestAlwaysSurvives`, `RollbackIsOwn`: `[]TypeOK`,
  `[]LowestSurvives`, `[]RollsBackOnlyOwn`, with ambiguous creates, lagging lists,
  deaths and late failures.
- `OnlyOwnDeleted`: `DeletesOnlyOwn` when creates answer definitely (`~Ambiguous`). The
  run `SpecElection_peerdelete` shows that the assumption is needed.

`LowestSurvives` is not inductive: a loser deletes its id because a list it read some
time ago showed a lower one, and that one may be gone by now. The inductive invariant
`IInv` therefore adds `LoserHasLower` (below a loser's id one was created, so by
`LowestSurvives` one at or below that is still there or was rolled back) and
`Ownership` (a run that claims to have created its id did, until it adopts another). `TypeOK` needs
`Ownership` too, because the rollback deletes `run.id`. The proof has one lemma per
group of actions and a well-founded minimum (`LowestListed`) for the list that decides.

Of two runs, under `PairTiming` (two runs whose creates answer; `Window` no later than
the singleton poll and before the last one):

- `HoldersAlwaysAgree`: every run that holds an id holds the same one and it exists, whatever calls fail.
- `PairAgrees`: `RunsAgree` when no call fails, that is, with no duplicate retained and not both failing.
- `UploadImplementsIdentity`: the upload refines `SpecIdentity`, each step a step or a stutter.

`PairInv` says what settling proves: who has settled among several ids knows that all creates are
over (`AllCreated`), who has settled on an id holds the lowest with no create to come. `NoFaultInv` adds that the one failure
left is the slow loser, with the winner standing. With three runs the statement is false,
as section 3 says, so it cannot be generalised.

### The orchestrator

`BootstrapRunProofs`: `TypeCorrect`, `FailureRestores`, `LanesEndFirst`,
`SnapshotsFirst`, `StateNamesAssets`, `OneSpecification`, `SavedAfterProof`. None of these
properties is inductive. `IInv` says in addition what the locals know at each stage: they agree with the
state file that was read (`LocalsAgree`), a specification is held after its stage
(`SpecHeld`), a reused collection is as found or registered with a snapshot of what was found
(`Recoverable`), what the rollback routes have taken off their list is
restored unless they recorded a failure (`Restoring`), and what was skipped or verified
is current (`ProvedCurrent`). There is one lemma per action (`KeepSpecOK`, ...), under it one
step per conjunct, and the lemmas `SilentOK`, `ThrowOK` and `FailOwnedKeeps` for what
many actions share.

`PublishedIsCurrent` needs that whoever skips the regeneration finds synchronised collections
(`SyncedTogether`), and that is what kills, spec-only runs and failed rollbacks break
(`BootstrapRun_stale`). `CurrentUnlessDisturbed` proves it for any number of failing calls as long as
none of these three happened (`[]Undisturbed`). `CurrentDespiteOneFault` proves, with at most one failing call and no kill
(`OneFaultBounds`, the bounds of `BootstrapRun_onefault`), that none of them happens: its invariant follows the one fault
through the routes (a rollback runs only after it, so its restores work).

### The gateway client

`GatewayClientProofs`:

- `ImportsSafe` (`ImportsAreSafe`) and `FailedImportsLeaveNothing`: `ImportInv`
  says which root a run is bound for at each stage (`RoutesKept`), that a random root is absent or holds its run's
  payload (`RandomRootPure`), that each write to come, the late ones included, is of a tree its run may overwrite (`PutsAllowed`),
  and that a random run past its clean-up has left nothing while no call failed (`CleanWithoutFaults`).
- `TokensSafe` (`TokensAreSafe`): the promise handed out is the one mint that runs (`FlightIsTheMint`),
  and who waits waits for that one (`WaitersShareFlight`).
- `LoopsRestOnWholeReads`: the safety half of `LoopsSettle`. What a read has promised and
  not listed is on a page to come (`PromisesAhead`); a loop that joined a read under way has all of
  its delays left (`JoinersHaveDelays`), so it does not give up on that read.
- `LanesKeepTheirLimit`: the safety half of `LanesFlow`. The counter counts the writes in flight
  (`CountsSent`), and the microtasks due are at most a woken waiter and then a next write
  (`DueInOrder`), so the waiter finds the room that it was woken for.
- `SomeGeneratedStays`: the safety half of `GenerationSettles`. A collection that a run deleted leaves a lower one,
  deleted or not (`DeletedLeaveLower`), because who drops its own has seen a lower one (`Observed`); so the lowest of
  all that were generated is alive. That there is a lowest is a well-founded minimum.

### The mechanisms of the action

`RepositoryProofs`:

- `DuplicatesSafe`: what a run takes for losers are own collections other than the lowest, and while it sees
  all there is, what is alive is its winner or still to be deleted (`Sound`).
- `LinksSafe`: what a run has read of the relations and not noted is not wrong (`Noted`), unless a peer asked for
  something else meanwhile (`raced`).
- `ChangeChecksSafe`: `Compared` says which specification, which tool and which report the verdict
  at each stage rests on.
- `InstallsSafe`: the destinations before the one under way are installed and those after it untouched
  (`InTurn`); the snapshot is what the run found (`Restorable`).
- `LoadExact`: all of `LoadIsExact`. `ReachSteps` says that `Within` is what its recursion says, `ReachCloses` that as many
  steps as there are documents reach all there is to reach; both by a least counterexample, since induction is out of the prover's
  reach. The queue is by distance and spans two levels (`InLevels`), and the references of a member that left it are acquired
  (`ReadSoFar`), so the level of the member at hand is acquired whole (`LevelIsAcquired`) and a new member is one level further, by no shorter path
  (`Distances`). Of the depth-first walk, the references of whatever was visited were visited, but for those left in the trail
  (`WalkedSoFar`, `Followed`).

`UpdateProofs`:

- `TreeUpdateSafe`: `TreeUpdateIsSafe`, the part of `CuratedIsSafe` about one collection. At each stage of its run the root
  holds the items of the document before the next one, and only the item under way may be there too
  (`TreeStageOK`); what is late to be listed is that item (`OnlyNodeLate`), so the reconciliation after its pause decides
  rightly; a half-created root is tracked, under way or cut off (`RootsKnown`).
- `FilesSynced`: `FilesAreSynced`, the other part; `CuratedSafe` joins the two. `FilesHold`: every file that a run has passed has an
  id, unless its own is yet to be given, and the collection of that id holds the last file passed that has it. `ClearOK`: the names
  and the known ids of a clear directory do not collide. `FilesApart`: the ids of its different files differ. `MadeOK`: each collection was
  made of one file. What is clear is decided before the run writes, so the invariant carries it through every call that breaks off
  (`GivenOut`, `GoesTo`).
- `ReconcileSafe`: all of `ReconcileIsSafe`. `PlanOK` says of what is left of a plan that it is the difference that remains, each
  path once, new files before the root and stale ones after it; `Between`, that the specification holds all files of
  whichever bundle its root is of. A call of such a plan keeps both (`PlanStep`, `BetweenStep`), and a rollback is one more plan, made of whatever
  the broken one left (`PlannedOpsOK`). `RunRests` says at each stage which bundle is the goal and whose the specification is.
- `DeltaSafe`: all of `DeltaIsSafe`. `DeltaPlanOK` says what the planner returns: every difference once, deletes before creates before
  the rest, and of the new items of one bucket the later first. `DeltaHeld`, `DeltaTexts` and `DeltaOrdered` say which items the
  collection has, with which text and in which order, when a given call of a given operation is next (`CallProgress`), the order unless kept
  siblings are reordered. A create names a neighbour that is there by then (`NeighbourHeld`). After the last call the collection is
  the desired one unless kept siblings are reordered (`PlanEnds`), and no call changes one that is as desired (`CallStays`).

These plans, and the files of a directory, are sets that the code sorts. `SortedSets` says what a sort returns without
recursion, and `AscendingSorts` proves it for every finite set and strict total order by counting what
precedes an element: the library has no fact about its sorting operator.

`OwnershipProofs`:

- `ProvisioningSafe`: a run holds at most the workspace that it created, or never heard of it (`RunOK`); roles are granted
  by runs that are done (`GrantsOK`); a run that creates without a team was told of no sub-teams (`SquadKnown`).
- `BranchWritesSafe`: what an asset set holds was written by a branch that names this set (`WrittenByOwner`).
- `ContractSafe`: the items before the next one are there once, those after it are not (`ItemsInOrder`), and what earlier
  runs left is a beginning of the definition (`ContractsInOrder`); a collection that is there is tracked, about to be, or one no run was told of (`AllTold`).
- `OnboardingKeeps`: `TrackedInOnePlace`, `FailureKeepsIds` and `CollectionsCurrent`, without hypotheses. The invariant
  relates the tracked file to the assets it names, and a run's copy of it to the file (`FileOK`, `ReadOK`, `PlaceOK`).
- `IdentitySafe`: all of `IdentityIsSafe`, that is, `OwnAssetsOnly` too, under `NamesApart`: names tell
  paths, releases and projects apart, and a baseline that is given is the run's own. `NamedInv` says that live assets and tracked
  entries have the names of some run's inputs. The inputs of `MCRepository` satisfy `NamesApart`; the code does not
  enforce it, and section 4 lists what happens without it (`AssetIdentity`).

`ProtocolProofs`:

- `LaneSafe`: all of `McpLaneIsSafe`, for any manifests, servers, pages and numbers of tools and page probes. That the gate finds complete
  what the builder builds is a counting argument over the pieces that a lap is joined of (`Piece`, `PieceJoined`, `PieceCovers`,
  `LapProperties`), which also says where in a lap each kind of item is (`Placed`, `KindPlaces`) and that a subscription is followed by its end (`Paired`). The
  invariant says at each place what the variables tell of the server at hand: `Handshaken`, and as long as no test failed `Exercised`, `Listed` (the names
  seen are those listed, and a cursor that is left means that a page probe is still to come) and `Subscribed`.
- `ContractsSafe`: all of `ContractsAreSafe`, for any set of gRPC, GraphQL and SOAP documents of the form that `ContractAssumption` says the parsers
  leave. The invariant `ContractInv` says at each stage which services the items stand for (`Whole`), that the scripts so far
  are those of the items before the next one, within the limit and with keys of their own (`Scripted`), and that an item that was run was run with
  its own script (`Called`); that every operation is covered at the end follows (`AllCovered`), and the verdicts do protocol by protocol
  (`ContractInvVerdicts`). `SelectionLevels` and `ShapeLevels` are functions recursive in the level: that they exist
  (`LevelsExist`, `ShapesExist`), that the level of a node of a shape is the length of its path, and that what is asserted is what is in sight
  (`AssertedIsInSight`, `InSightIsAsserted`) are shown by a first level at which it would fail.

`ReleaseProofs`:

- `GateSafe`: at each stage of a verifier, `Verified` says what it has established of the run it follows: own
  correlation, pinned head, first attempt.
- `EntrySafe`: `Admitted` says what has let a run come to its stage, `Written` under which scope and identity each write left.
- `ProbeHonest`: a row passes only on what the service did (`RowsBacked`), and a committed leg claims only that (`Committed`).
- `ReleaseTrainSafe`: versions are totally ordered and the bump of the newest tag is never taken, so the next version is
  that bump. `Ahead` says that a planned version is by now somebody's tag or still newer than all tags and of a later
  commit; only the newest tag of the train can be unreleased; `RunPublished` says what a release run has published at each stage.

## 6. Checked only by TLC

- Liveness under fairness, which the prover does not do: `EveryRunEnds`, `RerunsConverge`, `EveryImportEnds` and
  the leads-to parts of `LoopsSettle`, `LanesFlow` and `GenerationSettles`.
- `ContractMatch` and `ExampleRepair` (`GeneratedIsSafe`)
  have operators by recursion over data, the latter declared `RECURSIVE`: what these compute for every input needs induction,
  which is out of the prover's reach.
- Agreement of more than two runs, which is false without further timing.

The violated statements of section 4 are counterexamples by nature.

Two of the four parts of `GeneratedIsSafe`, `McpLaneIsSafe` and `ContractsAreSafe`, are proved (`LaneSafe`, `ContractsSafe`); the parts about
`ContractMatch` and `ExampleRepair` are what only TLC checks.

## 7. Not modelled

- Static lints, the parsers of all protocols, AsyncAPI, XSD payload tests, schema packs and the assertions of OpenAPI contract
  scripts about payloads: stateless transformations whose difficulty is data, and which
  the repository tests by example.
- The fields of items and of YAML and JSON documents, names and messages, except where they decide
  (slugs, labels, markers, titles).
- `syncCollection`, the smoke path of `injectTests` and `waitForGeneratedCollectionLinks`: the
  action does not call the first two, the third only reads.
- The GitHub client, masking of secrets, telemetry, advice texts, base URLs: thin or without
  effect on what the program does.
- An inherited `POSTMAN_BRANCH_DECISION` and the outputs of the gate (`BranchRuns`); the pull request
  that normalises a receipt (`ReleaseCut`).
- Recording and packing scripts, diagnostics under `scripts/`, recorded cassettes and the generated
  `dist`.
- The composition of the multi-file specification with `BootstrapRun`: its create, verification
  and rollback are in `SpecFiles`, as the orchestrator drives them, without the write lanes.
