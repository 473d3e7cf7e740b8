------------------------------ MODULE MCRepository ------------------------------
(***************************************************************************)
(* The mechanisms of the action that share no state with one another, side *)
(* by side: a behaviour exercises the one that part names, and the others  *)
(* rest in one of their initial states.                                    *)
(***************************************************************************)
EXTENDS SpecFiles, Workspaces, CollectionDelta,
        SpecRelations, BranchRuns, LocalArtifacts, DefinitionClosure,
        ProtocolBootstrap, BreakingChanges, ContractMatch, AssetIdentity,
        DuplicateFinals, CuratedFiles, MCExampleRepair, McpLane, MCContracts
CONSTANTS p1, p2, r1, r2,          \* runs
          a, b, c, d, f, x, root,  \* items and folders of collections
          doc, da, db, dc, dd, u, v \* documents
VARIABLE part

RepositoryVars == <<part, fileVars, workspaceVars, curatedVars, deltaVars,
                    relationVars, branchVars, artifactVars, closureVars,
                    ecVars, changeVars, matchVars, identityVars, dupVars, fileSyncVars, repairVars, laneVars,
                    contractVars>>

\* Files 1 and 2 and 3 in the top directory, 4 in a folder: 4 has the base name of 2.
FileFolders == (1 :> 0 @@ 2 :> 0 @@ 3 :> 0 @@ 4 :> 2)
BaseNames == (1 :> 1 @@ 2 :> 2 @@ 3 :> 3 @@ 4 :> 2)
Bundle(r, one, two, three, four) == [root |-> r, files |-> (1 :> one @@ 2 :> two @@ 3 :> three @@ 4 :> four)]
SomeBundles ==
    {Bundle(1, "x", "y", "x", NoFile), Bundle(1, "y", NoFile, "y", NoFile),
     Bundle(1, "y", NoFile, NoFile, "x"), Bundle(3, NoFile, NoFile, "x", NoFile),
     Bundle(1, "x", NoFile, "x", NoFile)}

Spelling == "https" :> "repo" @@ "ssh" :> "repo" @@ "other" :> "other"
SameUrl == p1 :> "https" @@ p2 :> "ssh"
\* A run with everything; one whose session told nothing; one with nothing.
Provision(repo, team, session) == [repo |-> repo, team |-> team, session |-> session]
Everything == Provision(TRUE, TRUE, TRUE)
SomeProvisions == {Everything, Provision(TRUE, TRUE, FALSE), Provision(FALSE, FALSE, FALSE)}

\* A folder with an item, and an item, under the root; x is of the old document.
TheTree == <<a, f, c>>
Folders == (a :> root @@ f :> root @@ c :> f @@ x :> f)

\* f is a folder of the top level; the keys' order is not the collection's.
Parents == f :> Top @@ a :> Top @@ b :> Top @@ c :> Top @@ d :> f
KeyOrder == f :> 1 @@ c :> 2 @@ a :> 3 @@ b :> 4 @@ d :> 5
DeltaTree(top, inner, folders, text) ==
    [order |-> (<<Top, TRUE>> :> folders @@ <<Top, FALSE>> :> top
                @@ <<f, TRUE>> :> <<>> @@ <<f, FALSE>> :> inner),
     text |-> [i \in DeltaItems |->
                 IF i \in ToSet(top) \cup ToSet(inner) \cup ToSet(folders) THEN text[i] ELSE Gone]]
Plain == [i \in DeltaItems |-> "plain"]
Olds == {DeltaTree(<<a, b>>, <<d>>, <<f>>, Plain), DeltaTree(<<a, b, c>>, <<>>, <<>>, Plain)}
News == {DeltaTree(order, inside[1], inside[2], text) :
            order \in UNION {SetToSeqs(S) : S \in SUBSET {a, b, c}},
            inside \in {<<<<>>, <<>>>>, <<<<>>, <<f>>>>, <<<<d>>, <<f>>>>},
            text \in {Plain, [Plain EXCEPT ![a] = "edited"], [Plain EXCEPT ![c] = "scripted"],
                      [Plain EXCEPT ![d] = "edited"]}}

\* Two runs whose options differ.
Ask == r1 :> "A" @@ r2 :> "B"

\* Names whose unsafe characters and lengths meet in one slug.
Event(p, n, pr, fork, kind, sha) ==
    [provider |-> p, name |-> n, pr |-> pr, fork |-> fork, kind |-> kind, sha |-> sha]
MainName == <<"m">>
BranchNames == {MainName, <<"a","-","b">>, <<"a","/","b">>, <<"a","-","b","c">>,
                <<"a","-","b","d">>, <<"r","/","1">>, <<"r","/","2">>}
SomeEvents ==
    {Event("github", n, FALSE, FALSE, "branch", sha) : n \in BranchNames, sha \in {1, 2}}
    \cup {Event("gitlab", MainName, TRUE, TRUE, "branch", 1),
          Event("bitbucket", <<"t">>, FALSE, FALSE, "tag", 1),
          Event("github", <<"q">>, TRUE, TRUE, "branch", 1)}
ReleaseChannel == <<[prefix |-> <<"r", "/">>, star |-> TRUE, code |-> "RC"]>>
NoInput == <<>>

\* dd is two references from the root by da and three by db and dc.
References == {doc :> s[1] @@ da :> s[2] @@ db :> s[3] @@ dc :> s[4] @@ dd :> s[5] @@ u :> s[6] @@ v :> s[7] :
    s \in {<<da, db>>, <<da, db, u>>} \X {<<>>, <<dd>>, <<doc, u>>} \X {<<dc>>, <<da>>}
          \X {<<>>, <<dd>>} \X {<<>>, <<db>>} \X {<<>>, <<v>>} \X {<<>>, <<u>>}}
SomeLoads ==
    {[root |-> doc, links |-> g, inventory |-> i] :
        g \in References, i \in {NoInventory, {doc, da, db}, {doc, da, db, dc, dd}}}
    \cup {[root |-> u, links |-> g, inventory |-> NoInventory] :
             g \in {h \in References : h[doc] = <<da, db>> /\ h[da] = <<>> /\ h[db] = <<da>>
                                       /\ h[dc] = <<>> /\ h[dd] = <<>>}}

\* The second specification breaks the first.
SomeBreaks == {<<1, 2>>}

\* An extensible collection of a folder, a request in it and a message.
EcDefinition == <<"f", "q", "m">>

\* Pairs of operations whose paths, and whose servers' paths, meet in every way.
Operation(p, s) == [path |-> p, servers |-> s, bytes |-> Len(p)]
FirstOperations == {Operation(p, s) :
    p \in {<<<<"a">>>>, <<<<"{x}">>>>, <<<<"{x}">>, <<"a">>>>, <<<<"a">>, <<"{x}">>>>, <<<<"a", "{x}">>>>},
    s \in {{}, {<<<<"a">>>>}, {<<<<"b", "{s}">>>>}, {<<<<"{s}">>>>}}}
SecondOperations == {Operation(p, s) :
    p \in {<<<<"{y}">>>>, <<<<"a">>, <<"a">>>>, <<<<"{y}">>, <<"a">>>>, <<<<"a">>>>},
    s \in {{}, {<<<<"{s}">>>>}, {<<<<"{s}">>, <<"{s}">>>>}}}
OperationPairs == {<<o>> \o <<q>> : o \in FirstOperations, q \in SecondOperations}
WebhookPath == <<<<"w">>>>

\* Runs of one service with and without releases, collections and given ids.
Ref(kind, text) == [kind |-> kind, text |-> text]
NoRef == Ref("none", <<>>)
Inputs(label, ref, sm, cm, scope, w, base, d1, cont) ==
    [project |-> <<"pay">>, path |-> "p", label |-> label, ref |-> ref, specMode |-> sm, collMode |-> cm,
     scope |-> scope, workspace |-> w, baseline |-> base, doc |-> d1, content |-> cont, linked |-> NoId]
LinkedTo(w, i) == [i EXCEPT !.linked = w]
V1 == Ref("head", <<"v", "/", "1">>)
V2 == Ref("input", <<"v", "2">>)
SomeInputs ==
    {Inputs(NoRef, NoRef, "update", "refresh", "full", NoId, <<>>, "d1", NoId),
     Inputs(NoRef, NoRef, "update", "refresh", "full", NoId, <<>>, "d1", "c1"),
     Inputs(NoRef, NoRef, "update", "refresh", "full", NoId, <<"smoke", "pay">>, "d2", "c1"),
     Inputs(NoRef, NoRef, "update", "refresh", "spec-only", NoId, <<>>, "d2", NoId),
     Inputs(NoRef, NoRef, "update", "refresh", "spec-only", 8, <<>>, "d1", NoId),
     Inputs(NoRef, NoRef, "update", "refresh", "with-additional", NoId, <<>>, "d1", NoId),
     Inputs(NoRef, NoRef, "update", "refresh", "full", 8, <<>>, "d2", NoId),
     Inputs(NoRef, V1, "version", "version", "full", NoId, <<>>, "d1", "c1"),
     Inputs(NoRef, V1, "version", "version", "full", NoId, <<>>, "d1", "c2"),
     Inputs(V2, V1, "version", "version", "full", NoId, <<>>, "d2", "c1"),
     Inputs(V2, V1, "update", "version", "full", NoId, <<>>, "d1", "c1"),
     Inputs(NoRef, NoRef, "update", "version", "full", NoId, <<>>, "d1", "c1"),
     LinkedTo(8, Inputs(NoRef, NoRef, "update", "refresh", "full", NoId, <<>>, "d1", NoId)),
     LinkedTo(8, Inputs(NoRef, NoRef, "update", "refresh", "spec-only", 7, <<>>, "d1", NoId)),
     LinkedTo(Unseen, Inputs(NoRef, NoRef, "update", "refresh", "full", 7, <<>>, "d2", NoId))}

\* Two files; moved; with a Local View; over links, also into a view and outside.
Layout(top, sub, inner, links, views, one, two, three) ==
    [entries |-> (10 :> top @@ 11 :> sub @@ 12 :> inner), links |-> links, views |-> views,
     holds |-> (1 :> one @@ 2 :> two @@ 3 :> three @@ 10 :> "x" @@ 11 :> "v" @@ 12 :> "w")]
SomeLayouts ==
    {Layout({1, 2}, {}, {}, {}, {}, "a", "b", "no"),
     Layout({1, 2}, {}, {}, {}, {}, "b", "c", "no"),
     Layout({1, 2}, {}, {}, {}, {}, "b", "a", "no"),
     Layout({2, 3}, {}, {}, {}, {}, "no", "b2", "a"),
     Layout({1, 11, 12}, {2, 12}, {1, 10}, {<<10, 12>>, <<12, 1>>, <<12, 10>>}, {}, "a", "b", "no"),
     Layout({1, 11}, {12}, {3}, {}, {11, 12}, "a", "no", "request"),
     Layout({1, 11, 12}, {12}, {3}, {<<10, 12>>}, {11, 12}, "a", "no", "request"),
     Layout({1, 11}, {12, 2}, {99}, {<<12, 99>>}, {}, "a", "b", "no")}
TitleOf == "a" :> "A" @@ "b" :> "B" @@ "b2" :> "B" @@ "c" :> "C" @@ "v" :> "V" @@ "w" :> "W"

\* One server with everything and two alike, a local one between; names given
\* twice, a number given twice, nothing to build and too much.
Server(h, auth, pages, cursors, caps) ==
    [http |-> h, auth |-> auth, prm |-> auth, pages |-> pages, cursors |-> cursors, capabilities |-> caps]
Manifest(ss, ts, rs, ps, l) == [servers |-> ss, tools |-> ts, resources |-> rs, prompts |-> ps, large |-> l]
Stdio == Server(FALSE, FALSE, {}, {}, {})
Brief == Server(TRUE, TRUE, {<<>>}, {Nothing, "c1"}, {{}, {"tools", "resources", "prompts"}})
Rich == Server(TRUE, FALSE, {<<>>, <<"t">>}, {Nothing, EmptyCursor},
               {{"resources", "prompts"}, {"tools", "resources", "prompts", "subscribe"}})
Paged == Server(TRUE, FALSE, {<<>>, <<"t">>}, {Nothing, "c1", "c2"}, {{"tools", "resources", "prompts"}})
NoServers == Manifest(<<>>, <<>>, <<>>, <<>>, FALSE)
SomeManifests ==
    {Manifest(<<Paged>>, <<"t">>, <<>>, <<>>, FALSE),
     Manifest(<<Rich>>, <<"t", "t">>, <<"r">>, <<>>, FALSE),
     Manifest(<<Brief, Stdio, Brief>>, <<>>, <<>>, <<>>, FALSE),
     Manifest(<<Stdio>>, <<"t1", "t2", "t3", "t4", "t5", "t6">>, <<>>, <<>>, FALSE),
     Manifest(<<Stdio>>, <<"t1", "t2", "t3", "t4", "t5">>, <<"r", "r">>, <<"p", "q">>, FALSE),
     NoServers, Manifest(<<Stdio>>, <<>>, <<>>, <<>>, TRUE)}

Parts == {"files", "workspaces", "curated", "delta", "relations", "branches", "artifacts", "closure",
          "protocol", "changes", "match", "identity", "duplicates", "directory", "repair", "mcp", "contracts"}
Still(p) ==
    /\ UNCHANGED part
    /\ IF p = "files" THEN TRUE ELSE UNCHANGED fileVars
    /\ IF p = "workspaces" THEN TRUE ELSE UNCHANGED workspaceVars
    /\ IF p = "curated" THEN TRUE ELSE UNCHANGED curatedVars
    /\ IF p = "delta" THEN TRUE ELSE UNCHANGED deltaVars
    /\ IF p = "relations" THEN TRUE ELSE UNCHANGED relationVars
    /\ IF p = "branches" THEN TRUE ELSE UNCHANGED branchVars
    /\ IF p = "artifacts" THEN TRUE ELSE UNCHANGED artifactVars
    /\ IF p = "closure" THEN TRUE ELSE UNCHANGED closureVars
    /\ IF p = "protocol" THEN TRUE ELSE UNCHANGED ecVars
    /\ IF p = "changes" THEN TRUE ELSE UNCHANGED changeVars
    /\ IF p = "match" THEN TRUE ELSE UNCHANGED matchVars
    /\ IF p = "identity" THEN TRUE ELSE UNCHANGED identityVars
    /\ IF p = "duplicates" THEN TRUE ELSE UNCHANGED dupVars
    /\ IF p = "directory" THEN TRUE ELSE UNCHANGED fileSyncVars
    /\ IF p = "repair" THEN TRUE ELSE UNCHANGED repairVars
    /\ IF p = "mcp" THEN TRUE ELSE UNCHANGED laneVars
    /\ IF p = "contracts" THEN TRUE ELSE UNCHANGED contractVars

\* The component at work starts in any of its initial states, each other one
\* rests in a single one.
Resting ==
    /\ IF part = "workspaces" THEN TRUE
       ELSE /\ ws = [i \in WorkspaceIds |-> NoWorkspace] /\ squads = 0
            /\ provided = [r \in Provisioners |-> Everything]
    /\ IF part = "curated" THEN TRUE ELSE onDisk = 0 /\ deferred = FALSE
    /\ IF part = "delta" THEN TRUE
       ELSE /\ tree = (CHOOSE old \in Olds : TRUE)
            /\ delta = [pc |-> "start", old |-> tree, new |-> CHOOSE new \in News : TRUE, at |-> 1, step |-> 1, faults |-> 0]
    /\ IF part = "relations" THEN TRUE ELSE relation = [i \in Linked |-> NoRow]
    /\ IF part = "artifacts" THEN TRUE ELSE dest = [t \in Trees |-> Missing]
    /\ IF part = "protocol" THEN TRUE ELSE ecInput = 0 /\ ecTracked = 0
    /\ IF part = "changes" THEN TRUE
       ELSE hub = NoSpec /\ check = FreshCheck("off", CHOOSE s \in Specs : TRUE, NoSpec, NoSpec, NoSpec)
    /\ IF part = "closure" THEN TRUE ELSE load = (CHOOSE l \in SomeLoads : l.inventory = NoInventory)
    /\ IF part = "match" THEN TRUE
       ELSE match = FreshMatch(CHOOSE o \in ApiDocuments : TRUE, "local", FALSE)
    /\ IF part = "duplicates" THEN TRUE
       ELSE /\ mark = [i \in Finals |-> "other"] /\ described = FALSE /\ shown = Finals
            /\ dup = [r \in Reconcilers |-> FreshReconciler(FALSE)]
    /\ IF part = "directory" THEN TRUE
       ELSE layout = (CHOOSE L \in Layouts : TRUE) /\ fileSync = FreshSync(TRUE, NothingTracked)
    /\ IF part = "repair" THEN TRUE
       ELSE conversion = [j \in Conversions |-> FreshConversion("off", FALSE, OddCollection)]
    /\ IF part = "mcp" THEN TRUE ELSE lane = FreshLane(NoServers)
    /\ IF part = "contracts" THEN TRUE ELSE contract = FreshContract(PlainContract)

RepositoryInit ==
    /\ part \in Parts
    /\ Resting
    /\ SpecFilesInit /\ WorkspaceInit /\ CuratedInit /\ DeltaInit
    /\ RelationInit /\ BranchInit /\ ArtifactInit /\ ClosureInit
    /\ ProtocolInit /\ ChangeInit
    /\ MatchInit /\ IdentityInit /\ DuplicateInit
    /\ provided[p1] = Everything
    /\ part = "duplicates" => ~dup[r1].adopts \* two runs that adopt only read
    /\ FileSyncInit
    /\ LaneInit /\ ContractsInit
    /\ IF part = "repair" THEN RepairInit ELSE FakerAtRest

RepositoryNext ==
    \/ part = "files" /\ SpecFilesNext /\ Still("files")
    \/ part = "workspaces" /\ WorkspaceNext /\ Still("workspaces")
    \/ part = "curated" /\ CuratedNext /\ Still("curated")
    \/ part = "delta" /\ DeltaNext /\ Still("delta")
    \/ part = "relations" /\ RelationNext /\ Still("relations")
    \/ part = "branches" /\ BranchNext /\ Still("branches")
    \/ part = "artifacts" /\ ArtifactNext /\ Still("artifacts")
    \/ part = "closure" /\ ClosureNext /\ Still("closure")
    \/ part = "protocol" /\ ProtocolNext /\ Still("protocol")
    \/ part = "changes" /\ ChangeNext /\ Still("changes")
    \/ part = "match" /\ MatchNext /\ Still("match")
    \/ part = "identity" /\ IdentityNext /\ Still("identity")
    \/ part = "duplicates" /\ DuplicateNext /\ Still("duplicates")
    \/ part = "directory" /\ FileSyncNext /\ Still("directory")
    \/ part = "repair" /\ RepairNext /\ Still("repair")
    \/ part = "mcp" /\ LaneNext /\ Still("mcp")
    \/ part = "contracts" /\ ContractsNext /\ Still("contracts")

\* What is generated from a contract asserts the right operation, ships
\* examples that hold, passes only a server that was exercised and gives
\* every operation of gRPC, GraphQL and SOAP the verdict its answer deserves.
GeneratedIsSafe == MatchingIsSafe /\ ExamplesAreSafe /\ McpLaneIsSafe /\ ContractsAreSafe

RepositorySpec == RepositoryInit /\ [][RepositoryNext]_RepositoryVars
=================================================================================
