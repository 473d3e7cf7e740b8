---------------------------- MODULE CuratedFiles ----------------------------
(***************************************************************************)
(* The files of additional-collections-dir: which collections              *)
(* loadAdditionalCollectionFiles finds in a directory with links and Local *)
(* View trees, and what syncAdditionalCollections makes of them in runs    *)
(* between which files are moved, edited and linked.  A path is the real   *)
(* path of a file or folder, below the workspace unless it is OutsidePath; *)
(* CuratedCollections has the steps that one collection takes.             *)
(***************************************************************************)
EXTENDS CuratedCollections, SortedSets

CONSTANTS
    Layouts,        \* directories: [entries, links, views, holds]
    LocalFiles,     \* paths of files, and
    LocalFolders,   \* of folders, ordered as numbers
    CuratedRoot,    \* the folder that the input names
    OutsidePath,
    Titles,         \* [documents -> titles]; other content is no collection, nor is
                    \* one without a name, and a view without one has its folder's
    ViewRequest,    \* the content of a request of a Local View
    CloudIds, MaxSyncRuns, MaxSyncFaults

LocalPaths == LocalFiles \cup LocalFolders
ASSUME CuratedFilesAssumption ==
    /\ LocalPaths \subseteq Nat /\ CuratedRoot \in LocalFolders
    /\ LocalFiles \cap LocalFolders = {} /\ OutsidePath \notin LocalPaths
    /\ ViewRequest \notin DOMAIN Titles /\ {0} \cap CloudIds = {}
    /\ IsFiniteSet(LocalPaths) /\ \A t \in DOMAIN Titles : Titles[t] # ""
    /\ {MaxSyncRuns, MaxSyncFaults} \subseteq Nat
    /\ \A L \in Layouts :
          /\ L.entries \in [LocalFolders -> SUBSET (LocalPaths \cup {OutsidePath})]
          /\ L.links \subseteq LocalFolders \X (LocalPaths \cup {OutsidePath})
          /\ L.views \subseteq LocalFolders \* with a .resources/definition.yaml
          /\ \A p \in L.views : L.holds[p] \in DOMAIN Titles

VARIABLES
    layout,     \* the directory that this run finds
    trackedIds, \* resources.yaml on disk: [LocalPaths -> CloudIds \cup {0}]
    hosted,     \* the collections of the workspace: [title, text]
    fileSync    \* the run
fileSyncVars == <<layout, trackedIds, hosted, fileSync>>

-----------------------------------------------------------------------------
(* loadAdditionalCollectionFiles *)

\* The folders from some onwards, no further than one of the folders where to
\* stop; each is visited once, so a link back ends there.
Reach(L, from, stops, alongLinks) ==
    LET after[n \in 0..Cardinality(LocalFolders)] ==
            IF n = 0 THEN from
            ELSE after[n - 1] \cup {c \in LocalFolders : \E e \in after[n - 1] \ stops :
                                       c \in L.entries[e] /\ (alongLinks \/ <<e, c>> \notin L.links)}
    IN  after[Cardinality(LocalFolders)]

\* collectV3CollectionDirectories enters no link and stops at a definition.
Views(L) == L.views \cap Reach(L, {CuratedRoot}, L.views, FALSE)
\* collectSupportedCollectionPaths follows links, around the views it was told of.
Walked(L) == (LocalFolders \ Views(L)) \cap Reach(L, {CuratedRoot}, Views(L), TRUE)
\* Every entry that resolves to a file, so one file may be found twice.
Found(L) == {f \in LocalFiles \X Walked(L) : f[1] \in L.entries[f[2]]}
\* loadV3DirectoryItems
ViewFolders(L) == Reach(L, Views(L), {}, FALSE)

RefusedWalk(L) ==
    \/ \E e \in Walked(L) \cup ViewFolders(L) : OutsidePath \in L.entries[e]
    \/ \E p \in Found(L) : L.holds[p[1]] \notin DOMAIN Titles
    \/ Views(L) = {} /\ Found(L) = {}
RefusedView(L) ==
    \/ ~(ViewFolders(L) \subseteq L.views)
    \/ \E e \in ViewFolders(L) : \E p \in L.entries[e] :
          <<e, p>> \in L.links \/ (p \in LocalFiles /\ L.holds[p] # ViewRequest)

\* By resource path; each with the id that resources.yaml has for it now.
Loaded(L) ==
    LET found == Found(L) \cup {<<p, p>> : p \in Views(L)}
        order == Ascending(found, {r \in found \X found :
                    r[1][1] < r[2][1] \/ (r[1][1] = r[2][1] /\ r[1][2] < r[2][2])})
    IN  [k \in DOMAIN order |-> [path |-> order[k][1], known |-> trackedIds[order[k][1]]]]

-----------------------------------------------------------------------------
NoCloud == [title |-> "", text |-> ""]
Deleted == [title |-> "", text |-> "deleted"]
NothingTracked == [p \in LocalPaths |-> 0]
\* ids: resources.yaml in memory; scope full writes it at the end of the run, the
\* scope of authored collections alone after each file.
FreshSync(full, ids) == [pc |-> "load", full |-> full, ids |-> ids, files |-> <<>>, at |-> 1,
                         clear |-> FALSE, made |-> {}, runs |-> 0, faults |-> 0]
FileSyncInit ==
    /\ layout \in Layouts
    /\ trackedIds = NothingTracked
    /\ hosted = [i \in CloudIds |-> NoCloud]
    /\ \E full \in BOOLEAN : fileSync = FreshSync(full, trackedIds)

Existing == {i \in CloudIds : hosted[i].title # ""}
FreshIds == {i \in CloudIds : hosted[i] = NoCloud /\ \A j \in CloudIds : j < i => hosted[j] # NoCloud}
TitleAt(k) == Titles[layout.holds[fileSync.files[k].path]]
Current == fileSync.files[fileSync.at]
Document == [title |-> TitleAt(fileSync.at), text |-> layout.holds[Current.path]]
Titled == {i \in CloudIds : hosted[i].title = TitleAt(fileSync.at)}
SyncFails == fileSync.faults < MaxSyncFaults

\* Each file has a title of its own, none that the collection of another file bears.
Unrelated(files) ==
    \A j, k \in DOMAIN files : files[j].path # files[k].path =>
        /\ Titles[layout.holds[files[j].path]] # Titles[layout.holds[files[k].path]]
        /\ files[k].known = 0 \/
              /\ files[j].known # files[k].known
              /\ hosted[files[k].known].title # Titles[layout.holds[files[j].path]]

\* assertUniqueAdditionalCollectionNames, also of one file found twice
NamesRefused(files) ==
    ~fileSync.full /\ \E j, k \in DOMAIN files : j # k /\
        Titles[layout.holds[files[j].path]] = Titles[layout.holds[files[k].path]]

\* All of it is read before the first call; one bad file refuses the run.
LoadFiles ==
    /\ fileSync.pc = "load"
    /\ IF RefusedWalk(layout) \/ RefusedView(layout) \/ NamesRefused(Loaded(layout))
       THEN fileSync' = [fileSync EXCEPT !.pc = "refused"]
       ELSE fileSync' = [fileSync EXCEPT !.pc = "sync", !.files = Loaded(layout),
                                         !.clear = Unrelated(Loaded(layout))]
    /\ UNCHANGED <<layout, trackedIds, hosted>>

TrackedAs(i) == [fileSync.ids EXCEPT ![Current.path] = i]
Write(ids) == trackedIds' = IF fileSync.full THEN trackedIds ELSE ids

SyncedInto(i) ==
    /\ hosted' = [hosted EXCEPT ![i] = Document]
    /\ Write(TrackedAs(i))
    /\ fileSync' = [fileSync EXCEPT !.at = @ + 1, !.ids = TrackedAs(i)]
\* Its old items are gone, the new ones not complete, the title is set last.
BreaksOff(i) ==
    /\ SyncFails
    /\ hosted' = [hosted EXCEPT ![i].text = "half"]
    /\ fileSync' = [fileSync EXCEPT !.pc = "failed", !.faults = @ + 1]

\* updateCollection of the id that was known when the run loaded the files
UpdateKnown ==
    /\ fileSync.pc = "sync" /\ fileSync.at <= Len(fileSync.files)
    /\ Current.known \in Existing
    /\ \/ SyncedInto(Current.known)
       \/ BreaksOff(Current.known) /\ UNCHANGED trackedIds
    /\ UNCHANGED layout

\* Mutant: without the search for a collection of the title.
CreateBlindly ==
    /\ fileSync.pc = "sync" /\ fileSync.at <= Len(fileSync.files)
    /\ Current.known \notin Existing
    /\ \E i \in FreshIds :
          /\ hosted' = [hosted EXCEPT ![i] = Document]
          /\ Write(TrackedAs(i))
          /\ fileSync' = [fileSync EXCEPT !.at = @ + 1, !.ids = TrackedAs(i), !.made = @ \cup {<<Current.path, i>>}]
    /\ UNCHANGED layout
\* createCollection, of a file that is not tracked or whose collection is gone:
\* one collection of the title is updated, several are refused, and the root of
\* a new one is tracked at once.
CreateCollection ==
    /\ fileSync.pc = "sync" /\ fileSync.at <= Len(fileSync.files)
    /\ Current.known \notin Existing
    /\ \/ /\ Titled = {}
          /\ \E i \in FreshIds :
                /\ Write(TrackedAs(i))
                /\ \/ /\ hosted' = [hosted EXCEPT ![i] = Document]
                      /\ fileSync' = [fileSync EXCEPT !.at = @ + 1, !.ids = TrackedAs(i),
                                                         !.made = @ \cup {<<Current.path, i>>}]
                   \/ /\ SyncFails
                      /\ hosted' = [hosted EXCEPT ![i] = [title |-> "temporary", text |-> "half"]]
                      /\ fileSync' = [fileSync EXCEPT !.pc = "failed", !.faults = @ + 1]
       \/ \E i \in Titled : Titled = {i} /\ (SyncedInto(i) \/ (BreaksOff(i) /\ UNCHANGED trackedIds))
       \/ /\ Cardinality(Titled) > 1
          /\ fileSync' = [fileSync EXCEPT !.pc = "failed"] /\ UNCHANGED <<trackedIds, hosted>>
    /\ UNCHANGED layout

EndSync ==
    /\ fileSync.pc = "sync" /\ fileSync.at > Len(fileSync.files)
    /\ trackedIds' = fileSync.ids
    /\ fileSync' = [fileSync EXCEPT !.pc = "done"]
    /\ UNCHANGED <<layout, hosted>>

\* The next run, on a later commit; resources.yaml may have been left behind, and
\* somebody may have deleted a collection.
NextSync ==
    /\ fileSync.pc \in {"done", "failed", "refused"} /\ fileSync.runs < MaxSyncRuns
    /\ layout' \in Layouts
    /\ trackedIds' \in {trackedIds, NothingTracked}
    /\ \E gone \in Existing \cup {0} : hosted' = [i \in CloudIds |-> IF i = gone THEN Deleted ELSE hosted[i]]
    /\ \E full \in BOOLEAN :
          fileSync' = [FreshSync(full, trackedIds') EXCEPT !.runs = fileSync.runs + 1,
                                                           !.faults = fileSync.faults]

FileSyncNext == LoadFiles \/ UpdateKnown \/ CreateCollection \/ EndSync \/ NextSync
FileSyncSpec == FileSyncInit /\ [][FileSyncNext]_fileSyncVars

-----------------------------------------------------------------------------
(* Properties *)

\* A run that succeeds leaves each of its files in a collection of its own, with
\* the content of the file: unless two files bear one title, or a file was moved
\* and another one took its path.
EachFileItsOwn ==
    fileSync.pc = "done" /\ fileSync.clear =>
        \A k \in DOMAIN fileSync.files :
            LET i == trackedIds[fileSync.files[k].path] IN
            /\ i \in Existing /\ hosted[i] = [title |-> TitleAt(k), text |-> layout.holds[fileSync.files[k].path]]
            /\ \A j \in DOMAIN fileSync.files :
                  trackedIds[fileSync.files[j].path] = i => fileSync.files[j].path = fileSync.files[k].path

\* Even then a collection holds what the last of its files says.
LastFileWins ==
    fileSync.pc = "done" =>
        \A k \in DOMAIN fileSync.files :
            LET i == trackedIds[fileSync.files[k].path]
                same == {j \in DOMAIN fileSync.files : trackedIds[fileSync.files[j].path] = i}
                last == CHOOSE j \in same : \A l \in same : l <= j
            IN  i \in Existing => hosted[i].text = layout.holds[fileSync.files[last].path]

\* A file that several links lead to makes one collection, and one that was
\* moved makes none.
OneCollectionPerFile ==
    \A m, n \in fileSync.made :
        (m[1] = n[1] \/ hosted[m[2]].title = hosted[n[2]].title) => m = n

FilesAreSynced == EachFileItsOwn /\ LastFileWins /\ OneCollectionPerFile

\* A curated collection is whole when its run is done, and is of one file.
CuratedIsSafe == TreeUpdateIsSafe /\ []FilesAreSynced
=============================================================================
