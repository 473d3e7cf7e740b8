---------------------------- MODULE OwnershipProofs ----------------------------
(***************************************************************************)
(* Theorems about what a run may take for its own and write: the workspace *)
(* it selects or creates, the asset set of its branch, the contract        *)
(* collection it replaces, and the specification and collections that its  *)
(* inputs and the tracked file name.  Each is for every value of the       *)
(* constants.                                                              *)
(***************************************************************************)
EXTENDS Workspaces, BranchRuns, ProtocolBootstrap, AssetIdentity, RepositoryProofs

-----------------------------------------------------------------------------
(* Workspaces                                                              *)

\* Two spellings of one repository's URL.
SameRepository(link, url) == link # NoUrl /\ RepositoryOf[link] = RepositoryOf[url]

\* What a run knows at each stage of its selection, of the workspaces w: it has
\* created none before its create, and afterwards at most one, which it either
\* holds as created or never heard of.
RunOK(r, q, w) ==
    /\ q.pc \in {"probe", "find", "look", "teams", "post"} => \A i \in WorkspaceIds : w[i].by # r
    /\ q.pc \in {"find", "look", "teams", "post", "recover"} => q.source = "none"
    /\ q.pc = "probe" => q.source = (IF q.id = 0 THEN "none" ELSE "explicit")
    /\ \A i \in WorkspaceIds : w[i].by = r =>
          w[i].vis # "none" /\ (q.lost = TRUE \/ (q.id = i /\ q.source = "create"))
    /\ q.source = "create" => w[q.id].by = r
    /\ q.source # "none" => q.id \in WorkspaceIds
    /\ q.pc \in {"promote", "cleanup"} => q.source = "create"
    /\ q.pc = "verify" => q.source \in {"create", "reconciled"}
    /\ q.source = "create" /\ (q.pc = "verify" \/ (q.pc = "failed" /\ q.lost = FALSE)) => w[q.id].vis # "personal"
    /\ q.source \in {"create", "reconciled"} /\ q.pc \in {"grant", "done"} => w[q.id].vis \in {"team", "deleted"}
    /\ q.pc \in {"grant", "done"} => q.source # "none"
    /\ q.pc = "reuse" => q.source \notin {"none", "create", "reconciled"}
    /\ q.source \in {"probe", "linked_match"} => SameRepository(w[q.id].link, Url[r])

\* The sub-teams that the session of a run tells it of.
Told(r) == IF provided[r].session = TRUE THEN squads ELSE 0
\* A workspace that is not there has no link, and a personal one was made by a run
\* that was told of no sub-teams.
WorldOK == \A i \in WorkspaceIds :
    /\ ws[i].vis = "none" => ws[i].link = NoUrl
    /\ ws[i].vis = "personal" => squads = 0 \/ (ws[i].by \in Provisioners /\ Told(ws[i].by) = 0)
\* A run creates a personal workspace only where it is told that there are none.
SquadKnown(q, told) == q.pc = "post" /\ q.squad = FALSE => told = 0
\* Only runs that are done have granted roles, each in its own workspace.
GrantsOK ==
    \A r \in Provisioners, i \in WorkspaceIds, role \in Roles :
        <<r, i, role>> \in granted =>
            prov[r].pc = "done" /\ prov[r].id = i /\ prov[r].source \notin {"name_match", "reconciled"}

ProvInv == /\ WorkspaceTypeOK /\ WorldOK /\ GrantsOK
           /\ \A r \in Provisioners : RunOK(r, prov[r], ws) /\ SquadKnown(prov[r], Told(r))

-----------------------------------------------------------------------------
\* What a step of r may do to a workspace: create it, change the visibility of its
\* own, or link one that has no link.
MovedBy(r, i) ==
    \/ ws'[i] = ws[i]
    \/ ws[i].vis = "none" /\ ws'[i].by = r
    \/ /\ ws[i].by = r /\ ws[i].vis # "none" /\ ws'[i].by = r /\ ws'[i].link = ws[i].link
       /\ ws'[i].vis \in {"team", "deleted"}
    \/ ws'[i].by = ws[i].by /\ ws'[i].vis = ws[i].vis /\ ws[i].link = NoUrl
OnlyRun(r) == prov' \in [Provisioners -> ProvState] /\ \A s \in Provisioners : s # r => prov'[s] = prov[s]

\* What a run knows stays right when the visibility of what it created does, and
\* links and visible workspaces stay.
LEMMA Undisturbed ==
    ASSUME ProvInv, NEW s \in Provisioners,
           \A i \in WorkspaceIds : /\ ws'[i].by = s => ws[i].by = s
                                   /\ ws[i].by = s => ws'[i].by = s /\ ws'[i].vis = ws[i].vis
                                   /\ ws[i].link # NoUrl => ws'[i].link = ws[i].link
                                   /\ ws[i].vis \in {"team", "deleted"} => ws'[i].vis \in {"team", "deleted"}
    PROVE  RunOK(s, prov[s], ws')
<1> DEFINE q == prov[s]
<1>1. RunOK(s, q, ws)
  BY DEF ProvInv
<1> HIDE DEF q
<1>2. q.source \in {"probe", "linked_match"} => SameRepository(ws'[q.id].link, Url[s])
  BY <1>1 DEF RunOK, SameRepository
<1>3. q.source \in {"create", "reconciled"} /\ q.pc \in {"grant", "done"} => ws'[q.id].vis \in {"team", "deleted"}
  BY <1>1 DEF RunOK
<1> QED
  BY <1>1, <1>2, <1>3 DEF RunOK, q

\* No step of one run disturbs what another knows.
LEMMA OthersUndisturbed ==
    ASSUME ProvInv, NEW r \in Provisioners, NEW s \in Provisioners, s # r,
           \A i \in WorkspaceIds : MovedBy(r, i)
    PROVE  RunOK(s, prov[s], ws')
<1>1. RunOK(s, prov[s], ws) /\ WorldOK
  BY DEF ProvInv
<1>2. \A i \in WorkspaceIds : /\ ws'[i].by = s => ws[i].by = s
                              /\ ws[i].by = s => ws'[i].by = s /\ ws'[i].vis = ws[i].vis
  BY <1>1 DEF MovedBy, RunOK
<1>3. \A i \in WorkspaceIds : /\ ws[i].link # NoUrl => ws'[i].link = ws[i].link
                              /\ ws[i].vis \in {"team", "deleted"} => ws'[i].vis \in {"team", "deleted"}
  BY <1>1 DEF MovedBy, WorldOK
<1> QED
  BY <1>2, <1>3, Undisturbed

\* A step of r that leaves the roles alone keeps the invariant when r itself is
\* right afterwards.
LEMMA RunStep ==
    ASSUME ProvInv, NEW r \in Provisioners, prov[r].pc # "done", OnlyRun(r),
           ws' \in [WorkspaceIds -> Workspace], \A i \in WorkspaceIds : MovedBy(r, i), WorldOK',
           UNCHANGED <<squads, granted, provided>>, provFaults' \in 0..MaxProvFaults,
           RunOK(r, prov'[r], ws'), SquadKnown(prov'[r], Told(r))
    PROVE  ProvInv'
<1>1. WorkspaceTypeOK'
  BY DEF ProvInv, WorkspaceTypeOK, OnlyRun
<1>2. GrantsOK'
  BY DEF ProvInv, GrantsOK, OnlyRun
<1>3. \A s \in Provisioners : RunOK(s, prov'[s], ws') /\ SquadKnown(prov'[s], Told(s)')
  <2> TAKE s \in Provisioners
  <2>0. Told(s)' = Told(s)
    BY DEF Told
  <2>1. CASE s = r
    BY <2>0, <2>1
  <2>2. CASE s # r
    <3>1. RunOK(s, prov[s], ws') /\ prov'[s] = prov[s]
      BY <2>2, OthersUndisturbed DEF OnlyRun
    <3> QED
      BY <2>0, <3>1 DEF ProvInv
  <2> QED
    BY <2>1, <2>2
<1> QED
  BY <1>1, <1>2, <1>3 DEF ProvInv

\* The fields after a step.
LEMMA ProvMoves ==
    ASSUME prov \in [Provisioners -> ProvState], NEW r \in Provisioners
    PROVE  /\ \A pc \in ProvStages : ProvGoto(r, pc) =>
                 /\ OnlyRun(r) /\ prov'[r].pc = pc /\ prov'[r].id = prov[r].id
                 /\ prov'[r].source = prov[r].source /\ prov'[r].lost = prov[r].lost
                 /\ prov'[r].squad = prov[r].squad
           /\ \A i \in WorkspaceIds, source \in Sources, pc \in ProvStages : ProvUses(r, i, source, pc) =>
                 /\ OnlyRun(r) /\ prov'[r].pc = pc /\ prov'[r].id = i
                 /\ prov'[r].source = source /\ prov'[r].lost = prov[r].lost
                 /\ prov'[r].squad = prov[r].squad
<1>1. prov[r] \in ProvState
  OBVIOUS
<1>2. ASSUME NEW pc \in ProvStages, ProvGoto(r, pc)
      PROVE  /\ OnlyRun(r) /\ prov'[r].pc = pc /\ prov'[r].id = prov[r].id
             /\ prov'[r].source = prov[r].source /\ prov'[r].lost = prov[r].lost
             /\ prov'[r].squad = prov[r].squad
  <2>1. prov' = [prov EXCEPT ![r] = [prov[r] EXCEPT !.pc = pc]]
    BY <1>2 DEF ProvGoto
  <2>2. [prov[r] EXCEPT !.pc = pc] \in ProvState
    BY <1>1 DEF ProvState
  <2> QED
    BY <1>1, <2>1, <2>2 DEF OnlyRun, ProvState
<1>3. ASSUME NEW i \in WorkspaceIds, NEW source \in Sources, NEW pc \in ProvStages, ProvUses(r, i, source, pc)
      PROVE  /\ OnlyRun(r) /\ prov'[r].pc = pc /\ prov'[r].id = i
             /\ prov'[r].source = source /\ prov'[r].lost = prov[r].lost
             /\ prov'[r].squad = prov[r].squad
  <2> DEFINE q == [prov[r] EXCEPT !.id = i, !.source = source, !.pc = pc, !.seen = {}]
  <2>1. prov' = [prov EXCEPT ![r] = q]
    BY <1>3 DEF ProvUses
  <2>2. /\ q \in ProvState /\ q.pc = pc /\ q.id = i /\ q.source = source
        /\ q.lost = prov[r].lost /\ q.squad = prov[r].squad
    BY <1>1 DEF ProvState
  <2> HIDE DEF q
  <2> QED
    BY <1>1, <2>1, <2>2 DEF OnlyRun
<1> QED
  BY <1>2, <1>3

LEMMA ProvFaultsOK == ASSUME ProvInv, ProvWorks \/ ProvFault PROVE provFaults' \in 0..MaxProvFaults
<1>1. MaxProvFaults \in Nat /\ provFaults \in 0..MaxProvFaults
  BY WorkspaceAssumption DEF ProvInv, WorkspaceTypeOK
<1> QED
  BY <1>1 DEF ProvWorks, ProvFault

LEMMA ProvTypes ==
    ASSUME ProvInv, NEW r \in Provisioners
    PROVE  /\ prov \in [Provisioners -> ProvState] /\ ws \in [WorkspaceIds -> Workspace] /\ squads \in 0..2
           /\ prov[r].id \in WorkspaceIds \cup {0} /\ prov[r].lost \in BOOLEAN /\ prov[r].squad \in BOOLEAN
           /\ prov[r].seen \subseteq WorkspaceIds /\ RunOK(r, prov[r], ws) /\ WorldOK
           /\ provided[r].session \in BOOLEAN
           /\ 0 \notin WorkspaceIds /\ Url[r] # NoUrl /\ SquadKnown(prov[r], Told(r))
BY WorkspaceAssumption DEF ProvInv, WorkspaceTypeOK, ProvState

\* A step that only reads the account.
LEMMA ReadStep ==
    ASSUME ProvInv, NEW r \in Provisioners, prov[r].pc # "done", OnlyRun(r), AccountIdle,
           ProvWorks \/ ProvFault, RunOK(r, prov'[r], ws), SquadKnown(prov'[r], Told(r))
    PROVE  ProvInv'
<1>1. ws' = ws /\ UNCHANGED <<squads, granted, provided>> /\ \A i \in WorkspaceIds : MovedBy(r, i)
  BY DEF AccountIdle, MovedBy
<1>2. ws' \in [WorkspaceIds -> Workspace] /\ WorldOK' /\ provFaults' \in 0..MaxProvFaults
  BY <1>1, ProvFaultsOK DEF ProvInv, WorkspaceTypeOK, WorldOK, Told
<1>3. RunOK(r, prov'[r], ws')
  BY <1>1
<1> QED
  BY <1>1, <1>2, <1>3, RunStep

\* The least of some workspaces is one of them.
LEMMA LeastIdIn == ASSUME NEW S \in SUBSET WorkspaceIds, S # {} PROVE LeastId(S) \in S
<1>1. S \in SUBSET Nat
  BY WorkspaceAssumption
<1>2. \E i \in S : \A j \in S : i <= j
  BY <1>1, LeastNat
<1> QED
  BY <1>2 DEF LeastId

\* A workspace that is there is chosen: by its link, or only by its name.
LEMMA ChooseStep ==
    ASSUME ProvInv, NEW r \in Provisioners, prov[r].pc \in {"probe", "look"},
           NEW i \in WorkspaceIds, NEW source \in {"probe", "linked_match", "name_match"},
           source # "name_match" => SameRepository(ws[i].link, Url[r]),
           ProvUses(r, i, source, "reuse"), AccountIdle, ProvWorks \/ ProvFault
    PROVE  ProvInv'
<1>1. /\ OnlyRun(r) /\ prov'[r].pc = "reuse" /\ prov'[r].id = i
      /\ prov'[r].source = source /\ prov'[r].lost = prov[r].lost
  BY ProvTypes, ProvMoves DEF ProvStages, Sources
<1>2. \A j \in WorkspaceIds : ws[j].by # r
  BY ProvTypes DEF RunOK
<1>3. RunOK(r, prov'[r], ws) /\ SquadKnown(prov'[r], Told(r))
  BY <1>1, <1>2 DEF RunOK, SquadKnown
<1> QED
  BY <1>1, <1>3, ReadStep

LEMMA ProbeKeeps == ASSUME ProvInv, NEW r \in Provisioners, ProbeLink(r) PROVE ProvInv'
<1> DEFINE linked == {i \in WorkspaceIds : provided[r].repo /\ ws[i].link = Url[r] /\ ws[i].vis # "deleted"}
           onward == Unprobed(r)
<1>1. /\ prov[r].pc = "probe" /\ AccountIdle
      /\ onward \in {"find", "teams", "reuse"} /\ (onward = "reuse" <=> prov[r].id # 0)
  BY DEF ProbeLink, ProvAt, Unprobed
<1>2. PICK i \in WorkspaceIds \cup {0} :
        /\ ProvWorks \/ ProvFault
        /\ \/ ProvGoto(r, onward)
           \/ ProvGoto(r, "failed")
           \/ i \in linked /\ ProvUses(r, i, "probe", "reuse")
  BY DEF ProbeLink
<1> HIDE DEF onward
<1>3. /\ RunOK(r, prov[r], ws) /\ prov[r].id \in WorkspaceIds \cup {0}
      /\ prov[r].source = (IF prov[r].id = 0 THEN "none" ELSE "explicit")
  BY <1>1, ProvTypes DEF RunOK
<1>4. CASE ProvGoto(r, onward)
  <2>1. /\ OnlyRun(r) /\ prov'[r].pc = onward /\ prov'[r].id = prov[r].id
        /\ prov'[r].source = prov[r].source /\ prov'[r].lost = prov[r].lost
    BY <1>1, <1>4, ProvTypes, ProvMoves DEF ProvStages
  <2>2. RunOK(r, prov'[r], ws) /\ SquadKnown(prov'[r], Told(r))
    <3>1. prov'[r].pc \in {"find", "teams", "reuse"} /\ (prov'[r].pc = "reuse" <=> prov[r].source # "none")
      BY <1>1, <1>3, <2>1
    <3> QED
      BY <1>1, <1>3, <2>1, <3>1 DEF RunOK, SquadKnown
  <2> QED
    BY <1>1, <1>2, <2>1, <2>2, ReadStep
<1>5. CASE ProvGoto(r, "failed")
  <2>1. /\ OnlyRun(r) /\ prov'[r].pc = "failed" /\ prov'[r].id = prov[r].id
        /\ prov'[r].source = prov[r].source /\ prov'[r].lost = prov[r].lost
    BY <1>5, ProvTypes, ProvMoves DEF ProvStages
  <2>2. RunOK(r, prov'[r], ws) /\ SquadKnown(prov'[r], Told(r))
    BY <1>1, <1>3, <2>1 DEF RunOK, SquadKnown
  <2> QED
    BY <1>1, <1>2, <2>1, <2>2, ReadStep
<1>6. CASE i \in linked /\ ProvUses(r, i, "probe", "reuse")
  <2>1. i \in WorkspaceIds /\ SameRepository(ws[i].link, Url[r])
    BY <1>6, ProvTypes DEF SameRepository
  <2> QED
    BY <1>1, <1>2, <1>6, <2>1, ChooseStep
<1> QED
  BY <1>2, <1>4, <1>5, <1>6

\* A run that fails or goes on before it has created anything.
LEMMA EarlyStep ==
    ASSUME ProvInv, NEW r \in Provisioners, prov[r].pc \in {"find", "look", "teams", "post"},
           OnlyRun(r), AccountIdle, ProvWorks \/ ProvFault,
           prov'[r].pc \in {"look", "teams", "post", "failed"},
           prov'[r].id = prov[r].id, prov'[r].source = prov[r].source, prov'[r].lost = prov[r].lost,
           SquadKnown(prov'[r], Told(r))
    PROVE  ProvInv'
<1>1. RunOK(r, prov[r], ws)
  BY ProvTypes
<1>2. /\ prov[r].source = "none" /\ prov[r].pc # "recover" /\ prov[r].pc # "failed"
      /\ \A i \in WorkspaceIds : ws[i].by # r
  BY <1>1 DEF RunOK
<1>3. RunOK(r, prov'[r], ws)
  BY <1>2 DEF RunOK
<1> QED
  BY <1>3, ReadStep

LEMMA FindKeeps == ASSUME ProvInv, NEW r \in Provisioners, FindByName(r) PROVE ProvInv'
<1>1. prov[r].pc = "find" /\ AccountIdle /\ (ProvWorks \/ ProvFault)
  BY DEF FindByName, ProvAt
<1>2. CASE prov' = [prov EXCEPT ![r].seen = NameMatches, ![r].pc = "look"]
  <2> DEFINE q == [prov[r] EXCEPT !.seen = NameMatches, !.pc = "look"]
  <2>1. prov' = [prov EXCEPT ![r] = q]
    BY <1>2
  <2>2. prov[r] \in ProvState /\ NameMatches \in SUBSET WorkspaceIds
    BY ProvTypes DEF NameMatches
  <2>3. q \in ProvState /\ q.pc = "look" /\ q.id = prov[r].id /\ q.source = prov[r].source /\ q.lost = prov[r].lost
    BY <2>2 DEF ProvState, ProvStages
  <2> HIDE DEF q
  <2>4. OnlyRun(r) /\ prov'[r] = q
    BY <2>1, <2>3, ProvTypes DEF OnlyRun
  <2>5. SquadKnown(prov'[r], Told(r))
    BY <2>3, <2>4 DEF SquadKnown
  <2> QED
    BY <1>1, <2>3, <2>4, <2>5, EarlyStep
<1>3. CASE ProvGoto(r, "failed")
  <2>1. /\ OnlyRun(r) /\ prov'[r].pc = "failed" /\ prov'[r].id = prov[r].id
        /\ prov'[r].source = prov[r].source /\ prov'[r].lost = prov[r].lost
    BY <1>3, ProvTypes, ProvMoves DEF ProvStages
  <2> QED
    BY <1>1, <2>1, EarlyStep DEF SquadKnown
<1> QED
  BY <1>2, <1>3 DEF FindByName

LEMMA LookUpKeeps == ASSUME ProvInv, NEW r \in Provisioners, LookUpLinks(r) PROVE ProvInv'
<1> DEFINE seen == prov[r].seen
<1>1. prov[r].pc = "look" /\ AccountIdle /\ seen \subseteq WorkspaceIds /\ IsFiniteSet(seen)
  BY ProvTypes, WorkspaceAssumption, FS_Subset DEF LookUpLinks, ProvAt
<1>2. PICK unheard \in SUBSET seen :
        /\ Canonical(r, [i \in seen |-> IF i \in unheard \/ ~Visible(i) THEN NoUrl ELSE ws[i].link])
        /\ ProvWorks \/ ProvFault
  BY DEF LookUpLinks
<1> DEFINE heard == [i \in seen |-> IF i \in unheard \/ ~Visible(i) THEN NoUrl ELSE ws[i].link]
           linked == {i \in seen : heard[i] # NoUrl /\ RepositoryOf[heard[i]] = RepositoryOf[Url[r]]}
<1>3. \A i \in linked : i \in WorkspaceIds /\ SameRepository(ws[i].link, Url[r])
  BY <1>1 DEF SameRepository
<1>4. /\ linked \in SUBSET WorkspaceIds /\ seen \in SUBSET WorkspaceIds
      /\ Cardinality(linked) = 1 => linked # {}
  <2>1. linked \in SUBSET WorkspaceIds
    BY <1>1
  <2> HIDE DEF linked
  <2>2. Cardinality({}) = 0
    BY FS_EmptySet
  <2> QED
    BY <1>1, <2>1, <2>2
<1>5. \/ linked # {} /\ ProvUses(r, LeastId(linked), "linked_match", "reuse")
      \/ ProvGoto(r, "failed")
      \/ seen # {} /\ ProvUses(r, LeastId(seen), "name_match", "reuse")
      \/ prov' = [prov EXCEPT ![r].pc = "teams", ![r].seen = {}]
  BY <1>2, <1>4 DEF Canonical
<1> HIDE DEF linked, heard, seen
<1>6. CASE linked # {} /\ ProvUses(r, LeastId(linked), "linked_match", "reuse")
  <2>1. LeastId(linked) \in linked
    BY <1>4, <1>6, LeastIdIn
  <2>2. LeastId(linked) \in WorkspaceIds /\ SameRepository(ws[LeastId(linked)].link, Url[r])
    BY <1>3, <2>1
  <2> QED
    BY <1>1, <1>2, <1>6, <2>2, ChooseStep
<1>7. CASE seen # {} /\ ProvUses(r, LeastId(seen), "name_match", "reuse")
  <2>1. LeastId(seen) \in WorkspaceIds
    BY <1>4, <1>7, LeastIdIn
  <2> QED
    BY <1>1, <1>2, <1>7, <2>1, ChooseStep
<1>8. CASE ProvGoto(r, "failed")
  <2>1. /\ OnlyRun(r) /\ prov'[r].pc = "failed" /\ prov'[r].id = prov[r].id
        /\ prov'[r].source = prov[r].source /\ prov'[r].lost = prov[r].lost
    BY <1>8, ProvTypes, ProvMoves DEF ProvStages
  <2> QED
    BY <1>1, <1>2, <2>1, EarlyStep DEF SquadKnown
<1>9. CASE prov' = [prov EXCEPT ![r].pc = "teams", ![r].seen = {}]
  <2> DEFINE q == [prov[r] EXCEPT !.pc = "teams", !.seen = {}]
  <2>1. prov' = [prov EXCEPT ![r] = q]
    BY <1>9
  <2>2. prov[r] \in ProvState
    BY ProvTypes
  <2>3. q \in ProvState /\ q.pc = "teams" /\ q.id = prov[r].id /\ q.source = prov[r].source /\ q.lost = prov[r].lost
    BY <2>2 DEF ProvState, ProvStages
  <2> HIDE DEF q
  <2>4. OnlyRun(r) /\ prov'[r] = q
    BY <2>1, <2>3, ProvTypes DEF OnlyRun
  <2>5. SquadKnown(prov'[r], Told(r))
    BY <2>3, <2>4 DEF SquadKnown
  <2> QED
    BY <1>1, <1>2, <2>3, <2>4, <2>5, EarlyStep
<1> QED
  BY <1>5, <1>6, <1>7, <1>8, <1>9

LEMMA DetectKeeps == ASSUME ProvInv, NEW r \in Provisioners, DetectTeams(r) PROVE ProvInv'
<1>1. /\ prov[r].pc = "teams" /\ AccountIdle /\ (ProvWorks \/ ProvFault)
      /\ prov \in [Provisioners -> ProvState] /\ squads \in 0..2
      /\ prov[r].squad \in BOOLEAN /\ provided[r].session \in BOOLEAN
  BY ProvTypes DEF DetectTeams, ProvAt
<1>2. CASE (prov[r].squad = TRUE \/ provided[r].session = FALSE) /\ ProvGoto(r, "post")
  <2>1. /\ OnlyRun(r) /\ prov'[r].pc = "post" /\ prov'[r].id = prov[r].id
        /\ prov'[r].source = prov[r].source /\ prov'[r].lost = prov[r].lost /\ prov'[r].squad = prov[r].squad
    BY <1>1, <1>2, ProvMoves DEF ProvStages
  <2>2. SquadKnown(prov'[r], Told(r))
    BY <1>2, <2>1 DEF SquadKnown, Told
  <2> QED
    BY <1>1, <2>1, <2>2, EarlyStep
<1>3. CASE ProvGoto(r, "failed")
  <2>1. /\ OnlyRun(r) /\ prov'[r].pc = "failed" /\ prov'[r].id = prov[r].id
        /\ prov'[r].source = prov[r].source /\ prov'[r].lost = prov[r].lost
    BY <1>1, <1>3, ProvMoves DEF ProvStages
  <2> QED
    BY <1>1, <2>1, EarlyStep DEF SquadKnown
<1>4. CASE squads # 2 /\ prov' = [prov EXCEPT ![r].pc = "post", ![r].squad = squads = 1]
  <2> DEFINE q == [prov[r] EXCEPT !.pc = "post", !.squad = squads = 1]
  <2>1. prov' = [prov EXCEPT ![r] = q]
    BY <1>4
  <2>2. prov[r] \in ProvState
    BY <1>1
  <2>3. q \in ProvState /\ q.pc = "post" /\ q.id = prov[r].id /\ q.source = prov[r].source /\ q.lost = prov[r].lost
    BY <2>2 DEF ProvState, ProvStages
  <2>4. q.squad = FALSE => squads = 0
    <3>1. q.squad = (squads = 1)
      BY <2>2 DEF ProvState
    <3>2. squads # 1 => squads = 0
      BY <1>1, <1>4
    <3> QED
      BY <3>1, <3>2
  <2> HIDE DEF q
  <2>5. OnlyRun(r) /\ prov'[r] = q
    BY <1>1, <2>1, <2>3 DEF OnlyRun
  <2>6. SquadKnown(prov'[r], Told(r))
    BY <2>4, <2>5 DEF SquadKnown, Told
  <2> QED
    BY <1>1, <2>3, <2>5, <2>6, EarlyStep
<1> QED
  BY <1>1, <1>2, <1>3, <1>4 DEF DetectTeams

\* A create whose answer is lost leaves a workspace that the run does not know of.
LEMMA PostKeeps == ASSUME ProvInv, NEW r \in Provisioners, PostWorkspace(r) PROVE ProvInv'
<1>1. /\ prov[r].pc = "post" /\ UNCHANGED <<squads, granted, provided>> /\ RunOK(r, prov[r], ws)
      /\ prov \in [Provisioners -> ProvState] /\ ws \in [WorkspaceIds -> Workspace]
      /\ SquadKnown(prov[r], Told(r)) /\ WorldOK /\ prov[r].squad \in BOOLEAN
  BY ProvTypes DEF PostWorkspace, ProvAt
<1>2. /\ prov[r].source = "none" /\ \A i \in WorkspaceIds : ws[i].by # r
      /\ provFaults' \in 0..MaxProvFaults
  BY <1>1, ProvFaultsOK DEF RunOK, PostWorkspace
<1>3. CASE UNCHANGED ws /\ (ProvGoto(r, "recover") \/ ProvGoto(r, "failed")) /\ ProvFault
  <2>1. /\ OnlyRun(r) /\ prov'[r].pc \in {"recover", "failed"} /\ prov'[r].id = prov[r].id
        /\ prov'[r].source = prov[r].source /\ prov'[r].lost = prov[r].lost
    BY <1>1, <1>3, ProvMoves DEF ProvStages
  <2>2. RunOK(r, prov'[r], ws) /\ SquadKnown(prov'[r], Told(r)) /\ AccountIdle
    BY <1>1, <1>2, <1>3, <2>1 DEF RunOK, SquadKnown, AccountIdle
  <2> QED
    BY <1>1, <1>3, <2>1, <2>2, ReadStep
<1>4. CASE \E i \in WorkspaceIds :
              /\ ws[i].vis = "none"
              /\ ws' = [ws EXCEPT ![i] = [vis |-> IF prov[r].squad THEN "team" ELSE "personal",
                                          link |-> NoUrl, by |-> r]]
              /\ \/ ProvUses(r, i, "create", IF prov[r].squad THEN "verify" ELSE "promote") /\ ProvWorks
                 \/ prov' = [prov EXCEPT ![r].pc = "recover", ![r].lost = TRUE] /\ ProvFault
  <2>1. PICK i \in WorkspaceIds, vis \in {"team", "personal"} :
              /\ ws[i].vis = "none" /\ (vis = "team" <=> prov[r].squad)
              /\ ws' = [ws EXCEPT ![i] = [vis |-> vis, link |-> NoUrl, by |-> r]]
              /\ \/ ProvUses(r, i, "create", IF prov[r].squad THEN "verify" ELSE "promote")
                 \/ prov' = [prov EXCEPT ![r].pc = "recover", ![r].lost = TRUE]
    <3>1. PICK i \in WorkspaceIds :
              /\ ws[i].vis = "none"
              /\ ws' = [ws EXCEPT ![i] = [vis |-> IF prov[r].squad THEN "team" ELSE "personal",
                                          link |-> NoUrl, by |-> r]]
              /\ \/ ProvUses(r, i, "create", IF prov[r].squad THEN "verify" ELSE "promote") /\ ProvWorks
                 \/ prov' = [prov EXCEPT ![r].pc = "recover", ![r].lost = TRUE] /\ ProvFault
      BY <1>4
    <3>2. CASE prov[r].squad
      BY <3>1, <3>2
    <3>3. CASE ~prov[r].squad
      BY <3>1, <3>3
    <3> QED
      BY <3>2, <3>3
  <2> DEFINE made == [vis |-> vis, link |-> NoUrl, by |-> r]
  <2>2. made \in Workspace /\ made.vis = vis /\ made.link = NoUrl /\ made.by = r
    BY DEF Workspace, Visibilities
  <2> HIDE DEF made
  <2>3. /\ ws' \in [WorkspaceIds -> Workspace] /\ ws'[i] = made
        /\ \A j \in WorkspaceIds : j # i => ws'[j] = ws[j]
    BY <1>1, <2>1, <2>2 DEF made
  <2>4. vis = "personal" => Told(r) = 0
    BY <1>1, <2>1 DEF SquadKnown
  <2>5. WorldOK'
    BY <1>1, <2>2, <2>3, <2>4 DEF WorldOK, Told
  <2>6. \A j \in WorkspaceIds : MovedBy(r, j)
    BY <2>1, <2>2, <2>3 DEF MovedBy
  <2>7. \A j \in WorkspaceIds : ws'[j].by = r => j = i /\ ws'[j].vis # "none"
    BY <1>2, <2>2, <2>3
  <2>8. /\ OnlyRun(r) /\ SquadKnown(prov'[r], Told(r))
        /\ \/ /\ prov'[r].id = i /\ prov'[r].source = "create"
              /\ prov'[r].pc = (IF vis = "team" THEN "verify" ELSE "promote")
           \/ prov'[r].pc = "recover" /\ prov'[r].source = "none" /\ prov'[r].lost = TRUE
    <3>1. CASE ProvUses(r, i, "create", IF prov[r].squad THEN "verify" ELSE "promote")
      <4>1. ProvUses(r, i, "create", IF vis = "team" THEN "verify" ELSE "promote")
        BY <2>1, <3>1
      <4>2. (IF vis = "team" THEN "verify" ELSE "promote") \in ProvStages /\ "create" \in Sources
        BY DEF ProvStages, Sources
      <4> QED
        BY <1>1, <4>1, <4>2, ProvMoves DEF SquadKnown
    <3>2. CASE prov' = [prov EXCEPT ![r].pc = "recover", ![r].lost = TRUE]
      <4> DEFINE q == [prov[r] EXCEPT !.pc = "recover", !.lost = TRUE]
      <4>1. prov' = [prov EXCEPT ![r] = q]
        BY <3>2
      <4>2. q \in ProvState /\ q.pc = "recover" /\ q.source = "none" /\ q.lost = TRUE
        BY <1>1, <1>2 DEF ProvState, ProvStages
      <4> HIDE DEF q
      <4> QED
        BY <1>1, <4>1, <4>2 DEF OnlyRun, SquadKnown
    <3> QED
      BY <2>1, <3>1, <3>2
  <2>9. RunOK(r, prov'[r], ws')
    BY <2>2, <2>3, <2>7, <2>8 DEF RunOK
  <2> QED
    BY <1>1, <1>2, <2>3, <2>5, <2>6, <2>8, <2>9, RunStep
<1> QED
  BY <1>3, <1>4 DEF PostWorkspace

LEMMA RecoverKeeps == ASSUME ProvInv, NEW r \in Provisioners, RecoverWorkspace(r) PROVE ProvInv'
<1>1. /\ prov[r].pc = "recover" /\ AccountIdle /\ (ProvWorks \/ ProvFault)
      /\ prov \in [Provisioners -> ProvState] /\ RunOK(r, prov[r], ws) /\ prov[r].source = "none"
  BY ProvTypes DEF RecoverWorkspace, ProvAt, RunOK
<1>2. CASE ProvGoto(r, "failed")
  <2>1. /\ OnlyRun(r) /\ prov'[r].pc = "failed" /\ prov'[r].id = prov[r].id
        /\ prov'[r].source = prov[r].source /\ prov'[r].lost = prov[r].lost
    BY <1>1, <1>2, ProvMoves DEF ProvStages
  <2>2. RunOK(r, prov'[r], ws) /\ SquadKnown(prov'[r], Told(r))
    BY <1>1, <2>1 DEF RunOK, SquadKnown
  <2> QED
    BY <1>1, <2>1, <2>2, ReadStep
<1>3. CASE Cardinality(NameMatches) = 1 /\ ProvUses(r, LeastId(NameMatches), "reconciled", "verify")
  <2>1. NameMatches \in SUBSET WorkspaceIds
    BY DEF NameMatches
  <2>2. NameMatches # {}
    <3>1. Cardinality({}) = 0
      BY FS_EmptySet
    <3> QED
      BY <1>3, <3>1
  <2>3. LeastId(NameMatches) \in WorkspaceIds
    BY <2>1, <2>2, LeastIdIn
  <2> DEFINE i == LeastId(NameMatches)
  <2> HIDE DEF i
  <2>4. /\ OnlyRun(r) /\ prov'[r].pc = "verify" /\ prov'[r].id = i
        /\ prov'[r].source = "reconciled" /\ prov'[r].lost = prov[r].lost
    BY <1>1, <1>3, <2>3, ProvMoves DEF ProvStages, Sources, i
  <2>5. RunOK(r, prov'[r], ws) /\ SquadKnown(prov'[r], Told(r))
    BY <1>1, <2>3, <2>4 DEF RunOK, SquadKnown, i
  <2> QED
    BY <1>1, <2>4, <2>5, ReadStep
<1> QED
  BY <1>2, <1>3 DEF RecoverWorkspace

\* What is done to the workspace that the run created: it shows to the team, or
\* goes away.
LEMMA OwnStep ==
    ASSUME ProvInv, NEW r \in Provisioners, prov[r].pc \in {"promote", "cleanup"}, prov[r].source = "create",
           NEW vis \in {"team", "deleted"}, ws' \in {ws, [ws EXCEPT ![prov[r].id].vis = vis]},
           UNCHANGED <<squads, granted, provided>>, ProvWorks \/ ProvFault, OnlyRun(r),
           prov'[r].pc \in {"verify", "cleanup", "failed"},
           prov'[r].id = prov[r].id, prov'[r].source = "create",
           prov'[r].pc = "verify" \/ (prov'[r].pc = "failed" /\ prov'[r].lost = FALSE) => ws' # ws \/ ws[prov[r].id].vis = vis,
           prov[r].lost = TRUE => prov'[r].lost = TRUE
    PROVE  ProvInv'
<1> DEFINE i == prov[r].id
<1>1. /\ RunOK(r, prov[r], ws) /\ ws \in [WorkspaceIds -> Workspace] /\ WorldOK
      /\ i \in WorkspaceIds /\ ws[i].by = r /\ ws[i].vis # "none"
  <2>1. RunOK(r, prov[r], ws) /\ ws \in [WorkspaceIds -> Workspace] /\ WorldOK
    BY ProvTypes
  <2>2. i \in WorkspaceIds /\ ws[i].by = r
    BY <2>1 DEF RunOK
  <2> QED
    BY <2>1, <2>2 DEF RunOK
<1>2. CASE ws' = ws
  <2>1. AccountIdle /\ SquadKnown(prov'[r], Told(r))
    BY <1>2 DEF AccountIdle, SquadKnown
  <2>2. prov'[r].pc = "verify" \/ (prov'[r].pc = "failed" /\ prov'[r].lost = FALSE) => ws[i].vis # "personal"
    BY <1>2
  <2>3. RunOK(r, prov'[r], ws)
    BY <1>1, <2>2 DEF RunOK
  <2> QED
    BY <1>1, <2>1, <2>3, ReadStep
<1>3. CASE ws' = [ws EXCEPT ![i].vis = vis]
  <2> DEFINE w == [ws[i] EXCEPT !.vis = vis]
  <2>1. ws' = [ws EXCEPT ![i] = w]
    BY <1>3
  <2>2. w \in Workspace /\ w.vis = vis /\ w.link = ws[i].link /\ w.by = r
    BY <1>1 DEF Workspace, Visibilities
  <2> HIDE DEF w
  <2>3. /\ ws' \in [WorkspaceIds -> Workspace] /\ ws'[i] = w
        /\ \A j \in WorkspaceIds : j # i => ws'[j] = ws[j]
    BY <1>1, <2>1, <2>2
  <2> HIDE DEF i
  <2>4. WorldOK' /\ \A j \in WorkspaceIds : MovedBy(r, j)
    BY <1>1, <2>2, <2>3 DEF WorldOK, MovedBy, Told
  <2>5. /\ \A j \in WorkspaceIds : ws'[j].by = r =>
              ws'[j].vis # "none" /\ (prov'[r].lost = TRUE \/ j = i)
        /\ ws'[i].vis # "personal"
    BY <1>1, <2>2, <2>3 DEF RunOK, i
  <2>6. RunOK(r, prov'[r], ws') /\ SquadKnown(prov'[r], Told(r)) /\ provFaults' \in 0..MaxProvFaults
    BY <1>1, <2>2, <2>3, <2>5, ProvFaultsOK DEF RunOK, SquadKnown, i
  <2> QED
    BY <2>3, <2>4, <2>6, RunStep
<1> QED
  BY <1>2, <1>3

LEMMA PromoteKeeps == ASSUME ProvInv, NEW r \in Provisioners, Promote(r) PROVE ProvInv'
<1>1. /\ prov[r].pc = "promote" /\ UNCHANGED <<squads, granted, provided>> /\ (ProvWorks \/ ProvFault)
      /\ prov \in [Provisioners -> ProvState] /\ prov[r].source = "create"
      /\ ws \in [WorkspaceIds -> Workspace] /\ prov[r].id \in WorkspaceIds
  BY ProvTypes DEF Promote, ProvAt, RunOK
<1>2. CASE ws' = [ws EXCEPT ![prov[r].id].vis = "team"] /\ ProvGoto(r, "verify")
  <2>1. /\ OnlyRun(r) /\ prov'[r].pc = "verify" /\ prov'[r].id = prov[r].id
        /\ prov'[r].source = "create" /\ prov'[r].lost = prov[r].lost
    BY <1>1, <1>2, ProvMoves DEF ProvStages
  <2>2. ws' # ws \/ ws[prov[r].id].vis = "team"
    <3> DEFINE w == [ws[prov[r].id] EXCEPT !.vis = "team"]
    <3>1. ws' = [ws EXCEPT ![prov[r].id] = w] /\ ws[prov[r].id] \in Workspace
      BY <1>1, <1>2
    <3>2. w.vis = "team"
      BY <3>1 DEF Workspace
    <3> HIDE DEF w
    <3> QED
      BY <1>1, <3>1, <3>2
  <2> QED
    BY <1>1, <1>2, <2>1, <2>2, OwnStep
<1>3. CASE ws' \in {ws, [ws EXCEPT ![prov[r].id].vis = "team"]} /\ ProvGoto(r, "cleanup")
  <2>1. /\ OnlyRun(r) /\ prov'[r].pc = "cleanup" /\ prov'[r].id = prov[r].id
        /\ prov'[r].source = "create" /\ prov'[r].lost = prov[r].lost
    BY <1>1, <1>3, ProvMoves DEF ProvStages
  <2> QED
    BY <1>1, <1>3, <2>1, OwnStep
<1> QED
  BY <1>2, <1>3 DEF Promote

LEMMA CleanupKeeps == ASSUME ProvInv, NEW r \in Provisioners, CleanupWorkspace(r) PROVE ProvInv'
<1>1. /\ prov[r].pc = "cleanup" /\ UNCHANGED <<squads, granted, provided>> /\ (ProvWorks \/ ProvFault)
      /\ prov \in [Provisioners -> ProvState] /\ prov[r].source = "create"
      /\ ws \in [WorkspaceIds -> Workspace] /\ prov[r].id \in WorkspaceIds
  BY ProvTypes DEF CleanupWorkspace, ProvAt, RunOK
<1>2. CASE ws' = [ws EXCEPT ![prov[r].id].vis = "deleted"] /\ ProvGoto(r, "failed")
  <2>1. /\ OnlyRun(r) /\ prov'[r].pc = "failed" /\ prov'[r].id = prov[r].id
        /\ prov'[r].source = "create" /\ prov'[r].lost = prov[r].lost
    BY <1>1, <1>2, ProvMoves DEF ProvStages
  <2>2. ws' # ws \/ ws[prov[r].id].vis = "deleted"
    <3> DEFINE w == [ws[prov[r].id] EXCEPT !.vis = "deleted"]
    <3>1. ws' = [ws EXCEPT ![prov[r].id] = w] /\ ws[prov[r].id] \in Workspace
      BY <1>1, <1>2
    <3>2. w.vis = "deleted"
      BY <3>1 DEF Workspace
    <3> HIDE DEF w
    <3> QED
      BY <1>1, <3>1, <3>2
  <2> QED
    BY <1>1, <1>2, <2>1, <2>2, OwnStep
<1>3. CASE /\ ws' \in {ws, [ws EXCEPT ![prov[r].id].vis = "deleted"]}
           /\ prov' = [prov EXCEPT ![r].pc = "failed", ![r].lost = TRUE]
  <2> DEFINE q == [prov[r] EXCEPT !.pc = "failed", !.lost = TRUE]
  <2>1. prov' = [prov EXCEPT ![r] = q]
    BY <1>3
  <2>2. q \in ProvState /\ q.pc = "failed" /\ q.source = "create" /\ q.lost = TRUE /\ q.id = prov[r].id
    BY <1>1 DEF ProvState, ProvStages
  <2> HIDE DEF q
  <2>3. OnlyRun(r) /\ prov'[r] = q
    BY <1>1, <2>1, <2>2 DEF OnlyRun
  <2> QED
    BY <1>1, <1>3, <2>2, <2>3, OwnStep
<1> QED
  BY <1>2, <1>3 DEF CleanupWorkspace

LEMMA VerifyKeeps == ASSUME ProvInv, NEW r \in Provisioners, VerifyVisibility(r) PROVE ProvInv'
<1>1. /\ prov[r].pc = "verify" /\ AccountIdle /\ (ProvWorks \/ ProvFault)
      /\ prov \in [Provisioners -> ProvState] /\ RunOK(r, prov[r], ws)
      /\ prov[r].source \in {"create", "reconciled"}
  BY ProvTypes DEF VerifyVisibility, ProvAt, RunOK
<1>2. PICK pc \in {"grant", "cleanup", "failed"} :
        /\ ProvGoto(r, pc)
        /\ pc = "grant" => ws[prov[r].id].vis = "team"
        /\ pc # "grant" => pc = Unverified(r)
  <2>1. Unverified(r) \in {"cleanup", "failed"}
    BY DEF Unverified
  <2> QED
    BY <2>1 DEF VerifyVisibility
<1>3. /\ OnlyRun(r) /\ prov'[r].pc = pc /\ prov'[r].id = prov[r].id
      /\ prov'[r].source = prov[r].source /\ prov'[r].lost = prov[r].lost
  BY <1>1, <1>2, ProvMoves DEF ProvStages
<1>4. /\ pc = "cleanup" => prov[r].source = "create"
      /\ pc = "failed" => prov[r].source # "create"
  BY <1>2 DEF Unverified
<1>5. RunOK(r, prov'[r], ws) /\ SquadKnown(prov'[r], Told(r))
  BY <1>1, <1>2, <1>3, <1>4 DEF RunOK, SquadKnown
<1> QED
  BY <1>1, <1>3, <1>5, ReadStep

LEMMA ReuseKeeps == ASSUME ProvInv, NEW r \in Provisioners, Reuse(r) PROVE ProvInv'
<1>1. /\ prov[r].pc = "reuse" /\ AccountIdle /\ ProvWorks /\ ProvGoto(r, "grant")
      /\ prov \in [Provisioners -> ProvState] /\ RunOK(r, prov[r], ws)
  BY ProvTypes DEF Reuse, ProvAt
<1>2. /\ OnlyRun(r) /\ prov'[r].pc = "grant" /\ prov'[r].id = prov[r].id
      /\ prov'[r].source = prov[r].source /\ prov'[r].lost = prov[r].lost
  BY <1>1, ProvMoves DEF ProvStages
<1>3. RunOK(r, prov'[r], ws) /\ SquadKnown(prov'[r], Told(r))
  BY <1>1, <1>2 DEF RunOK, SquadKnown
<1> QED
  BY <1>1, <1>2, <1>3, ReadStep

LEMMA GrantKeeps == ASSUME ProvInv, NEW r \in Provisioners, GrantRoles(r) PROVE ProvInv'
<1>1. /\ prov[r].pc = "grant" /\ UNCHANGED <<ws, squads, provided>> /\ ProvGoto(r, "done") /\ (ProvWorks \/ ProvFault)
      /\ prov \in [Provisioners -> ProvState] /\ RunOK(r, prov[r], ws) /\ prov[r].id \in WorkspaceIds
  BY ProvTypes DEF GrantRoles, ProvAt, RunOK
<1>2. /\ OnlyRun(r) /\ prov'[r].pc = "done" /\ prov'[r].id = prov[r].id
      /\ prov'[r].source = prov[r].source /\ prov'[r].lost = prov[r].lost
  BY <1>1, ProvMoves DEF ProvStages
<1>3. PICK roles \in SUBSET Roles :
        /\ granted' = granted \cup {<<r, prov[r].id, role>> : role \in roles}
        /\ roles # {} => MutationOwned(r)
  <2>1. CASE granted' = granted
    BY <2>1
  <2>2. CASE MutationOwned(r) /\ granted' # granted
    <3>1. PICK g \in GovernanceGrants, q \in RequesterGrants, admins \in AdminGrants \cup {{}} :
            granted' = granted \cup {<<r, prov[r].id, role>> : role \in g \cup q \cup admins}
      BY <2>2 DEF GrantRoles
    <3>2. g \cup q \cup admins \in SUBSET Roles
      BY DEF GovernanceGrants, RequesterGrants, AdminGrants, Roles
    <3> QED
      BY <2>2, <3>1, <3>2
  <2> QED
    BY <2>1, <2>2 DEF GrantRoles
<1>4. RunOK(r, prov'[r], ws) /\ SquadKnown(prov'[r], Told(r))
  BY <1>1, <1>2 DEF RunOK, SquadKnown
<1>5. GrantsOK'
  <2> SUFFICES ASSUME NEW s \in Provisioners, NEW i \in WorkspaceIds, NEW role \in Roles,
                      <<s, i, role>> \in granted'
               PROVE  prov'[s].pc = "done" /\ prov'[s].id = i /\ prov'[s].source \notin {"name_match", "reconciled"}
    BY DEF GrantsOK
  <2>1. CASE <<s, i, role>> \in granted
    <3>1. prov[s].pc = "done" /\ prov[s].id = i /\ prov[s].source \notin {"name_match", "reconciled"}
      BY <2>1 DEF ProvInv, GrantsOK
    <3>2. s # r
      BY <1>1, <3>1
    <3> QED
      BY <1>2, <3>1, <3>2 DEF OnlyRun
  <2>2. CASE <<s, i, role>> \notin granted
    <3>1. s = r /\ i = prov[r].id /\ roles # {}
      BY <1>3, <2>2
    <3> QED
      BY <1>2, <1>3, <3>1 DEF MutationOwned
  <2> QED
    BY <2>1, <2>2
<1>6. WorkspaceTypeOK'
  <2>1. granted' \subseteq Provisioners \X WorkspaceIds \X Roles
    BY <1>1, <1>3 DEF ProvInv, WorkspaceTypeOK
  <2> QED
    BY <1>1, <1>2, <2>1, ProvFaultsOK DEF ProvInv, WorkspaceTypeOK, OnlyRun
<1>7. WorldOK'
  BY <1>1 DEF ProvInv, WorldOK, Told
<1>8. \A s \in Provisioners : RunOK(s, prov'[s], ws') /\ SquadKnown(prov'[s], Told(s)')
  <2> TAKE s \in Provisioners
  <2>1. RunOK(s, prov[s], ws) /\ SquadKnown(prov[s], Told(s))
    BY DEF ProvInv
  <2>2. RunOK(s, prov'[s], ws) /\ SquadKnown(prov'[s], Told(s))
    BY <1>2, <1>4, <2>1 DEF OnlyRun
  <2> QED
    BY <1>1, <2>2 DEF Told
<1> QED
  BY <1>5, <1>6, <1>7, <1>8 DEF ProvInv

LEMMA ConnectKeeps == ASSUME ProvInv, NEW r \in Provisioners, ConnectRepository(r) PROVE ProvInv'
<1> DEFINE i == prov[r].id
<1>1. /\ prov[r].pc = "done" /\ UNCHANGED <<squads, granted, provided, prov>> /\ ProvWorks
      /\ ws \in [WorkspaceIds -> Workspace] /\ i \in WorkspaceIds /\ WorldOK
      /\ ws[i].vis = "team" /\ ws[i].link = NoUrl /\ ws' = [ws EXCEPT ![i].link = Url[r]]
  BY ProvTypes DEF ConnectRepository, ProvAt, RunOK
<1> DEFINE w == [ws[i] EXCEPT !.link = Url[r]]
<1>2. ws' = [ws EXCEPT ![i] = w]
  BY <1>1
<1>3. w \in Workspace /\ w.vis = "team" /\ w.by = ws[i].by
  <2>1. Url[r] \in Urls
    BY WorkspaceAssumption
  <2> QED
    BY <1>1, <2>1 DEF Workspace
<1> HIDE DEF w, i
<1>4. /\ ws' \in [WorkspaceIds -> Workspace] /\ ws'[i] = w
      /\ \A j \in WorkspaceIds : j # i => ws'[j] = ws[j]
  BY <1>1, <1>2, <1>3
<1>5. \A j \in WorkspaceIds : /\ ws'[j].by = ws[j].by /\ ws'[j].vis = ws[j].vis
                              /\ ws[j].link # NoUrl => ws'[j].link = ws[j].link
  BY <1>1, <1>3, <1>4
<1>6. WorldOK'
  BY <1>1, <1>3, <1>4 DEF WorldOK, Told
<1>7. \A s \in Provisioners : RunOK(s, prov[s], ws') /\ Told(s)' = Told(s)
  BY <1>1, <1>5, Undisturbed DEF Told
<1>8. WorkspaceTypeOK' /\ GrantsOK'
  BY <1>1, <1>4, ProvFaultsOK DEF ProvInv, WorkspaceTypeOK, GrantsOK
<1> QED
  BY <1>1, <1>6, <1>7, <1>8 DEF ProvInv

LEMMA ProvInitOK == WorkspaceInit => ProvInv
<1> SUFFICES ASSUME WorkspaceInit PROVE ProvInv
  OBVIOUS
<1>1. \A i \in WorkspaceIds :
        /\ ws[i] \in Workspace /\ ws[i].by = "before" /\ ws[i].vis # "personal"
        /\ ws[i].vis = "none" => ws[i].link = NoUrl
  BY DEF WorkspaceInit, NoWorkspace, Workspace, Visibilities
<1>2. ws \in [WorkspaceIds -> Workspace]
  <2>1. ws = [i \in WorkspaceIds |-> ws[i]]
    BY DEF WorkspaceInit
  <2> QED
    BY <1>1, <2>1
<1>3. \A r \in Provisioners :
        /\ prov[r] \in ProvState /\ prov[r].pc = "probe"
        /\ prov[r].source = (IF prov[r].id = 0 THEN "none" ELSE "explicit")
        /\ prov[r].id \in WorkspaceIds \cup {0}
  <2> TAKE r \in Provisioners
  <2>1. PICK i \in PriorIds \cup {0}, known \in {FALSE, squads # 0} :
          prov[r] = [pc |-> "probe", id |-> i, seen |-> {}, squad |-> known,
                     source |-> IF i = 0 THEN "none" ELSE "explicit", lost |-> FALSE]
    BY DEF WorkspaceInit
  <2>2. i \in WorkspaceIds \cup {0} /\ known \in BOOLEAN /\ (IF i = 0 THEN "none" ELSE "explicit") \in Sources
    BY WorkspaceAssumption DEF Sources
  <2> QED
    BY <2>1, <2>2 DEF ProvState, ProvStages
<1>4. prov \in [Provisioners -> ProvState]
  <2>1. prov = [r \in Provisioners |-> prov[r]]
    BY DEF WorkspaceInit
  <2> QED
    BY <1>3, <2>1
<1>5. WorkspaceTypeOK
  BY <1>2, <1>4, WorkspaceAssumption DEF WorkspaceInit, WorkspaceTypeOK
<1>6. \A r \in Provisioners : RunOK(r, prov[r], ws) /\ SquadKnown(prov[r], Told(r))
  BY <1>1, <1>3, WorkspaceAssumption DEF RunOK, SquadKnown
<1> QED
  BY <1>1, <1>5, <1>6 DEF ProvInv, WorldOK, GrantsOK, WorkspaceInit

LEMMA ProvStepKeeps == ASSUME ProvInv, [WorkspaceNext]_workspaceVars PROVE ProvInv'
<1>1. CASE UNCHANGED workspaceVars
  BY <1>1 DEF workspaceVars, ProvInv, WorkspaceTypeOK, WorldOK, GrantsOK, Told
<1> QED
  BY <1>1, ProbeKeeps, FindKeeps, LookUpKeeps, DetectKeeps, PostKeeps, RecoverKeeps, PromoteKeeps,
     VerifyKeeps, CleanupKeeps, ReuseKeeps, GrantKeeps, ConnectKeeps DEF WorkspaceNext

LEMMA ProvInvImplies == ASSUME ProvInv PROVE WorkspaceTypeOK /\ CreatedIsShared /\ NoLeftover /\ RolesOnOwnWorkspaceOnly
<1>1. WorkspaceTypeOK /\ CreatedIsShared
  BY DEF ProvInv, RunOK, CreatedIsShared, ProvAt
<1>2. NoLeftover
  <2> SUFFICES ASSUME NEW i \in WorkspaceIds, ws[i].vis = "personal", NEW r \in Provisioners,
                      ws[i].by = r, prov[r].pc \in {"done", "failed"}, prov[r].lost # TRUE
               PROVE  FALSE
    <3>1. \A r \in Provisioners : prov[r].lost \in BOOLEAN /\ provided[r].session \in BOOLEAN
      BY ProvTypes
    <3>2. ASSUME NEW i \in WorkspaceIds, ws[i].vis = "personal", squads # 0
          PROVE  \E r \in Provisioners : ws[i].by = r /\ ~provided[r].session
      BY <3>1, <3>2 DEF ProvInv, WorldOK, Told
    <3> QED
      BY <3>1, <3>2 DEF NoLeftover
  <2>1. prov[r].lost = FALSE /\ prov[r].id = i /\ prov[r].source = "create" /\ RunOK(r, prov[r], ws)
    BY ProvTypes DEF RunOK
  <2> QED
    BY <2>1 DEF RunOK
<1>3. RolesOnOwnWorkspaceOnly
  <2> SUFFICES ASSUME NEW r \in Provisioners, NEW i \in WorkspaceIds, NEW role \in Roles,
                      <<r, i, role>> \in granted, prov[r].source # "explicit"
               PROVE  ws[i].by = r \/ SameRepository(ws[i].link, Url[r])
    BY DEF RolesOnOwnWorkspaceOnly, SameRepository
  <2>1. /\ prov[r].pc = "done" /\ prov[r].id = i /\ prov[r].source \notin {"name_match", "reconciled"}
        /\ RunOK(r, prov[r], ws) /\ prov[r].source \in Sources
    BY DEF ProvInv, GrantsOK, WorkspaceTypeOK, ProvState
  <2> QED
    BY <2>1 DEF RunOK, Sources
<1> QED
  BY <1>1, <1>2, <1>3

\* Only the clean-up of a run deletes a workspace, and only the one it created.
LEMMA DeletesOwn == ASSUME ProvInv, WorkspaceNext PROVE DeletesOwnWorkspaceOnly
<1> SUFFICES ASSUME NEW i \in WorkspaceIds, ws'[i].vis = "deleted", ws[i].vis # "deleted"
             PROVE  \E r \in Provisioners : ws[i].by = r /\ prov[r].id = i /\ prov'[r].pc = "failed"
  BY DEF DeletesOwnWorkspaceOnly
<1>1. ws' # ws
  OBVIOUS
<1>2. PICK r \in Provisioners : PostWorkspace(r) \/ Promote(r) \/ CleanupWorkspace(r) \/ ConnectRepository(r)
  BY <1>1 DEF WorkspaceNext, ProbeLink, FindByName, LookUpLinks, DetectTeams, RecoverWorkspace,
              VerifyVisibility, Reuse, GrantRoles, AccountIdle
<1>3. /\ ws \in [WorkspaceIds -> Workspace] /\ RunOK(r, prov[r], ws) /\ prov \in [Provisioners -> ProvState]
      /\ ws[i] \in Workspace
  BY ProvTypes
<1>4. CASE CleanupWorkspace(r)
  <2>1. /\ prov[r].source = "create" /\ prov[r].id \in WorkspaceIds /\ ws[prov[r].id].by = r
    BY <1>3, <1>4 DEF CleanupWorkspace, ProvAt, RunOK
  <2>2. prov[r].id = i
    <3>1. ws' = [ws EXCEPT ![prov[r].id].vis = "deleted"]
      BY <1>1, <1>4 DEF CleanupWorkspace
    <3> DEFINE w == [ws[prov[r].id] EXCEPT !.vis = "deleted"]
    <3>2. ws' = [ws EXCEPT ![prov[r].id] = w]
      BY <3>1
    <3> HIDE DEF w
    <3> QED
      BY <1>3, <2>1, <3>2
  <2>3. prov'[r].pc = "failed"
    <3>1. CASE ProvGoto(r, "failed")
      BY <1>3, <3>1, ProvMoves DEF ProvStages
    <3>2. CASE prov' = [prov EXCEPT ![r].pc = "failed", ![r].lost = TRUE]
      <4> DEFINE q == [prov[r] EXCEPT !.pc = "failed", !.lost = TRUE]
      <4>1. prov' = [prov EXCEPT ![r] = q] /\ prov[r] \in ProvState
        BY <1>3, <3>2
      <4>2. q.pc = "failed"
        BY <4>1 DEF ProvState
      <4> HIDE DEF q
      <4> QED
        BY <1>3, <4>1, <4>2
    <3> QED
      BY <1>4, <3>1, <3>2 DEF CleanupWorkspace
  <2> QED
    BY <2>1, <2>2, <2>3
<1>5. CASE PostWorkspace(r)
  <2>1. PICK j \in WorkspaceIds, v1 \in {"team", "personal"} : ws' = [ws EXCEPT ![j] = [vis |-> v1, link |-> NoUrl, by |-> r]]
    BY <1>1, <1>5 DEF PostWorkspace
  <2> DEFINE made == [vis |-> v1, link |-> NoUrl, by |-> r]
  <2>2. made.vis # "deleted" /\ ws' = [ws EXCEPT ![j] = made]
    BY <2>1
  <2> HIDE DEF made
  <2> QED
    BY <1>3, <2>2
<1>6. CASE Promote(r) \/ ConnectRepository(r)
  <2>1. prov[r].id \in WorkspaceIds
    BY <1>3, <1>6 DEF Promote, ConnectRepository, ProvAt, RunOK
  <2>2. PICK w \in {[ws[prov[r].id] EXCEPT !.vis = "team"], [ws[prov[r].id] EXCEPT !.link = Url[r]]} :
          ws' = [ws EXCEPT ![prov[r].id] = w]
    BY <1>1, <1>6 DEF Promote, ConnectRepository
  <2>3. w.vis = "deleted" => ws[prov[r].id].vis = "deleted"
    BY <1>3, <2>1, <2>2 DEF Workspace
  <2> QED
    BY <1>3, <2>1, <2>2, <2>3
<1> QED
  BY <1>2, <1>4, <1>5, <1>6

\* provisionWorkspace, for any number of runs, workspaces and failing calls: each
\* deletes only what its own answered create made, leaves no personal workspace
\* behind unless the answer to its create was lost or its delete failed, makes one
\* in an account with sub-teams only without the team of its session, and grants
\* roles only in a workspace that is its own, its repository's or the user's choice.
THEOREM ProvisioningSafe == WorkspaceSpec => ProvisioningIsSafe
<1>1. WorkspaceInit => ProvInv
  BY ProvInitOK
<1>2. ProvInv /\ [WorkspaceNext]_workspaceVars => ProvInv'
  BY ProvStepKeeps
<1>3. ProvInv /\ ProvInv' /\ [WorkspaceNext]_workspaceVars =>
        [/\ WorkspaceTypeOK' /\ CreatedIsShared' /\ NoLeftover' /\ RolesOnOwnWorkspaceOnly'
         /\ DeletesOwnWorkspaceOnly]_workspaceVars
  <2> SUFFICES ASSUME ProvInv, ProvInv', WorkspaceNext
               PROVE  /\ WorkspaceTypeOK' /\ CreatedIsShared' /\ NoLeftover' /\ RolesOnOwnWorkspaceOnly'
                      /\ DeletesOwnWorkspaceOnly
    BY DEF workspaceVars
  <2>1. WorkspaceTypeOK' /\ CreatedIsShared' /\ NoLeftover' /\ RolesOnOwnWorkspaceOnly'
    BY ProvInvImplies, PTL
  <2> QED
    BY <2>1, DeletesOwn
<1> QED
  BY <1>1, <1>2, <1>3, PTL DEF WorkspaceSpec, ProvisioningIsSafe

-----------------------------------------------------------------------------
(* Asset sets of branches                                                  *)

Heads == {Identity(e).head : e \in Events} \cup {NoName}
AssetState == [sha : Nat, branch : Heads, marked : BOOLEAN,
               created : 0..MaxBranchRuns, synced : 0..MaxBranchRuns]
BranchTask == [pc : {"idle", "resolve", "write", "save"}, event : Events, target : SetNames,
               previous : AssetState]

\* What a set holds was written by a branch that names this set.
WrittenByOwner(n, asset) ==
    asset # NoAsset =>
        \E e \in Events : /\ Writes(e) /\ SetName(e) = n /\ asset.branch = Identity(e).head
                          /\ asset.marked = TRUE <=> ~ IsCanonicalWriter(e)
\* The run under way writes to the set its branch names, and has read it.
TaskKnows ==
    /\ task.pc # "idle" => Writes(task.event)
    /\ task.pc = "write" => task.target = SetName(task.event) /\ task.previous = assets[task.target]
BranchInv ==
    /\ assets \in [SetNames -> AssetState] /\ task \in BranchTask
    /\ tracked \in {"none", "canonical"} /\ started \in 0..MaxBranchRuns
    /\ TaskKnows /\ \A n \in SetNames : WrittenByOwner(n, assets[n])

LEMMA NoAssetOK == NoAsset \in AssetState /\ Idle \in BranchTask /\ CanonicalSet \in SetNames
<1>1. NoAsset \in AssetState
  BY BranchAssumption DEF NoAsset, AssetState, Heads
<1>2. CanonicalSet \in SetNames
  BY DEF SetNames
<1> QED
  BY <1>1, <1>2, BranchAssumption DEF Idle, BranchTask

\* The tier of a branch that writes decides the set it names.
LEMMA NamedByTier ==
    ASSUME NEW e \in Events, Writes(e)
    PROVE  /\ SetName(e) \in SetNames
           /\ \/ IsCanonicalWriter(e) /\ SetName(e) = CanonicalSet
              \/ /\ ~ IsCanonicalWriter(e) /\ Identity(e).head # NoName
                 /\ SetName(e) = [role |-> "preview", suffix |-> BranchSlug(Identity(e).head)]
              \/ /\ ~ IsCanonicalWriter(e)
                 /\ SetName(e) = [role |-> "channel", suffix |-> ChannelOf(Identity(e).head)]
<1>1. SetName(e) \in SetNames
  BY DEF SetNames
<1>2. Decision(e) \in {"legacy", "canonical", "channel", "preview"}
  <2>1. Decision(e) \in {"legacy", "error", "gated", "canonical", "channel", "preview"}
    BY DEF Decision
  <2> QED
    BY <2>1 DEF Writes
<1>3. Decision(e) = "preview" => Identity(e).head # NoName
  BY DEF Decision
<1> HIDE DEF Decision
<1> QED
  BY <1>1, <1>2, <1>3 DEF SetName, IsCanonicalWriter

\* A slug that had to be changed carries the name itself, so it names one branch.
LEMMA SlugFields ==
    ASSUME NEW h, h # NoName
    PROVE  /\ BranchSlug(h).hash = NoName <=> BranchSlug(h).slug = h
           /\ BranchSlug(h).hash # NoName => BranchSlug(h).hash = h
<1> DEFINE s == Cut(Sanitized(h))
           hash == IF s = h THEN NoName ELSE h
<1>1. BranchSlug(h) = [slug |-> s, hash |-> hash]
  BY DEF BranchSlug
<1>2. (s = h => hash = NoName) /\ (s # h => hash = h)
  OBVIOUS
<1> HIDE DEF s, hash
<1>3. BranchSlug(h).slug = s /\ BranchSlug(h).hash = hash
  BY <1>1
<1> QED
  BY <1>2, <1>3

LEMMA SlugNames ==
    ASSUME NEW h, NEW g, BranchSlug(h) = BranchSlug(g), h # NoName, g # NoName
    PROVE  h = g
<1> DEFINE bh == BranchSlug(h)
           bg == BranchSlug(g)
<1>1. /\ bh.hash = NoName <=> bh.slug = h
      /\ bh.hash # NoName => bh.hash = h
  BY SlugFields, Zenon
<1>2. /\ bg.hash = NoName <=> bg.slug = g
      /\ bg.hash # NoName => bg.hash = g
  BY SlugFields, Zenon
<1>3. bh = bg
  OBVIOUS
<1> HIDE DEF bh, bg
<1> QED
  BY <1>1, <1>2, <1>3

\* Two branches that write the same set are one branch, canonical, or of one
\* channel.
LEMMA SameSet ==
    ASSUME NEW e \in Events, NEW d \in Events, Writes(e), Writes(d), SetName(e) = SetName(d)
    PROVE  \/ IsCanonicalWriter(e) /\ IsCanonicalWriter(d)
           \/ ~ IsCanonicalWriter(e) /\ ~ IsCanonicalWriter(d) /\ Identity(e).head = Identity(d).head
           \/ /\ ~ IsCanonicalWriter(e) /\ ~ IsCanonicalWriter(d) /\ SetName(e).role = "channel"
              /\ ChannelOf(Identity(e).head) = ChannelOf(Identity(d).head)
<1> DEFINE h == Identity(e).head
           g == Identity(d).head
<1>1. CanonicalSet.role = "canonical"
  BY DEF CanonicalSet
<1> HIDE DEF h, g
<1>2. /\ \/ IsCanonicalWriter(e) /\ SetName(e) = CanonicalSet
         \/ /\ ~ IsCanonicalWriter(e) /\ h # NoName
            /\ SetName(e) = [role |-> "preview", suffix |-> BranchSlug(h)]
         \/ /\ ~ IsCanonicalWriter(e)
            /\ SetName(e) = [role |-> "channel", suffix |-> ChannelOf(h)]
      /\ \/ IsCanonicalWriter(d) /\ SetName(d) = CanonicalSet
         \/ /\ ~ IsCanonicalWriter(d) /\ g # NoName
            /\ SetName(d) = [role |-> "preview", suffix |-> BranchSlug(g)]
         \/ /\ ~ IsCanonicalWriter(d)
            /\ SetName(d) = [role |-> "channel", suffix |-> ChannelOf(g)]
  BY NamedByTier DEF h, g
<1>3. BranchSlug(h) = BranchSlug(g) /\ h # NoName /\ g # NoName => h = g
  BY SlugNames
<1> QED
  BY <1>1, <1>2, <1>3 DEF h, g

LEMMA MarkedFacts ==
    ASSUME NEW e \in Events, NEW previous \in AssetState, started \in 0..MaxBranchRuns
    PROVE  /\ Marked(e, previous) \in AssetState
           /\ Marked(e, previous).branch = Identity(e).head /\ Marked(e, previous).sha = e.sha
           /\ Marked(e, previous).marked = TRUE <=> ~ IsCanonicalWriter(e)
           /\ ~ IsCanonicalWriter(e) /\ previous.marked = TRUE /\ previous.branch = Identity(e).head =>
                 /\ Marked(e, previous).created = previous.created
                 /\ previous.sha = e.sha => Marked(e, previous) = previous
<1> DEFINE h == Identity(e).head
<1>1. h \in Heads /\ e.sha \in Nat /\ MaxBranchRuns \in Nat
  BY BranchAssumption DEF Heads
<1>2. CASE IsCanonicalWriter(e)
  <2>1. Marked(e, previous) = [sha |-> e.sha, branch |-> h, marked |-> FALSE, created |-> 0, synced |-> 0]
    BY <1>2 DEF Marked, NoAsset
  <2> HIDE DEF h
  <2> QED
    BY <1>1, <1>2, <2>1 DEF AssetState, h
<1>3. CASE ~ IsCanonicalWriter(e)
  <2> DEFINE same == previous.marked /\ previous.branch = h
             born == IF same THEN previous.created ELSE started
             with(t) == [sha |-> e.sha, branch |-> h, marked |-> TRUE, created |-> born, synced |-> t]
  <2>1. Marked(e, previous) = IF same /\ with(previous.synced) = previous THEN previous ELSE with(started)
    BY <1>3 DEF Marked
  <2>2. /\ born \in 0..MaxBranchRuns /\ previous.synced \in 0..MaxBranchRuns
        /\ same => born = previous.created
    BY DEF AssetState
  <2>3. same <=> previous.marked = TRUE /\ previous.branch = h
    BY DEF AssetState
  <2> HIDE DEF h, same, born
  <2>4. \A t \in 0..MaxBranchRuns :
          /\ with(t) \in AssetState /\ with(t).branch = h /\ with(t).sha = e.sha
          /\ with(t).marked = TRUE /\ with(t).created = born
    BY <1>1, <2>2 DEF AssetState
  <2>5. same /\ previous.sha = e.sha => with(previous.synced) = previous
    BY <2>2, <2>3 DEF AssetState
  <2> HIDE DEF with
  <2>6. CASE same /\ with(previous.synced) = previous
    BY <1>3, <2>1, <2>2, <2>3, <2>4, <2>6 DEF h
  <2>7. CASE ~ (same /\ with(previous.synced) = previous)
    BY <1>3, <2>1, <2>2, <2>3, <2>4, <2>5, <2>7 DEF h
  <2> QED
    BY <2>6, <2>7
<1> QED
  BY <1>2, <1>3

-----------------------------------------------------------------------------
LEMMA BranchInitOK == BranchInit => BranchInv
BY NoAssetOK, BranchAssumption DEF BranchInit, BranchInv, TaskKnows, WrittenByOwner, Idle

LEMMA TaskStep ==
    ASSUME BranchInv, UNCHANGED assets, task' \in BranchTask, tracked' \in {"none", "canonical"},
           started' \in 0..MaxBranchRuns,
           task'.pc # "idle" => Writes(task'.event),
           task'.pc = "write" => task'.target = SetName(task'.event) /\ task'.previous = assets[task'.target]
    PROVE  BranchInv'
BY DEF BranchInv, TaskKnows

LEMMA BranchStepKeeps == ASSUME BranchInv, [BranchNext]_branchVars PROVE BranchInv'
<1>1. /\ assets \in [SetNames -> AssetState] /\ task \in BranchTask
      /\ tracked \in {"none", "canonical"} /\ started \in 0..MaxBranchRuns /\ MaxBranchRuns \in Nat
      /\ task.pc # "idle" => Writes(task.event)
      /\ task.event \in Events /\ task.target \in SetNames
  BY BranchAssumption DEF BranchInv, TaskKnows, BranchTask
<1>2. CASE UNCHANGED branchVars
  BY <1>2 DEF branchVars, BranchInv, TaskKnows
<1>3. CASE Decide
  <2>1. UNCHANGED <<assets, tracked>> /\ started' \in 0..MaxBranchRuns
    BY <1>1, <1>3 DEF Decide
  <2>2. PICK e \in Events : task' = Idle \/ (Writes(e) /\ task' = [Idle EXCEPT !.pc = "resolve", !.event = e])
    BY <1>3 DEF Decide
  <2>3. Idle \in BranchTask /\ Idle.pc = "idle"
    BY NoAssetOK DEF Idle
  <2>4. /\ task' \in BranchTask /\ task'.pc \in {"idle", "resolve"}
        /\ task'.pc = "resolve" => Writes(task'.event)
    BY <2>2, <2>3 DEF BranchTask
  <2> QED
    BY <1>1, <2>1, <2>4, TaskStep
<1>4. CASE ResolveSet
  <2>1. UNCHANGED <<assets, tracked, started>> /\ task.pc = "resolve" /\ Writes(task.event)
    BY <1>1, <1>4 DEF ResolveSet
  <2>2. IsCanonicalWriter(task.event) => SetName(task.event) = CanonicalSet
    BY <1>1, <2>1, NamedByTier
  <2> DEFINE n == SetName(task.event)
  <2>3. task' = [task EXCEPT !.pc = "write", !.target = n, !.previous = assets[n]] /\ n \in SetNames
    BY <1>1, <1>4, <2>1, <2>2, NamedByTier DEF ResolveSet
  <2> HIDE DEF n
  <2>4. /\ task' \in BranchTask /\ task'.pc = "write" /\ task'.event = task.event /\ task'.target = n
        /\ task'.previous = assets[n]
    BY <1>1, <2>3 DEF BranchTask
  <2> QED
    BY <1>1, <2>1, <2>4, TaskStep DEF n
<1>5. CASE WriteSet
  <2> DEFINE m == Marked(task.event, task.previous)
  <2>1. /\ task.pc = "write" /\ Writes(task.event) /\ task.target = SetName(task.event)
        /\ assets' = [assets EXCEPT ![task.target] = m] /\ UNCHANGED <<tracked, started>>
        /\ task' = [task EXCEPT !.pc = "save"]
    BY <1>1, <1>5 DEF WriteSet, BranchInv, TaskKnows
  <2>2. m \in AssetState /\ m.branch = Identity(task.event).head /\ (m.marked = TRUE <=> ~ IsCanonicalWriter(task.event))
    BY <1>1, MarkedFacts DEF BranchTask
  <2> HIDE DEF m
  <2>3. assets' \in [SetNames -> AssetState] /\ \A n \in SetNames : WrittenByOwner(n, assets'[n])
    BY <1>1, <2>1, <2>2 DEF BranchInv, WrittenByOwner
  <2>4. task' \in BranchTask /\ task'.pc = "save" /\ task'.event = task.event
    BY <1>1, <2>1 DEF BranchTask
  <2> QED
    BY <1>1, <2>1, <2>3, <2>4 DEF BranchInv, TaskKnows
<1>6. CASE SaveTracked \/ FailRun
  <2>1. UNCHANGED <<assets, started>> /\ task' = Idle /\ tracked' \in {"none", "canonical"}
    BY <1>1, <1>6 DEF SaveTracked, FailRun
  <2>2. Idle \in BranchTask /\ Idle.pc = "idle"
    BY NoAssetOK DEF Idle
  <2> QED
    BY <1>1, <2>1, <2>2, TaskStep
<1> QED
  BY <1>2, <1>3, <1>4, <1>5, <1>6 DEF BranchNext

\* A write replaces what the same branch, or another that owns the set, wrote.
LEMMA WritesApart == ASSUME BranchInv, BranchNext PROVE BranchesApart /\ RerunsAreSilent
<1>1. CASE UNCHANGED assets
  BY <1>1 DEF BranchesApart, RerunsAreSilent
<1>2. CASE WriteSet
  <2> DEFINE n == task.target
             e == task.event
             m == Marked(e, assets[n])
  <2>1. /\ Writes(e) /\ n = SetName(e) /\ assets' = [assets EXCEPT ![n] = m]
        /\ n \in SetNames /\ e \in Events /\ assets \in [SetNames -> AssetState]
        /\ started \in 0..MaxBranchRuns
    BY <1>2 DEF WriteSet, BranchInv, TaskKnows, BranchTask
  <2>2. /\ m.branch = Identity(e).head /\ (m.marked = TRUE <=> ~ IsCanonicalWriter(e)) /\ m \in AssetState
        /\ m.sha = e.sha
        /\ ~ IsCanonicalWriter(e) /\ assets[n].marked = TRUE /\ assets[n].branch = Identity(e).head =>
              /\ m.created = assets[n].created
              /\ assets[n].sha = e.sha => m = assets[n]
    BY <2>1, MarkedFacts
  <2>3. WrittenByOwner(n, assets[n]) /\ assets[n] \in AssetState
    BY <2>1 DEF BranchInv
  <2> HIDE DEF m, n, e
  <2>4. assets'[n] = m /\ \A k \in SetNames : k # n => assets'[k] = assets[k]
    BY <2>1
  <2>5. CASE assets[n] = NoAsset
    <3>1. assets[n].marked = FALSE
      BY <2>5 DEF NoAsset
    <3>2. RerunsAreSilent
      BY <2>4, <3>1 DEF RerunsAreSilent
    <3>3. BranchesApart
      BY <2>4, <2>5 DEF BranchesApart
    <3> QED
      BY <3>2, <3>3
  <2>6. CASE assets[n] # NoAsset
    <3>1. PICK d \in Events : /\ Writes(d) /\ SetName(d) = n /\ assets[n].branch = Identity(d).head
                              /\ assets[n].marked = TRUE <=> ~ IsCanonicalWriter(d)
      BY <2>3, <2>6 DEF WrittenByOwner
    <3>2. \/ IsCanonicalWriter(e) /\ IsCanonicalWriter(d)
          \/ ~ IsCanonicalWriter(e) /\ ~ IsCanonicalWriter(d) /\ Identity(e).head = Identity(d).head
          \/ /\ ~ IsCanonicalWriter(e) /\ ~ IsCanonicalWriter(d) /\ SetName(e).role = "channel"
             /\ ChannelOf(Identity(e).head) = ChannelOf(Identity(d).head)
      BY <2>1, <3>1, SameSet
    <3>3. m.marked \in BOOLEAN /\ assets[n].marked \in BOOLEAN
      BY <2>2, <2>3 DEF AssetState
    <3>4. \/ m.branch = assets[n].branch
          \/ m.marked = FALSE /\ assets[n].marked = FALSE
          \/ n.role = "channel" /\ ChannelOf(m.branch) = ChannelOf(assets[n].branch)
      BY <2>1, <2>2, <3>1, <3>2, <3>3
    <3>5. BranchesApart
      BY <2>4, <3>4 DEF BranchesApart
    <3>6. assets[n].marked = TRUE /\ m.branch = assets[n].branch =>
            m.created = assets[n].created /\ (m.sha = assets[n].sha => m = assets[n])
      BY <2>2, <3>1, <3>2
    <3>7. RerunsAreSilent
      <4>1. \A k \in SetNames : assets[k].marked = TRUE /\ assets'[k].branch = assets[k].branch =>
              /\ assets'[k].created = assets[k].created
              /\ (assets'[k].sha = assets[k].sha => assets'[k] = assets[k])
        BY <2>4, <3>6
      <4>2. \A k \in SetNames : assets[k].marked => assets[k].marked = TRUE
        BY <2>1 DEF AssetState
      <4> QED
        BY <4>1, <4>2 DEF RerunsAreSilent
    <3> QED
      BY <3>5, <3>7
  <2> QED
    BY <2>5, <2>6
<1> QED
  BY <1>1, <1>2 DEF BranchNext, Decide, ResolveSet, SaveTracked, FailRun

LEMMA BranchInvImplies == ASSUME BranchInv PROVE BranchTypeOK
BY DEF BranchInv, BranchTypeOK, AssetState, BranchTask

\* resolveBranchDecision, buildBranchSlug and embedSpecBranchMarker, for any events,
\* rules and strategy: whatever runs came before, a branch writes only its own
\* asset set, and a rerun of what it stored last changes nothing.
THEOREM BranchWritesSafe == BranchSpec => BranchWritesAreSafe
<1>1. BranchInit => BranchInv
  BY BranchInitOK
<1>2. BranchInv /\ [BranchNext]_branchVars => BranchInv'
  BY BranchStepKeeps
<1>3. BranchInv /\ BranchInv' /\ [BranchNext]_branchVars =>
        [BranchTypeOK' /\ BranchesApart /\ RerunsAreSilent]_branchVars
  <2> SUFFICES ASSUME BranchInv, BranchInv', BranchNext PROVE BranchTypeOK' /\ BranchesApart /\ RerunsAreSilent
    BY DEF branchVars
  <2>1. BranchTypeOK'
    BY BranchInvImplies, PTL
  <2> QED
    BY <2>1, WritesApart
<1> QED
  BY <1>1, <1>2, <1>3, PTL DEF BranchSpec, BranchWritesAreSafe

-----------------------------------------------------------------------------
(* The contract collection                                                 *)

EcPcs == {"build", "delete", "reread", "create", "track", "items", "find", "clean", "done", "failed"}
Replacing == {"delete", "reread", "create", "track"}
FillingContract == {"items", "find", "clean", "done"}

EcRunOK == ecRun \in [pc : EcPcs, old : EcIds \cup {0}, id : EcIds \cup {0}, next : 1..(Len(EcTree) + 1)]
EcBudgetOK == ecBudget \in [faults : 0..MaxEcFaults, runs : 1..MaxEcRuns]

\* A collection that is there holds no item twice, and none without those before it.
CollectionsOK ==
    /\ extensible \in [EcIds -> [EcItems -> -1..1]]
    /\ \A c \in EcIds : extensible[c] # NotThere => \A i \in EcItems : extensible[c][i] \in 0..1
    /\ \A c \in EcIds : extensible[c] # NotThere => IsBeginning(extensible[c])

\* What the run holds at each stage: what it replaces while it is not filling, what
\* it created from then on, which it tracks before the first item.
EcStageOK ==
    /\ ecRun.pc \in Replacing \cup {"build"} => ecRun.next = 1
    /\ ecRun.pc \in Replacing => ecRun.old = (IF ecInput # 0 THEN ecInput ELSE ecTracked)
    /\ ecRun.pc \in {"create", "track"} => ~There(ecRun.old)
    /\ ecRun.pc \in FillingContract \cup {"track"} => There(ecRun.id)
    /\ ecRun.pc = "track" => extensible[ecRun.id] = Empty
    /\ ecRun.pc \in FillingContract => ecTracked = ecRun.id
    /\ ecRun.pc \in {"find", "clean"} => ecRun.next <= Len(EcTree)
    /\ ecRun.pc = "done" => ecRun.next = Len(EcTree) + 1

\* The items are sent in order: those before the next one are there, those after
\* it are not, and whether it is itself is known except after a lost answer.
ItemsInOrder ==
    ecRun.pc \in FillingContract =>
        \A k \in 1..Len(EcTree) :
            /\ k < ecRun.next => extensible[ecRun.id][EcTree[k]] = 1
            /\ k > ecRun.next => extensible[ecRun.id][EcTree[k]] = 0
            /\ k = ecRun.next /\ ecRun.pc = "items" => extensible[ecRun.id][EcTree[k]] = 0

\* Every collection that is there is tracked, or about to be, or lost for good.
AllTold ==
    ecInput = 0 =>
        \A c \in EcIds : There(c) => c = ecTracked \/ c \in untold \/ (ecRun.pc = "track" /\ c = ecRun.id)

ContractInv ==
    /\ CollectionsOK /\ EcRunOK /\ EcBudgetOK
    /\ {ecTracked, ecInput} \subseteq EcIds \cup {0} /\ untold \subseteq EcIds
    /\ EcStageOK /\ ItemsInOrder /\ AllTold

LEMMA TreeItems ==
    /\ Len(EcTree) \in Nat \ {0} /\ EcTree \in [1..Len(EcTree) -> EcItems]
    /\ \A i \in EcItems : \E k \in 1..Len(EcTree) : i = EcTree[k]
    /\ \A j, k \in 1..Len(EcTree) : EcTree[j] = EcTree[k] => j = k
<1>1. EcTree \in Seq(EcItems) /\ EcItems # {}
  BY EcAssumption
<1>2. Len(EcTree) \in Nat /\ DOMAIN EcTree = 1..Len(EcTree) /\ EcTree \in [1..Len(EcTree) -> EcItems]
  BY <1>1
<1>3. \A i \in EcItems : \E k \in 1..Len(EcTree) : i = EcTree[k]
  BY <1>2 DEF EcItems
<1>4. Len(EcTree) # 0
  BY <1>1, <1>2, <1>3
<1> QED
  BY <1>2, <1>3, <1>4, EcAssumption

LEMMA AbsentOrNot ==
    /\ NotThere \in [EcItems -> -1..1] /\ Empty \in [EcItems -> -1..1]
    /\ \A i \in EcItems : Empty[i] = 0
    /\ IsBeginning(Empty)
    /\ \A f : (\A i \in EcItems : f[i] \in 0..1) => f # NotThere
<1>1. PICK i \in EcItems : TRUE
  BY EcAssumption
<1>2. \A f : (\A j \in EcItems : f[j] \in 0..1) => f # NotThere
  <2> SUFFICES ASSUME NEW f, \A j \in EcItems : f[j] \in 0..1, f = NotThere PROVE FALSE
    OBVIOUS
  <2>1. f[i] \in 0..1 /\ NotThere[i] = -1
    BY <1>1 DEF NotThere
  <2> QED
    BY <2>1
<1>3. IsBeginning(Empty)
  <2>1. DOMAIN EcTree = 1..Len(EcTree) /\ \A k \in DOMAIN EcTree : Empty[EcTree[k]] = 0
    BY TreeItems DEF Empty
  <2> QED
    BY <2>1 DEF IsBeginning
<1> QED
  BY <1>2, <1>3 DEF NotThere, Empty

LEMMA ContractInitOK == ASSUME ProtocolInit PROVE ContractInv
<1> USE DEF ProtocolInit
<1>1. \A c \in EcIds : extensible[c] = NotThere \/ extensible[c] = Empty
  OBVIOUS
<1>2. CollectionsOK
  <2>1. extensible \in [EcIds -> [EcItems -> -1..1]]
    BY AbsentOrNot
  <2>2. \A c \in EcIds, i \in EcItems : extensible[c] # NotThere => extensible[c][i] \in 0..1
    BY <1>1, AbsentOrNot
  <2>3. \A c \in EcIds : extensible[c] # NotThere => IsBeginning(extensible[c])
    BY <1>1, AbsentOrNot
  <2> QED
    BY <2>1, <2>2, <2>3 DEF CollectionsOK
<1>3. EcRunOK /\ EcBudgetOK
  BY TreeItems, EcAssumption DEF EcRunOK, EcBudgetOK, EcPcs
<1>4. {ecTracked, ecInput} \subseteq EcIds \cup {0} /\ untold \subseteq EcIds
  BY EcAssumption
<1>5. ecRun.pc = "build" /\ ecRun.next = 1
  OBVIOUS
<1>6. EcStageOK /\ ItemsInOrder
  BY <1>5 DEF EcStageOK, ItemsInOrder, Replacing, FillingContract
<1>7. AllTold
  BY DEF AllTold, There
<1> QED
  BY <1>2, <1>3, <1>4, <1>6, <1>7 DEF ContractInv

LEMMA ContractTypes == ASSUME ContractInv PROVE ProtocolTypeOK /\ ProtocolWhole /\ ContractsInOrder /\ NoStrayContract
<1> USE DEF ContractInv
<1>1. ProtocolTypeOK
  <2>1. extensible \in [EcIds -> [EcItems -> -1..2]]
    BY DEF CollectionsOK
  <2>2. ecRun.id \in EcIds \cup {0} /\ ecRun.old \in EcIds \cup {0} /\ ecRun.next \in 1..(Len(EcTree) + 1)
    BY DEF EcRunOK
  <2>3. ecBudget.faults \in 0..MaxEcFaults /\ ecBudget.runs \in 1..MaxEcRuns
    BY DEF EcBudgetOK
  <2> QED
    BY <2>1, <2>2, <2>3 DEF ProtocolTypeOK
<1>2. ProtocolWhole
  <2> SUFFICES ASSUME ecRun.pc = "done"
               PROVE  There(ecRun.id) /\ ecTracked = ecRun.id /\ \A i \in EcItems : extensible[ecRun.id][i] = 1
    BY DEF ProtocolWhole, EcAt
  <2>1. There(ecRun.id) /\ ecTracked = ecRun.id /\ ecRun.next = Len(EcTree) + 1
    BY DEF EcStageOK, FillingContract
  <2>2. \A k \in 1..Len(EcTree) : extensible[ecRun.id][EcTree[k]] = 1
    BY <2>1, TreeItems DEF ItemsInOrder, FillingContract
  <2> QED
    BY <2>1, <2>2, TreeItems
<1>3. NoStrayContract
  BY DEF NoStrayContract, AllTold, EcEnded
<1>4. ContractsInOrder
  BY DEF ContractsInOrder, CollectionsOK, There
<1> QED
  BY <1>1, <1>2, <1>3, <1>4

LEMMA EcBudgetKept == ASSUME EcBudgetOK, EcFault \/ EcWorks PROVE EcBudgetOK'
BY EcAssumption DEF EcBudgetOK, EcFault, EcWorks

\* A collection that is deleted, and no other, is gone afterwards.
LEMMA WithoutOne ==
    ASSUME CollectionsOK, NEW c \in EcIds
    PROVE  /\ [extensible EXCEPT ![c] = NotThere] \in [EcIds -> [EcItems -> -1..1]]
           /\ [extensible EXCEPT ![c] = NotThere][c] = NotThere
           /\ \A d \in EcIds : d # c => [extensible EXCEPT ![c] = NotThere][d] = extensible[d]
BY AbsentOrNot DEF CollectionsOK

\* A step that only deletes, or deletes nothing, keeps the collections in order.
LEMMA Fewer ==
    ASSUME CollectionsOK, extensible' \in [EcIds -> [EcItems -> -1..1]],
           \A c \in EcIds : extensible'[c] \in {extensible[c], NotThere}
    PROVE  CollectionsOK' /\ \A c \in EcIds : There(c)' => There(c) /\ extensible'[c] = extensible[c]
BY DEF CollectionsOK, There

LEMMA BuildKeepsContract == ASSUME ContractInv, BuildProtocol PROVE ContractInv'
<1> USE DEF ContractInv
<1>0. ecRun.pc = "build" /\ extensible' = extensible /\ ecTracked' = ecTracked /\ ecInput' = ecInput /\ untold' = untold
  BY DEF BuildProtocol, EcAt, StateKept
<1>1. \/ ecRun' = [ecRun EXCEPT !.pc = "delete", !.old = IF ecInput # 0 THEN ecInput ELSE ecTracked]
      \/ ecRun' = [ecRun EXCEPT !.pc = "failed"]
  BY DEF BuildProtocol, EcGoto
<1>2. EcBudgetOK'
  BY EcBudgetKept DEF BuildProtocol
<1>3. /\ \/ ecRun'.pc = "delete" /\ ecRun'.old = (IF ecInput # 0 THEN ecInput ELSE ecTracked)
         \/ ecRun'.pc = "failed"
      /\ ecRun'.next = ecRun.next /\ EcRunOK'
  BY <1>0, <1>1 DEF EcRunOK, EcPcs
<1>4. CollectionsOK' /\ EcStageOK' /\ ItemsInOrder'
  BY <1>0, <1>3 DEF CollectionsOK, EcStageOK, ItemsInOrder, Replacing, FillingContract
<1>5. AllTold'
  BY <1>0, <1>3 DEF AllTold, There
<1> QED
  BY <1>0, <1>2, <1>3, <1>4, <1>5

LEMMA DeleteKeepsContract == ASSUME ContractInv, DeleteEarlier PROVE ContractInv'
<1> USE DEF ContractInv
<1> DEFINE without == [extensible EXCEPT ![ecRun.old] = NotThere]
<1>0. ecRun.pc = "delete" /\ ecTracked' = ecTracked /\ ecInput' = ecInput /\ untold' = untold
  BY DEF DeleteEarlier, EcAt, StateKept
<1>1. /\ \/ extensible' = extensible
         \/ There(ecRun.old) /\ extensible' = without
      /\ \/ /\ ecRun' = [ecRun EXCEPT !.pc = "create"]
            /\ (~There(ecRun.old) /\ extensible' = extensible) \/ (There(ecRun.old) /\ extensible' = without)
         \/ ecRun' = [ecRun EXCEPT !.pc = "reread"]
         \/ ecRun' = [ecRun EXCEPT !.pc = "failed"]
      /\ EcFault \/ EcWorks
  BY DEF DeleteEarlier, EcGoto
<1>2. EcBudgetOK'
  BY <1>1, EcBudgetKept
<1>3. /\ ecRun'.pc \in {"create", "reread", "failed"} /\ EcRunOK'
      /\ ecRun'.next = ecRun.next /\ ecRun'.old = ecRun.old
      /\ ecRun'.pc = "create" => (~There(ecRun.old) /\ extensible' = extensible) \/ (There(ecRun.old) /\ extensible' = without)
  BY <1>0, <1>1 DEF EcRunOK, EcPcs
<1>4. There(ecRun.old) => /\ without \in [EcIds -> [EcItems -> -1..1]] /\ without[ecRun.old] = NotThere
                          /\ \A c \in EcIds : c # ecRun.old => without[c] = extensible[c]
  BY WithoutOne DEF There
<1> HIDE DEF without
<1>5. /\ CollectionsOK' /\ \A c \in EcIds : There(c)' => There(c)
      /\ ecRun'.pc = "create" => ~There(ecRun.old)'
  <2>1. /\ extensible' \in [EcIds -> [EcItems -> -1..1]]
        /\ \A c \in EcIds : extensible'[c] \in {extensible[c], NotThere}
    BY <1>1, <1>4 DEF CollectionsOK
  <2>2. ecRun'.pc = "create" => ~There(ecRun.old)'
    BY <1>3, <1>4 DEF There
  <2> QED
    BY <2>1, <2>2, <1>3, Fewer
<1>6. EcStageOK' /\ ItemsInOrder'
  BY <1>0, <1>3, <1>5 DEF EcStageOK, ItemsInOrder, Replacing, FillingContract
<1>7. AllTold'
  BY <1>0, <1>3, <1>5 DEF AllTold
<1> QED
  BY <1>0, <1>2, <1>3, <1>5, <1>6, <1>7

LEMMA RereadKeepsContract == ASSUME ContractInv, RereadEarlier PROVE ContractInv'
<1> USE DEF ContractInv
<1>0. ecRun.pc = "reread" /\ extensible' = extensible /\ ecTracked' = ecTracked /\ ecInput' = ecInput /\ untold' = untold
  BY DEF RereadEarlier, EcAt, StateKept
<1>1. \/ ecRun' = [ecRun EXCEPT !.pc = "create"] /\ ~There(ecRun.old)
      \/ ecRun' = [ecRun EXCEPT !.pc = "failed"]
  BY DEF RereadEarlier, EcGoto
<1>2. EcBudgetOK'
  BY EcBudgetKept DEF RereadEarlier
<1>3. /\ \/ ecRun'.pc = "create" /\ ~There(ecRun.old)
         \/ ecRun'.pc = "failed"
      /\ ecRun'.next = ecRun.next /\ ecRun'.old = ecRun.old /\ EcRunOK'
  BY <1>0, <1>1 DEF EcRunOK, EcPcs
<1>4. CollectionsOK' /\ EcStageOK' /\ ItemsInOrder'
  BY <1>0, <1>3 DEF CollectionsOK, EcStageOK, ItemsInOrder, Replacing, FillingContract, There
<1>5. AllTold'
  BY <1>0, <1>3 DEF AllTold, There
<1> QED
  BY <1>0, <1>2, <1>3, <1>4, <1>5

LEMMA CreateKeepsContract == ASSUME ContractInv, CreateExtensible PROVE ContractInv' /\ ReplacedIsGone
<1> USE DEF ContractInv
<1>0. ecRun.pc = "create" /\ ecTracked' = ecTracked /\ ecInput' = ecInput
  BY DEF CreateExtensible, EcAt, StateKept
<1>1. PICK c \in EcIds :
        /\ ~There(c) /\ c > ecTracked /\ c > ecInput
        /\ \/ /\ extensible' = [extensible EXCEPT ![c] = Empty]
              /\ \/ ecRun' = [ecRun EXCEPT !.pc = "track", !.id = c] /\ UNCHANGED untold /\ EcWorks
                 \/ ecRun' = [ecRun EXCEPT !.pc = "failed"] /\ untold' = untold \cup {c} /\ EcFault
           \/ UNCHANGED <<extensible, untold>> /\ ecRun' = [ecRun EXCEPT !.pc = "failed"] /\ EcFault
  BY DEF CreateExtensible, EcGoto
<1>2. EcBudgetOK'
  BY <1>1, EcBudgetKept
<1>3. /\ EcRunOK' /\ ecRun'.next = ecRun.next /\ ecRun'.old = ecRun.old
      /\ \/ ecRun'.pc = "track" /\ ecRun'.id = c /\ untold' = untold /\ extensible' = [extensible EXCEPT ![c] = Empty]
         \/ ecRun'.pc = "failed" /\ untold' = untold \cup {c} /\ extensible' = [extensible EXCEPT ![c] = Empty]
         \/ ecRun'.pc = "failed" /\ untold' = untold /\ extensible' = extensible
  BY <1>0, <1>1 DEF EcRunOK, EcPcs
<1>4. /\ [extensible EXCEPT ![c] = Empty] \in [EcIds -> [EcItems -> -1..1]]
      /\ [extensible EXCEPT ![c] = Empty][c] = Empty
      /\ \A d \in EcIds : d # c => [extensible EXCEPT ![c] = Empty][d] = extensible[d]
  BY AbsentOrNot DEF CollectionsOK
<1>5. Empty # NotThere /\ IsBeginning(Empty) /\ \A i \in EcItems : Empty[i] \in 0..1
  BY AbsentOrNot
<1> DEFINE with == [extensible EXCEPT ![c] = Empty]
<1> HIDE DEF with
<1>6. CollectionsOK'
  <2>1. \A d \in EcIds, i \in EcItems : extensible'[d] # NotThere => extensible'[d][i] \in 0..1
    BY <1>3, <1>4, <1>5 DEF CollectionsOK
  <2>2. \A d \in EcIds : extensible'[d] # NotThere => IsBeginning(extensible'[d])
    BY <1>3, <1>4, <1>5 DEF CollectionsOK
  <2> QED
    BY <2>1, <2>2, <1>3, <1>4 DEF CollectionsOK
<1>7. c # ecRun.old /\ ~There(ecRun.old)
  <2>1. ~There(ecRun.old) /\ ecRun.old = (IF ecInput # 0 THEN ecInput ELSE ecTracked)
    BY <1>0 DEF EcStageOK, Replacing
  <2>2. ecInput \in EcIds \cup {0} /\ ecTracked \in EcIds \cup {0}
    OBVIOUS
  <2> HIDE DEF ContractInv
  <2>3. c \in Nat /\ ecInput \in Nat /\ ecTracked \in Nat
    BY <2>2, EcAssumption
  <2> QED
    BY <2>1, <2>3, <1>1
<1>8. There(c)' <=> extensible'[c] # NotThere
  BY DEF There
<1>9. \A d \in EcIds : There(d)' => There(d) \/ (d = c /\ (c \in untold' \/ (ecRun'.pc = "track" /\ ecRun'.id = c)))
  BY <1>3, <1>4 DEF There
<1>10. ~There(ecRun.old)'
  BY <1>3, <1>4, <1>7 DEF There
<1>11. EcStageOK'
  <2>1. ecRun'.pc = "track" => There(ecRun.id)' /\ extensible'[ecRun'.id] = Empty
    BY <1>3, <1>4, <1>5 DEF There
  <2>2. ecRun.next = 1 /\ ecRun.old = (IF ecInput # 0 THEN ecInput ELSE ecTracked)
    BY <1>0 DEF EcStageOK, Replacing
  <2> QED
    BY <2>1, <2>2, <1>0, <1>3, <1>10 DEF EcStageOK, Replacing, FillingContract
<1>12. ItemsInOrder'
  BY <1>3 DEF ItemsInOrder, FillingContract
<1>13. AllTold'
  BY <1>0, <1>3, <1>9 DEF AllTold
<1>14. ReplacedIsGone
  BY <1>7 DEF ReplacedIsGone
<1> QED
  BY <1>0, <1>1, <1>2, <1>3, <1>6, <1>11, <1>12, <1>13, <1>14

LEMMA TrackKeepsContract == ASSUME ContractInv, TrackExtensible PROVE ContractInv'
<1> USE DEF ContractInv
<1>0. ecRun.pc = "track" /\ extensible' = extensible /\ ecInput' = ecInput
  BY DEF TrackExtensible, EcAt
<1>1. \/ ecTracked' = ecRun.id /\ ecRun' = [ecRun EXCEPT !.pc = "items"] /\ untold' = untold
      \/ ecTracked' = ecTracked /\ ecRun' = [ecRun EXCEPT !.pc = "failed"] /\ untold' = untold \cup {ecRun.id}
  BY DEF TrackExtensible, EcGoto
<1>2. EcBudgetOK'
  BY EcBudgetKept DEF TrackExtensible
<1>3. /\ There(ecRun.id) /\ ecRun.next = 1 /\ extensible[ecRun.id] = Empty /\ ~There(ecRun.old)
      /\ ecRun.old = (IF ecInput # 0 THEN ecInput ELSE ecTracked)
  BY <1>0 DEF EcStageOK, Replacing, FillingContract
<1>4. /\ EcRunOK' /\ ecRun'.next = 1 /\ ecRun'.id = ecRun.id
      /\ \/ ecTracked' = ecRun.id /\ ecRun'.pc = "items" /\ untold' = untold
         \/ ecTracked' = ecTracked /\ ecRun'.pc = "failed" /\ untold' = untold \cup {ecRun.id}
  BY <1>1, <1>3 DEF EcRunOK, EcPcs
<1>5. ecRun.id \in EcIds
  BY <1>3 DEF There
<1>6. CollectionsOK' /\ EcStageOK'
  BY <1>0, <1>3, <1>4 DEF CollectionsOK, EcStageOK, Replacing, FillingContract, There
<1>7. ItemsInOrder'
  BY <1>0, <1>3, <1>4, TreeItems, AbsentOrNot DEF ItemsInOrder
<1>8. AllTold'
  BY <1>0, <1>3, <1>4 DEF AllTold, There
<1> QED
  BY <1>0, <1>2, <1>4, <1>5, <1>6, <1>7, <1>8


\* A lost or accepted POST adds at most one copy of the next item, which is not
\* there yet.
LEMMA NextItemSent ==
    ASSUME ContractInv, ecRun.pc = "items", ecRun.next <= Len(EcTree)
    PROVE  /\ WithItem \in [EcIds -> [EcItems -> -1..1]] /\ ecRun.id \in EcIds
           /\ \A c \in EcIds : c # ecRun.id => WithItem[c] = extensible[c]
           /\ WithItem[ecRun.id] # NotThere /\ \A i \in EcItems : WithItem[ecRun.id][i] \in 0..1
           /\ \A k \in 1..Len(EcTree) :
                /\ k < ecRun.next => WithItem[ecRun.id][EcTree[k]] = 1
                /\ k > ecRun.next => WithItem[ecRun.id][EcTree[k]] = 0
                /\ k = ecRun.next => WithItem[ecRun.id][EcTree[k]] = 1
<1> DEFINE id == ecRun.id
           n == ecRun.next
           i == EcTree[n]
           q == [extensible[id] EXCEPT ![i] = @ + 1]
<1>1. /\ id \in EcIds /\ extensible[id] # NotThere /\ n \in 1..Len(EcTree)
      /\ extensible \in [EcIds -> [EcItems -> -1..1]]
  BY DEF ContractInv, EcStageOK, EcRunOK, CollectionsOK, FillingContract, There
<1>2. extensible[id] \in [EcItems -> -1..1] /\ \A j \in EcItems : extensible[id][j] \in 0..1
  BY <1>1 DEF ContractInv, CollectionsOK
<1>3. \A k \in 1..Len(EcTree) :
        /\ k < n => extensible[id][EcTree[k]] = 1
        /\ k > n => extensible[id][EcTree[k]] = 0
        /\ k = n => extensible[id][EcTree[k]] = 0
  BY DEF ContractInv, ItemsInOrder, FillingContract
<1>4. WithItem = [extensible EXCEPT ![id] = q]
  BY DEF WithItem
<1>5. i \in EcItems /\ extensible[id][i] = 0 /\ \A k \in 1..Len(EcTree) : k # n => EcTree[k] # i
  BY <1>1, <1>3, TreeItems
<1> HIDE DEF id, n, i
<1>6. q \in [EcItems -> -1..1] /\ q[i] = 1 /\ \A j \in EcItems : j # i => q[j] = extensible[id][j]
  BY <1>2, <1>5
<1> HIDE DEF q
<1>7. \A j \in EcItems : q[j] \in 0..1
  BY <1>2, <1>6
<1>8. /\ WithItem \in [EcIds -> [EcItems -> -1..1]] /\ WithItem[id] = q
      /\ \A c \in EcIds : c # id => WithItem[c] = extensible[c]
  BY <1>1, <1>4, <1>6
<1>9. \A k \in 1..Len(EcTree) :
        /\ k # n => q[EcTree[k]] = extensible[id][EcTree[k]]
        /\ k = n => q[EcTree[k]] = 1
  BY <1>5, <1>6, TreeItems DEF i
<1>10. q # NotThere
  BY <1>7, AbsentOrNot
<1>11. \A k \in 1..Len(EcTree) :
        /\ k < n => q[EcTree[k]] = 1
        /\ k > n => q[EcTree[k]] = 0
        /\ k = n => q[EcTree[k]] = 1
  BY <1>1, <1>3, <1>9
<1> QED
  BY <1>1, <1>7, <1>8, <1>10, <1>11 DEF id, n

LEMMA CreateItemKeepsContract == ASSUME ContractInv, CreateItem PROVE ContractInv'
<1>0. /\ ecRun.pc = "items" /\ ecRun.next <= Len(EcTree)
      /\ ecTracked' = ecTracked /\ ecInput' = ecInput /\ untold' = untold
  BY DEF CreateItem, EcAt, StateKept
<1>1. /\ \/ extensible' = WithItem /\ ecRun' = [ecRun EXCEPT !.next = @ + 1]
         \/ extensible' \in {extensible, WithItem} /\ ecRun' = [ecRun EXCEPT !.pc = "find"]
         \/ extensible' \in {extensible, WithItem} /\ ecRun' = [ecRun EXCEPT !.pc = "clean"]
      /\ EcFault \/ EcWorks
  BY DEF CreateItem, EcGoto, NextItem
<1>2. EcBudgetOK'
  BY <1>1, EcBudgetKept DEF ContractInv
<1>3. /\ WithItem \in [EcIds -> [EcItems -> -1..1]] /\ ecRun.id \in EcIds
      /\ \A c \in EcIds : c # ecRun.id => WithItem[c] = extensible[c]
      /\ WithItem[ecRun.id] # NotThere /\ \A i \in EcItems : WithItem[ecRun.id][i] \in 0..1
      /\ \A k \in 1..Len(EcTree) :
            /\ k < ecRun.next => WithItem[ecRun.id][EcTree[k]] = 1
            /\ k > ecRun.next => WithItem[ecRun.id][EcTree[k]] = 0
            /\ k = ecRun.next => WithItem[ecRun.id][EcTree[k]] = 1
  BY <1>0, NextItemSent
<1>4. There(ecRun.id) /\ CollectionsOK /\ ecTracked = ecRun.id
  BY <1>0 DEF ContractInv, EcStageOK, FillingContract
<1> HIDE DEF WithItem
<1>5. /\ CollectionsOK' /\ There(ecRun.id)'
      /\ \A c \in EcIds : There(c)' => There(c)
  <2>0. IsBeginning(WithItem[ecRun.id])
    <3>1. DOMAIN EcTree = 1..Len(EcTree) /\ Len(EcTree) \in Nat /\ ecRun.next \in Nat
      BY TreeItems DEF ContractInv, EcRunOK
    <3> QED
      BY <1>3, <3>1 DEF IsBeginning
  <2>1. WithItem \in [EcIds -> [EcItems -> -1..1]] /\
        \A c \in EcIds : WithItem[c] # NotThere =>
            IsBeginning(WithItem[c]) /\ \A i \in EcItems : WithItem[c][i] \in 0..1
    BY <2>0, <1>3, <1>4 DEF CollectionsOK
  <2>2. extensible' = extensible \/ extensible' = WithItem
    BY <1>1
  <2>3. ecRun'.id = ecRun.id
    BY <1>1 DEF ContractInv, EcRunOK
  <2>4. CollectionsOK'
    BY <2>1, <2>2, <1>4 DEF CollectionsOK
  <2> QED
    BY <2>2, <2>3, <2>4, <1>3, <1>4 DEF There
<1>6. ecRun \in [pc : EcPcs, old : EcIds \cup {0}, id : EcIds \cup {0}, next : 1..(Len(EcTree) + 1)]
  BY DEF ContractInv, EcRunOK
<1>7. /\ EcRunOK' /\ ecRun'.id = ecRun.id
      /\ \/ ecRun'.pc = "items" /\ ecRun'.next = ecRun.next + 1 /\ extensible' = WithItem
         \/ /\ ecRun'.pc \in {"find", "clean"} /\ ecRun'.next = ecRun.next
            /\ extensible' = extensible \/ extensible' = WithItem
  <2>1. ecRun.next \in 1..Len(EcTree) /\ Len(EcTree) \in Nat
    BY <1>0, <1>6, TreeItems
  <2>2. CASE extensible' = WithItem /\ ecRun' = [ecRun EXCEPT !.next = @ + 1]
    BY <1>0, <1>6, <2>1, <2>2 DEF EcRunOK
  <2>3. CASE extensible' \in {extensible, WithItem} /\ ecRun' = [ecRun EXCEPT !.pc = "find"]
    BY <1>0, <1>6, <2>3 DEF EcRunOK, EcPcs
  <2>4. CASE extensible' \in {extensible, WithItem} /\ ecRun' = [ecRun EXCEPT !.pc = "clean"]
    BY <1>0, <1>6, <2>4 DEF EcRunOK, EcPcs
  <2> QED
    BY <1>1, <2>2, <2>3, <2>4
<1>8. EcStageOK'
  BY <1>0, <1>4, <1>5, <1>7 DEF EcStageOK, Replacing, FillingContract
<1>9. ItemsInOrder'
  <2>1. /\ ecRun.next \in Nat /\ Len(EcTree) \in Nat
        /\ \A k \in 1..Len(EcTree) :
             /\ k < ecRun.next => extensible[ecRun.id][EcTree[k]] = 1
             /\ k > ecRun.next => extensible[ecRun.id][EcTree[k]] = 0
    BY <1>0, <1>6, TreeItems DEF ContractInv, ItemsInOrder, FillingContract
  <2>2. CASE ecRun'.pc = "items" /\ ecRun'.next = ecRun.next + 1 /\ extensible' = WithItem
    BY <1>3, <1>7, <2>1, <2>2 DEF ItemsInOrder
  <2>3. CASE /\ ecRun'.pc \in {"find", "clean"} /\ ecRun'.next = ecRun.next
             /\ extensible' = extensible \/ extensible' = WithItem
    BY <1>3, <1>7, <2>1, <2>3 DEF ItemsInOrder
  <2> QED
    BY <1>7, <2>2, <2>3
<1>10. AllTold'
  BY <1>0, <1>5 DEF ContractInv, AllTold
<1> QED
  BY <1>0, <1>2, <1>5, <1>7, <1>8, <1>9, <1>10 DEF ContractInv

LEMMA AdoptKeepsContract == ASSUME ContractInv, AdoptItem PROVE ContractInv'
<1>0. /\ ecRun.pc = "find" /\ extensible' = extensible
      /\ ecTracked' = ecTracked /\ ecInput' = ecInput /\ untold' = untold
  BY DEF AdoptItem, EcAt, StateKept
<1>1. /\ \/ /\ extensible[ecRun.id][EcTree[ecRun.next]] = 1
            /\ ecRun' = [[ecRun EXCEPT !.next = @ + 1] EXCEPT !.pc = "items"]
         \/ ecRun' = [ecRun EXCEPT !.pc = "clean"]
      /\ EcFault \/ EcWorks
  BY DEF AdoptItem, EcGoto, NextItem
<1>2. EcBudgetOK'
  BY <1>1, EcBudgetKept DEF ContractInv
<1>3. /\ ecRun \in [pc : EcPcs, old : EcIds \cup {0}, id : EcIds \cup {0}, next : 1..(Len(EcTree) + 1)]
      /\ There(ecRun.id) /\ ecTracked = ecRun.id /\ ecRun.next <= Len(EcTree)
  BY <1>0 DEF ContractInv, EcRunOK, EcStageOK, FillingContract
<1>4. ecRun.next \in 1..Len(EcTree) /\ Len(EcTree) \in Nat
  BY <1>3, TreeItems
<1>5. /\ EcRunOK' /\ ecRun'.id = ecRun.id
      /\ \/ /\ ecRun'.pc = "items" /\ ecRun'.next = ecRun.next + 1
            /\ extensible[ecRun.id][EcTree[ecRun.next]] = 1
         \/ ecRun'.pc = "clean" /\ ecRun'.next = ecRun.next
  <2>1. CASE /\ extensible[ecRun.id][EcTree[ecRun.next]] = 1
             /\ ecRun' = [[ecRun EXCEPT !.next = @ + 1] EXCEPT !.pc = "items"]
    <3>1. "items" \in EcPcs /\ ecRun.next + 1 \in 1..(Len(EcTree) + 1)
      BY <1>4 DEF EcPcs
    <3>2. EcRunOK' /\ ecRun'.pc = "items" /\ ecRun'.id = ecRun.id /\ ecRun'.next = ecRun.next + 1
      BY <1>3, <2>1, <3>1 DEF EcRunOK
    <3> QED
      BY <2>1, <3>2
  <2>2. CASE ecRun' = [ecRun EXCEPT !.pc = "clean"]
    BY <1>3, <2>2 DEF EcRunOK, EcPcs
  <2> QED
    BY <1>1, <2>1, <2>2
<1>6. CollectionsOK' /\ EcStageOK'
  BY <1>0, <1>3, <1>5 DEF ContractInv, CollectionsOK, EcStageOK, Replacing, FillingContract, There
<1>7. ItemsInOrder'
  <2>1. \A k \in 1..Len(EcTree) :
          /\ k < ecRun.next => extensible[ecRun.id][EcTree[k]] = 1
          /\ k > ecRun.next => extensible[ecRun.id][EcTree[k]] = 0
    BY <1>0 DEF ContractInv, ItemsInOrder, FillingContract
  <2> QED
    BY <1>0, <1>4, <1>5, <2>1 DEF ItemsInOrder
<1>8. AllTold'
  BY <1>0, <1>5 DEF ContractInv, AllTold, There
<1> QED
  BY <1>0, <1>2, <1>5, <1>6, <1>7, <1>8 DEF ContractInv

\* A run that ends without success, or is over, holds nothing that a collection
\* could lack.
LEMMA FailedKeepsContract ==
    ASSUME ContractInv, CollectionsOK', EcBudgetOK', EcRunOK', AllTold', ecRun'.pc \in {"failed", "build"},
           ecRun'.pc = "build" => ecRun'.next = 1,
           ecTracked' = ecTracked, ecInput' = ecInput, untold' \subseteq EcIds
    PROVE  ContractInv'
BY DEF ContractInv, EcStageOK, ItemsInOrder, Replacing, FillingContract

LEMMA CleanKeepsContract == ASSUME ContractInv, DeletePartial PROVE ContractInv'
<1> DEFINE without == [extensible EXCEPT ![ecRun.id] = NotThere]
<1>0. /\ ecRun.pc = "clean" /\ ecRun' = [ecRun EXCEPT !.pc = "failed"]
      /\ ecTracked' = ecTracked /\ ecInput' = ecInput /\ untold' = untold
  BY DEF DeletePartial, EcAt, EcGoto, StateKept
<1>1. (extensible' = extensible \/ extensible' = without) /\ (EcFault \/ EcWorks)
  BY DEF DeletePartial
<1>2. EcBudgetOK'
  BY <1>1, EcBudgetKept DEF ContractInv
<1>3. EcRunOK' /\ ecRun'.pc = "failed"
  BY <1>0 DEF ContractInv, EcRunOK, EcPcs
<1>4. ecRun.id \in EcIds /\ CollectionsOK
  BY <1>0 DEF ContractInv, EcStageOK, FillingContract, There
<1>5. /\ without \in [EcIds -> [EcItems -> -1..1]] /\ without[ecRun.id] = NotThere
      /\ \A d \in EcIds : d # ecRun.id => without[d] = extensible[d]
  BY <1>4, WithoutOne
<1> HIDE DEF without
<1>6. /\ extensible' \in [EcIds -> [EcItems -> -1..1]]
      /\ \A c \in EcIds : extensible'[c] \in {extensible[c], NotThere}
  BY <1>1, <1>4, <1>5 DEF CollectionsOK
<1>7. CollectionsOK' /\ \A c \in EcIds : There(c)' => There(c)
  BY <1>4, <1>6, Fewer
<1>8. AllTold'
  BY <1>0, <1>7 DEF ContractInv, AllTold
<1>9. untold' \subseteq EcIds
  BY <1>0 DEF ContractInv
<1> QED
  BY <1>0, <1>2, <1>3, <1>7, <1>8, <1>9, FailedKeepsContract

LEMMA SaveKeepsContract == ASSUME ContractInv, SaveProtocol PROVE ContractInv'
<1>0. /\ ecRun.pc = "items" /\ ecRun.next > Len(EcTree) /\ extensible' = extensible
      /\ ecTracked' = ecRun.id /\ ecInput' = ecInput /\ untold' = untold
      /\ ecRun' = [ecRun EXCEPT !.pc = "done"] /\ EcWorks
  BY DEF SaveProtocol, EcAt, EcGoto
<1>1. /\ ecRun \in [pc : EcPcs, old : EcIds \cup {0}, id : EcIds \cup {0}, next : 1..(Len(EcTree) + 1)]
      /\ There(ecRun.id) /\ ecTracked = ecRun.id
  BY <1>0 DEF ContractInv, EcRunOK, EcStageOK, FillingContract
<1>2. ecRun.next = Len(EcTree) + 1
  BY <1>0, <1>1, TreeItems
<1>3. EcRunOK' /\ ecRun'.pc = "done" /\ ecRun'.id = ecRun.id /\ ecRun'.next = ecRun.next
  BY <1>0, <1>1 DEF EcRunOK, EcPcs
<1>4. EcBudgetOK'
  BY <1>0, EcBudgetKept DEF ContractInv
<1>5. CollectionsOK' /\ EcStageOK' /\ ecTracked' = ecTracked
  BY <1>0, <1>1, <1>2, <1>3 DEF ContractInv, CollectionsOK, EcStageOK, Replacing, FillingContract, There
<1>6. ItemsInOrder'
  BY <1>0, <1>3 DEF ContractInv, ItemsInOrder, FillingContract
<1>7. AllTold'
  BY <1>0, <1>3, <1>5 DEF ContractInv, AllTold, There
<1> QED
  BY <1>0, <1>3, <1>4, <1>5, <1>6, <1>7 DEF ContractInv

LEMMA KillKeepsContract == ASSUME ContractInv, KillProtocol PROVE ContractInv'
<1>0. /\ extensible' = extensible /\ ecTracked' = ecTracked /\ ecInput' = ecInput
      /\ ecRun' = [ecRun EXCEPT !.pc = "failed"] /\ EcFault
      /\ untold' = IF ecRun.pc = "track" THEN untold \cup {ecRun.id} ELSE untold
  BY DEF KillProtocol, EcAt, EcGoto, StateKept
<1>1. EcRunOK' /\ ecRun'.pc = "failed"
  BY <1>0 DEF ContractInv, EcRunOK, EcPcs
<1>2. EcBudgetOK'
  BY <1>0, EcBudgetKept DEF ContractInv
<1>3. CollectionsOK'
  BY <1>0 DEF ContractInv, CollectionsOK
<1>4. untold' \subseteq EcIds
  BY <1>0 DEF ContractInv, EcStageOK, FillingContract, There
<1>5. AllTold'
  BY <1>0 DEF ContractInv, AllTold, There
<1> QED
  BY <1>0, <1>1, <1>2, <1>3, <1>4, <1>5, FailedKeepsContract

LEMMA RestartKeepsContract == ASSUME ContractInv, NextProtocolRun PROVE ContractInv'
<1>0. /\ extensible' = extensible /\ ecTracked' = ecTracked /\ ecInput' = ecInput /\ untold' = untold
      /\ ecRun' = [pc |-> "build", old |-> 0, id |-> 0, next |-> 1] /\ ecRun.pc \in {"done", "failed"}
      /\ ecBudget.runs < MaxEcRuns /\ ecBudget' = [ecBudget EXCEPT !.runs = @ + 1]
  BY DEF NextProtocolRun, EcEnded, StateKept
<1>1. EcRunOK' /\ ecRun'.pc = "build" /\ ecRun'.next = 1
  BY <1>0, TreeItems DEF EcRunOK, EcPcs
<1>2. EcBudgetOK'
  BY <1>0, EcAssumption DEF ContractInv, EcBudgetOK
<1>3. CollectionsOK' /\ untold' \subseteq EcIds
  BY <1>0 DEF ContractInv, CollectionsOK
<1>4. AllTold'
  BY <1>0 DEF ContractInv, AllTold, There
<1> QED
  BY <1>0, <1>1, <1>2, <1>3, <1>4, FailedKeepsContract

\* Only CreateExtensible makes a collection.
LEMMA OnlyCreated ==
    ASSUME ContractInv, extensible' = extensible \/ (\A c \in EcIds : There(c)' => There(c))
    PROVE  ReplacedIsGone
BY DEF ReplacedIsGone, There

LEMMA OthersCreateNone ==
    ASSUME ContractInv,
           BuildProtocol \/ DeleteEarlier \/ RereadEarlier \/ TrackExtensible \/ CreateItem
           \/ AdoptItem \/ DeletePartial \/ SaveProtocol \/ KillProtocol \/ NextProtocolRun
    PROVE  ReplacedIsGone
<1>1. CASE BuildProtocol \/ RereadEarlier \/ TrackExtensible \/ AdoptItem \/ SaveProtocol
           \/ KillProtocol \/ NextProtocolRun
  <2>1. extensible' = extensible
    BY <1>1 DEF BuildProtocol, RereadEarlier, TrackExtensible, AdoptItem, SaveProtocol, KillProtocol,
                NextProtocolRun
  <2> QED
    BY <2>1, OnlyCreated
<1>2. CASE DeleteEarlier \/ DeletePartial
  <2>1. PICK c \in {ecRun.old, ecRun.id} : extensible' \in {extensible, [extensible EXCEPT ![c] = NotThere]}
    BY <1>2 DEF DeleteEarlier, DeletePartial
  <2>2. \A d \in EcIds : extensible'[d] \in {extensible[d], NotThere}
    BY <2>1, AbsentOrNot DEF ContractInv, CollectionsOK
  <2> QED
    BY <2>2, OnlyCreated DEF There
<1>3. CASE CreateItem
  <2>1. /\ ecRun.pc = "items" /\ ecRun.next <= Len(EcTree)
        /\ extensible' = extensible \/ extensible' = WithItem
    BY <1>3 DEF CreateItem, EcAt
  <2>2. There(ecRun.id) /\ \A c \in EcIds : c # ecRun.id => WithItem[c] = extensible[c]
    BY <2>1, NextItemSent DEF ContractInv, EcStageOK, FillingContract
  <2> HIDE DEF WithItem
  <2>3. \A c \in EcIds : There(c)' => There(c)
    BY <2>1, <2>2 DEF There
  <2> QED
    BY <2>3, OnlyCreated
<1> QED
  BY <1>1, <1>2, <1>3

LEMMA ContractStepKeeps ==
    ASSUME ContractInv, [ProtocolNext]_ecVars
    PROVE  ContractInv' /\ (ProtocolNext => ReplacedIsGone)
<1>1. CASE ProtocolNext
  <2>1. CASE CreateExtensible
    BY <2>1, CreateKeepsContract
  <2>2. CASE BuildProtocol \/ DeleteEarlier \/ RereadEarlier \/ TrackExtensible \/ CreateItem
             \/ AdoptItem \/ DeletePartial \/ SaveProtocol \/ KillProtocol \/ NextProtocolRun
    <3>1. ReplacedIsGone
      BY <2>2, OthersCreateNone
    <3>2. ContractInv'
      BY <2>2, BuildKeepsContract, DeleteKeepsContract, RereadKeepsContract, TrackKeepsContract,
         CreateItemKeepsContract, AdoptKeepsContract, CleanKeepsContract, SaveKeepsContract,
         KillKeepsContract, RestartKeepsContract
    <3> QED
      BY <3>1, <3>2
  <2> QED
    BY <1>1, <2>1, <2>2 DEF ProtocolNext
<1>2. CASE UNCHANGED ecVars /\ ~ ProtocolNext
  <2>1. /\ extensible' = extensible /\ ecTracked' = ecTracked /\ ecInput' = ecInput /\ ecRun' = ecRun
        /\ untold' = untold /\ ecBudget' = ecBudget
    BY <1>2 DEF ecVars
  <2>2. CollectionsOK' /\ EcRunOK' /\ EcBudgetOK'
    BY <2>1 DEF ContractInv, CollectionsOK, EcRunOK, EcBudgetOK
  <2>3. EcStageOK' /\ ItemsInOrder' /\ AllTold'
    BY <2>1 DEF ContractInv, EcStageOK, ItemsInOrder, AllTold, There
  <2> QED
    BY <1>2, <2>1, <2>2, <2>3 DEF ContractInv
<1> QED
  BY <1>1, <1>2

\* runProtocolBootstrap, for any definition: however its runs fail, lose answers or
\* are killed, a run that succeeds leaves the whole definition in the collection
\* it tracks, every other one that is there is a beginning of the definition, no
\* second one is created beside the one it replaces, and without a
\* contract-collection-id the next run finds every one that was left behind, but
\* those no run was ever told of.
THEOREM ContractSafe == ProtocolSpec => ContractIsSafe
<1>1. ProtocolInit => ContractInv
  BY ContractInitOK
<1>2. ContractInv /\ [ProtocolNext]_ecVars => ContractInv'
  BY ContractStepKeeps
<1>3. ContractInv /\ ContractInv' /\ [ProtocolNext]_ecVars =>
        [ProtocolTypeOK' /\ ProtocolWhole' /\ ContractsInOrder' /\ NoStrayContract' /\ ReplacedIsGone]_ecVars
  <2> SUFFICES ASSUME ContractInv, ContractInv', ProtocolNext
               PROVE  ProtocolTypeOK' /\ ProtocolWhole' /\ ContractsInOrder' /\ NoStrayContract' /\ ReplacedIsGone
    BY DEF ecVars
  <2>1. ProtocolTypeOK' /\ ProtocolWhole' /\ ContractsInOrder' /\ NoStrayContract'
    BY ContractTypes, PTL
  <2> QED
    BY <2>1, ContractStepKeeps
<1> QED
  BY <1>1, <1>2, <1>3, PTL DEF ProtocolSpec, ContractIsSafe

-----------------------------------------------------------------------------
(* Specifications and collections of the runs of one repository            *)

OnboardFields == DOMAIN IdleRun
AssetFields == DOMAIN NoHubAsset
Onboarding == {"preflight", "resolve", "spec", "collections", "generate", "save"}
Placed == {"resolve", "spec", "collections", "generate", "save"}
Synced == {"collections", "generate", "save"}

\* The assets of one kind: a live one is in a workspace.
HubOK(h) ==
    /\ h = [a \in AssetIds |-> h[a]]
    /\ \A a \in AssetIds : DOMAIN h[a] = AssetFields /\ (h[a] = NoHubAsset \/ h[a].ws \in CloudWorkspaces)

\* What a file tracks is live, and without a workspace of its own its
\* specifications are in the one a run would take.
FileOK(h, c, file) ==
    /\ DOMAIN file = {"ws", "specs", "collections"} /\ file.ws \in CloudWorkspaces \cup {NoId}
    /\ \A e \in file.specs : e.id \in AssetIds /\ h[e.id].ws \in CloudWorkspaces
    /\ \A e \in file.collections : e.id \in AssetIds /\ c[e.id].ws \in CloudWorkspaces
    /\ file.ws = NoId => \A e \in file.specs : h[e.id].ws = HomeWorkspace

\* What a run holds of the file it read and of the assets it would restore.
ReadOK ==
    onboard.pc \in Onboarding =>
        /\ In \in RunInputs /\ FileOK(hubSpecs, hubCollections, onboard.file)
        /\ HubOK(onboard.before.specs) /\ HubOK(onboard.before.collections)
        /\ FileOK(onboard.before.specs, onboard.before.collections, stateFile)
        /\ onboard.before.file.specs = stateFile.specs /\ onboard.before.file.collections = stateFile.collections
        /\ onboard.file.specs \in {stateFile.specs, {}} /\ onboard.file.collections \in {stateFile.collections, {}}
        /\ In.scope # "full" /\ onboard.file.specs # {} =>
              onboard.file.ws # NoId /\ SelectedWorkspace(In, onboard.file) = onboard.file.ws

\* Before it has a workspace, the file it read is the tracked one or was put aside.
AsideOK ==
    onboard.pc = "preflight" =>
        /\ onboard.deferred \in BOOLEAN
        /\ onboard.deferred = FALSE => onboard.file = stateFile
        /\ onboard.deferred # FALSE => onboard.file.specs = {}

\* Once it has one, it is the file's, or the one taken when the file has none.
PlaceOK ==
    onboard.pc \in Placed =>
        /\ onboard.ws \in CloudWorkspaces
        /\ \/ /\ onboard.persist = TRUE /\ onboard.file.ws = onboard.ws
              /\ onboard.file.specs # {} => stateFile.specs = onboard.file.specs /\ stateFile.ws = onboard.ws
           \/ onboard.persist = FALSE /\ onboard.file.ws = NoId /\ onboard.ws = HomeWorkspace

\* The specification it works on is tracked, or in its workspace.
SpecOK ==
    /\ onboard.pc \in {"resolve", "spec"} /\ onboard.spec # NoId =>
          \E e \in onboard.file.specs : e.key = SpecKey(In) /\ e.id = onboard.spec
    /\ onboard.pc \in Synced =>
          /\ onboard.spec \in AssetIds /\ hubSpecs[onboard.spec].ws \in CloudWorkspaces
          /\ hubSpecs[onboard.spec].ws = onboard.ws \/ \E e \in onboard.file.specs : e.id = onboard.spec

HeldOK ==
    onboard.pc \in {"spec", "collections", "generate", "save"} =>
        \A r \in AssetRoles : onboard.ids[r] # NoId =>
            onboard.ids[r] \in AssetIds /\ hubCollections[onboard.ids[r]].ws \in CloudWorkspaces

\* What the collections a run keeps or has generated hold.
RoleTexts == \A r \in AssetRoles : onboard.ids[r] # NoId => hubCollections[onboard.ids[r]].text = Desired(r)
TextsOK ==
    /\ onboard.pc = "generate" /\ onboard.unchanged = TRUE /\ In.collMode = "version" /\ In.content # NoId
       /\ onboard.skipped = FALSE /\ onboard.verified = TRUE => RoleTexts
    /\ onboard.pc = "save" /\ In.scope = "full" /\ In.content # NoId /\ onboard.skipped = FALSE => RoleTexts

FlagsOK ==
    onboard.pc \in Onboarding =>
        onboard.unchanged \in BOOLEAN /\ onboard.verified \in BOOLEAN /\ onboard.skipped \in BOOLEAN

OnboardInv ==
    /\ HubOK(hubSpecs) /\ HubOK(hubCollections) /\ FileOK(hubSpecs, hubCollections, stateFile)
    /\ DOMAIN onboard = OnboardFields
    /\ ReadOK /\ AsideOK /\ PlaceOK /\ SpecOK /\ HeldOK /\ TextsOK /\ FlagsOK

LEMMA Apart == NoId \notin CloudWorkspaces /\ NoId \notin AssetIds /\ HomeWorkspace \in CloudWorkspaces
BY IdentityAssumption

LEMMA OnboardInitOK == ASSUME IdentityInit PROVE OnboardInv
<1>1. /\ onboard = IdleRun /\ IdleRun.pc = "idle"
      /\ hubSpecs = [a \in AssetIds |-> NoHubAsset] /\ hubCollections = [a \in AssetIds |-> NoHubAsset]
  BY DEF IdentityInit, IdleRun
<1>2. HubOK(hubSpecs) /\ HubOK(hubCollections)
  BY <1>1 DEF HubOK, AssetFields
<1>3. stateFile = [ws |-> NoId, specs |-> {}, collections |-> {}]
  BY DEF IdentityInit, NoTrackedState
<1>4. FileOK(hubSpecs, hubCollections, stateFile)
  BY <1>3 DEF FileOK
<1>5. onboard.pc = "idle" /\ DOMAIN onboard = OnboardFields
  BY <1>1 DEF OnboardFields
<1>6. ReadOK /\ AsideOK /\ PlaceOK /\ SpecOK /\ HeldOK /\ TextsOK /\ FlagsOK
  BY <1>5 DEF ReadOK, AsideOK, PlaceOK, SpecOK, HeldOK, TextsOK, FlagsOK, Onboarding, Placed, Synced
<1> QED
  BY <1>2, <1>4, <1>5, <1>6 DEF OnboardInv

\* A run that is not under way holds nothing.
LEMMA AtRestKeeps ==
    ASSUME HubOK(hubSpecs)', HubOK(hubCollections)', FileOK(hubSpecs, hubCollections, stateFile)',
           DOMAIN onboard' = OnboardFields, onboard'.pc \notin Onboarding
    PROVE  OnboardInv'
BY DEF OnboardInv, ReadOK, AsideOK, PlaceOK, SpecOK, HeldOK, TextsOK, FlagsOK, Onboarding, Placed, Synced

\* The file a run works from.
LEMMA ScopedFile ==
    ASSUME NEW h, NEW c, NEW file, NEW w \in CloudWorkspaces \cup {NoId}, FileOK(h, c, file)
    PROVE  /\ FileOK(h, c, ScopeToWorkspace(file, w))
           /\ \/ ScopeToWorkspace(file, w) = file /\ (file.specs # {} => file.ws = w /\ w # NoId)
              \/ /\ ScopeToWorkspace(file, w).specs = {} /\ ScopeToWorkspace(file, w).collections = {}
<1>1. [NoTrackedState EXCEPT !.ws = w] = [ws |-> w, specs |-> {}, collections |-> {}]
  BY DEF NoTrackedState
<1>2. CASE file = NoTrackedState
  <2>1. ScopeToWorkspace(file, w) = file /\ file.specs = {}
    BY <1>2 DEF ScopeToWorkspace, NoTrackedState
  <2> QED
    BY <2>1
<1>3. CASE file # NoTrackedState /\ file.ws # NoId /\ file.ws = w
  BY <1>3 DEF ScopeToWorkspace
<1>4. CASE file # NoTrackedState /\ ~ (file.ws # NoId /\ file.ws = w)
  <2> DEFINE s == [ws |-> w, specs |-> {}, collections |-> {}]
  <2>1. ScopeToWorkspace(file, w) = s
    BY <1>1, <1>4 DEF ScopeToWorkspace
  <2>2. FileOK(h, c, s) /\ s.specs = {} /\ s.collections = {}
    BY DEF FileOK
  <2> QED
    BY <2>1, <2>2
<1> QED
  BY <1>2, <1>3, <1>4

\* The link and the input give a workspace, or else the file does.
LEMMA Selects ==
    ASSUME NEW i \in RunInputs, NEW file, file.ws \in CloudWorkspaces \cup {NoId}
    PROVE  /\ SelectedWorkspace(i, file) \in CloudWorkspaces \cup {NoId}
           /\ SelectedWorkspace(i, file) = NoId => file.ws = NoId
           /\ \A other : other.ws = file.ws => SelectedWorkspace(i, other) = SelectedWorkspace(i, file)
BY IdentityAssumption DEF SelectedWorkspace

LEMMA StartKeepsOnboarding == ASSUME OnboardInv, StartOnboarding PROVE OnboardInv'
<1>1. hubSpecs' = hubSpecs /\ hubCollections' = hubCollections /\ stateFile' = stateFile
  BY DEF StartOnboarding
<1>2. /\ HubOK(hubSpecs) /\ HubOK(hubCollections) /\ FileOK(hubSpecs, hubCollections, stateFile)
      /\ HubOK(hubSpecs)' /\ HubOK(hubCollections)' /\ FileOK(hubSpecs, hubCollections, stateFile)'
  BY <1>1 DEF OnboardInv
<1>3. PICK i \in RunInputs :
        LET scoped == IF i.scope = "full" THEN stateFile
                      ELSE ScopeToWorkspace(stateFile, SelectedWorkspace(i, stateFile))
        IN  onboard' = [IdleRun EXCEPT !.input = i, !.file = scoped, !.deferred = scoped # stateFile,
                          !.pc = IF NeedsLabel(i) /\ ReleaseLabel(i) = <<>> THEN "failed" ELSE "preflight",
                          !.before = [specs |-> hubSpecs, collections |-> hubCollections, file |-> stateFile],
                          !.runs = onboard.runs + 1, !.faults = onboard.faults]
  BY DEF StartOnboarding
<1> DEFINE selected == SelectedWorkspace(i, stateFile)
           scoped == IF i.scope = "full" THEN stateFile ELSE ScopeToWorkspace(stateFile, selected)
           before == [specs |-> hubSpecs, collections |-> hubCollections, file |-> stateFile]
           aside == scoped # stateFile
           pc == IF NeedsLabel(i) /\ ReleaseLabel(i) = <<>> THEN "failed" ELSE "preflight"
           runs == onboard.runs + 1
           faults == onboard.faults
<1>4. before.specs = hubSpecs /\ before.collections = hubCollections /\ before.file = stateFile
  OBVIOUS
<1>5. selected \in CloudWorkspaces \cup {NoId}
  BY <1>2, Selects DEF FileOK
<1>6. /\ FileOK(hubSpecs, hubCollections, scoped)
      /\ scoped = stateFile \/ (scoped.specs = {} /\ scoped.collections = {})
      /\ i.scope # "full" /\ scoped.specs # {} => scoped.ws # NoId /\ SelectedWorkspace(i, scoped) = scoped.ws
  <2>1. CASE i.scope = "full"
    <3>1. scoped = stateFile
      BY <2>1
    <3> QED
      BY <2>1, <3>1, <1>2
  <2>2. CASE i.scope # "full"
    <3>1. scoped = ScopeToWorkspace(stateFile, selected)
      BY <2>2
    <3> HIDE DEF scoped, selected
    <3>2. /\ FileOK(hubSpecs, hubCollections, scoped)
          /\ \/ scoped = stateFile /\ (stateFile.specs # {} => stateFile.ws = selected /\ selected # NoId)
             \/ scoped.specs = {} /\ scoped.collections = {}
      BY <1>2, <1>5, <3>1, ScopedFile
    <3>3. scoped = stateFile => SelectedWorkspace(i, scoped) = selected
      BY DEF selected
    <3> QED
      BY <3>2, <3>3
  <2> QED
    BY <2>1, <2>2
<1>7. aside \in BOOLEAN /\ (aside = FALSE => scoped = stateFile) /\ (aside # FALSE => scoped.specs = {})
  BY <1>6
<1>8. pc \in {"failed", "preflight"}
  OBVIOUS
<1> HIDE DEF selected, scoped, before, aside, pc, runs, faults
<1>9. onboard' = [IdleRun EXCEPT !.input = i, !.file = scoped, !.deferred = aside, !.pc = pc,
                                 !.before = before, !.runs = runs, !.faults = faults]
  BY <1>3 DEF selected, scoped, before, aside, pc, runs, faults
<1>10. /\ DOMAIN onboard' = OnboardFields /\ onboard'.pc = pc /\ onboard'.input = i
       /\ onboard'.file = scoped /\ onboard'.deferred = aside /\ onboard'.before = before
       /\ onboard'.unchanged = FALSE /\ onboard'.verified = TRUE /\ onboard'.skipped = FALSE
  BY <1>9 DEF OnboardFields, IdleRun
<1>11. CASE pc = "failed"
  BY <1>2, <1>10, <1>11, AtRestKeeps DEF Onboarding
<1>12. CASE pc = "preflight"
  <2>1. ReadOK'
    BY <1>1, <1>2, <1>4, <1>6, <1>10 DEF ReadOK, In
  <2>2. AsideOK'
    BY <1>1, <1>7, <1>10 DEF AsideOK
  <2>3. PlaceOK' /\ SpecOK' /\ HeldOK' /\ TextsOK'
    BY <1>10, <1>12 DEF PlaceOK, SpecOK, HeldOK, TextsOK, Placed, Synced
  <2>4. FlagsOK'
    BY <1>10 DEF FlagsOK
  <2> QED
    BY <1>2, <1>10, <2>1, <2>2, <2>3, <2>4 DEF OnboardInv
<1> QED
  BY <1>8, <1>11, <1>12

\* The file that a run which knows its workspace writes.
LEMMA FileMoved ==
    ASSUME NEW h, NEW c, NEW file, FileOK(h, c, file), NEW w \in CloudWorkspaces
    PROVE  /\ FileOK(h, c, [file EXCEPT !.ws = w])
           /\ [file EXCEPT !.ws = w].ws = w
           /\ [file EXCEPT !.ws = w].specs = file.specs /\ [file EXCEPT !.ws = w].collections = file.collections
<1>1. /\ [file EXCEPT !.ws = w].ws = w /\ DOMAIN [file EXCEPT !.ws = w] = {"ws", "specs", "collections"}
      /\ [file EXCEPT !.ws = w].specs = file.specs /\ [file EXCEPT !.ws = w].collections = file.collections
  BY DEF FileOK
<1> QED
  BY <1>1, Apart DEF FileOK

LEMMA LookupFinds ==
    ASSUME NEW map, NEW keys
    PROVE  \/ Lookup(map, keys) = NoId
           \/ \E e \in map : e.key \in keys /\ e.id = Lookup(map, keys)
BY DEF Lookup

LEMMA PreflightKeepsOnboarding ==
    ASSUME OnboardInv, PreflightOnboarding
    PROVE  OnboardInv' /\ TrackedInOnePlace /\ stateFile'.specs = stateFile.specs
           /\ stateFile'.collections = stateFile.collections
           /\ onboard'.before = onboard.before /\ onboard'.input = onboard.input
<1> DEFINE id == Lookup(onboard.file.specs, {SpecKey(In)})
           known == SelectedWorkspace(In, onboard.file)
           w == IF known # NoId THEN known ELSE HomeWorkspace
<1>1. onboard.pc = "preflight" /\ hubSpecs' = hubSpecs /\ hubCollections' = hubCollections
  BY DEF PreflightOnboarding
<1>2. /\ HubOK(hubSpecs) /\ HubOK(hubCollections) /\ FileOK(hubSpecs, hubCollections, stateFile)
      /\ HubOK(hubSpecs)' /\ HubOK(hubCollections)' /\ DOMAIN onboard = OnboardFields
  BY <1>1 DEF OnboardInv
<1>3. /\ In \in RunInputs /\ FileOK(hubSpecs, hubCollections, onboard.file)
      /\ HubOK(onboard.before.specs) /\ HubOK(onboard.before.collections)
      /\ FileOK(onboard.before.specs, onboard.before.collections, stateFile)
      /\ onboard.before.file.specs = stateFile.specs /\ onboard.before.file.collections = stateFile.collections
      /\ onboard.file.specs \in {stateFile.specs, {}} /\ onboard.file.collections \in {stateFile.collections, {}}
      /\ In.scope # "full" /\ onboard.file.specs # {} =>
            onboard.file.ws # NoId /\ SelectedWorkspace(In, onboard.file) = onboard.file.ws
      /\ onboard.deferred \in BOOLEAN
      /\ onboard.deferred = FALSE => onboard.file = stateFile
      /\ onboard.deferred # FALSE => onboard.file.specs = {}
  BY <1>1 DEF OnboardInv, ReadOK, AsideOK, Onboarding
<1>4. /\ w \in CloudWorkspaces /\ (known # NoId => w = known)
      /\ known = NoId => onboard.file.ws = NoId /\ w = HomeWorkspace
  <2>1. known \in CloudWorkspaces \cup {NoId} /\ (known = NoId => onboard.file.ws = NoId)
    BY <1>3, Selects DEF FileOK
  <2> HIDE DEF known
  <2> QED
    BY <2>1, Apart
<1>5. id = NoId \/ \E e \in onboard.file.specs : e.key = SpecKey(In) /\ e.id = id
  BY LookupFinds
<1>6. \/ onboard' = [onboard EXCEPT !.pc = "failed"] /\ stateFile' = stateFile
      \/ \E persist \in BOOLEAN :
           /\ known # NoId => persist
           /\ onboard' = [onboard EXCEPT !.pc = "resolve", !.ws = w, !.persist = persist,
                                         !.spec = id, !.file.ws = IF persist THEN w ELSE @]
           /\ stateFile' = IF persist /\ ~onboard.deferred THEN [onboard.file EXCEPT !.ws = w] ELSE stateFile
  BY DEF PreflightOnboarding, EndRun
<1> HIDE DEF id, known, w
<1>7. CASE onboard' = [onboard EXCEPT !.pc = "failed"] /\ stateFile' = stateFile
  <2>1. DOMAIN onboard' = OnboardFields /\ onboard'.pc = "failed" /\ onboard'.before = onboard.before
        /\ onboard'.input = onboard.input
    BY <1>2, <1>7 DEF OnboardFields, IdleRun
  <2>2. FileOK(hubSpecs, hubCollections, stateFile)'
    BY <1>1, <1>2, <1>7
  <2>3. OnboardInv'
    BY <1>2, <2>1, <2>2, AtRestKeeps DEF Onboarding
  <2>4. TrackedInOnePlace
    BY <1>7 DEF TrackedInOnePlace
  <2> QED
    BY <1>7, <2>1, <2>3, <2>4
<1>8. CASE \E persist \in BOOLEAN :
             /\ known # NoId => persist
             /\ onboard' = [onboard EXCEPT !.pc = "resolve", !.ws = w, !.persist = persist,
                                           !.spec = id, !.file.ws = IF persist THEN w ELSE @]
             /\ stateFile' = IF persist /\ ~onboard.deferred THEN [onboard.file EXCEPT !.ws = w] ELSE stateFile
  <2>1. PICK persist \in BOOLEAN :
             /\ known # NoId => persist
             /\ onboard' = [onboard EXCEPT !.pc = "resolve", !.ws = w, !.persist = persist,
                                           !.spec = id, !.file.ws = IF persist THEN w ELSE @]
             /\ stateFile' = IF persist /\ ~onboard.deferred THEN [onboard.file EXCEPT !.ws = w] ELSE stateFile
    BY <1>8
  <2> DEFINE place == IF persist THEN w ELSE onboard.file.ws
             f == [onboard.file EXCEPT !.ws = place]
             g == [onboard.file EXCEPT !.ws = w]
  <2>2. onboard' = [onboard EXCEPT !.pc = "resolve", !.ws = w, !.persist = persist, !.spec = id, !.file = f]
    BY <2>1
  <2>3. (persist => place = w) /\ (~persist => place = onboard.file.ws)
    OBVIOUS
  <2>4. /\ f.ws = place /\ f.specs = onboard.file.specs /\ f.collections = onboard.file.collections
        /\ DOMAIN f = {"ws", "specs", "collections"}
        /\ g.ws = w /\ g.specs = onboard.file.specs /\ g.collections = onboard.file.collections
        /\ DOMAIN g = {"ws", "specs", "collections"}
    BY <1>3 DEF FileOK
  <2> HIDE DEF place, f, g
  <2>5. /\ DOMAIN onboard' = OnboardFields /\ onboard'.pc = "resolve" /\ onboard'.ws = w /\ onboard'.spec = id
        /\ onboard'.file = f /\ onboard'.before = onboard.before /\ onboard'.input = onboard.input
        /\ onboard'.persist = persist /\ onboard'.unchanged = onboard.unchanged
        /\ onboard'.verified = onboard.verified /\ onboard'.skipped = onboard.skipped
    BY <1>2, <2>2 DEF OnboardFields, IdleRun
  <2>6. FileOK(hubSpecs, hubCollections, f)
    BY <1>3, <1>4, <2>3, <2>4, Apart DEF FileOK
  <2>7. \/ stateFile' = stateFile /\ (persist => onboard.file.specs = {})
        \/ persist /\ onboard.deferred = FALSE /\ stateFile' = g
    BY <1>3, <2>1 DEF g
  <2>8. /\ FileOK(hubSpecs, hubCollections, stateFile')
        /\ FileOK(onboard.before.specs, onboard.before.collections, stateFile')
        /\ stateFile'.specs = stateFile.specs /\ stateFile'.collections = stateFile.collections
    BY <1>2, <1>3, <1>4, <2>4, <2>7, Apart DEF FileOK
  <2>9. FileOK(hubSpecs, hubCollections, stateFile)'
    BY <1>1, <2>8
  <2>10. ReadOK'
    <3>1. In.scope # "full" /\ f.specs # {} => f.ws # NoId /\ SelectedWorkspace(In, f) = f.ws
      <4> SUFFICES ASSUME In.scope # "full", f.specs # {} PROVE f.ws # NoId /\ SelectedWorkspace(In, f) = f.ws
        OBVIOUS
      <4>1. onboard.file.ws # NoId /\ known = onboard.file.ws
        BY <1>3, <2>4 DEF known
      <4>2. f.ws = onboard.file.ws
        BY <1>4, <2>3, <2>4, <4>1
      <4>3. SelectedWorkspace(In, f) = known
        BY <1>3, <4>2, Selects DEF FileOK, known
      <4> QED
        BY <4>1, <4>2, <4>3
    <3>2. In' = In
      BY <2>5 DEF In
    <3>3. FileOK(hubSpecs, hubCollections, onboard.file)'
      BY <1>1, <2>5, <2>6
    <3> QED
      BY <1>3, <2>4, <2>5, <2>8, <3>1, <3>2, <3>3 DEF ReadOK
  <2>11. PlaceOK'
    <3>1. CASE persist
      <4>1. persist = TRUE /\ f.ws = w /\ f.specs = onboard.file.specs
        BY <3>1, <2>3, <2>4
      <4>2. f.specs # {} => stateFile'.specs = f.specs /\ stateFile'.ws = w
        BY <2>4, <2>7, <4>1
      <4> QED
        BY <1>4, <2>5, <4>1, <4>2 DEF PlaceOK
    <3>2. CASE ~ persist
      <4>1. persist = FALSE /\ f.ws = NoId /\ w = HomeWorkspace
        BY <3>2, <1>4, <2>1, <2>3, <2>4
      <4> QED
        BY <1>4, <2>5, <4>1 DEF PlaceOK
    <3> QED
      BY <3>1, <3>2
  <2>12. AsideOK' /\ HeldOK' /\ TextsOK'
    BY <2>5 DEF AsideOK, HeldOK, TextsOK
  <2>13. SpecOK'
    BY <1>5, <2>4, <2>5 DEF SpecOK, In, SpecKey, ReleaseLabel, Synced
  <2>14. TrackedInOnePlace
    <3> SUFFICES ASSUME ~Mixed(stateFile), Mixed(stateFile')
                 PROVE  In.scope = "full" /\ SelectedWorkspace(In, stateFile) # stateFile.ws
      BY DEF TrackedInOnePlace
    <3>1. persist /\ onboard.deferred = FALSE /\ stateFile' = g /\ onboard.file = stateFile
      BY <1>3, <2>7
    <3>2. PICK e \in g.specs : g.ws # NoId /\ hubSpecs[e.id].ws # g.ws
      BY <3>1 DEF Mixed
    <3>3. e \in stateFile.specs /\ hubSpecs[e.id].ws # w /\ (stateFile.ws = NoId \/ hubSpecs[e.id].ws = stateFile.ws)
      BY <2>4, <3>1, <3>2 DEF Mixed
    <3>4. stateFile.ws # w
      BY <3>3, <1>4, Apart
    <3>5. stateFile.ws = NoId => hubSpecs[e.id].ws = HomeWorkspace
      BY <1>2, <3>3 DEF FileOK
    <3>6. known # NoId /\ w = known
      BY <1>4, <3>1, <3>3, <3>5
    <3>7. SelectedWorkspace(In, stateFile) # stateFile.ws
      BY <3>1, <3>4, <3>6 DEF known
    <3>8. In.scope = "full"
      BY <1>3, <3>1, <3>3, <3>7
    <3> QED
      BY <3>7, <3>8
  <2>15. FlagsOK'
    BY <1>1, <2>5 DEF OnboardInv, FlagsOK, Onboarding
  <2> QED
    BY <1>2, <2>15, <2>5, <2>8, <2>9, <2>10, <2>11, <2>12, <2>13, <2>14 DEF OnboardInv
<1> QED
  BY <1>6, <1>7, <1>8

\* A live asset keeps its workspace.
Kept(h, n) == \A a \in AssetIds : h[a].ws \in CloudWorkspaces => n[a].ws = h[a].ws

LEMMA FileStays ==
    ASSUME NEW h, NEW c, NEW n, NEW d, NEW file, FileOK(h, c, file), Kept(h, n), Kept(c, d)
    PROVE  FileOK(n, d, file)
BY DEF FileOK, Kept

\* A step inside a run, which writes no file.
LEMMA RunGoesOn ==
    ASSUME OnboardInv, onboard.pc \in Placed, onboard'.pc \in Placed, stateFile' = stateFile,
           HubOK(hubSpecs'), HubOK(hubCollections'), Kept(hubSpecs, hubSpecs'), Kept(hubCollections, hubCollections'),
           DOMAIN onboard' = OnboardFields,
           onboard'.input = onboard.input /\ onboard'.file = onboard.file /\ onboard'.before = onboard.before,
           onboard'.ws = onboard.ws /\ onboard'.persist = onboard.persist,
           SpecOK', HeldOK', TextsOK', FlagsOK'
    PROVE  OnboardInv'
<1>1. FileOK(hubSpecs', hubCollections', stateFile') /\ FileOK(hubSpecs', hubCollections', onboard'.file)
  <2>1. FileOK(hubSpecs, hubCollections, stateFile) /\ FileOK(hubSpecs, hubCollections, onboard.file)
    BY DEF OnboardInv, ReadOK, Onboarding, Placed
  <2> QED
    BY <2>1, FileStays
<1>2. ReadOK'
  BY <1>1 DEF OnboardInv, ReadOK, Onboarding, Placed, In
<1>3. PlaceOK' /\ AsideOK'
  BY DEF OnboardInv, PlaceOK, AsideOK, Placed
<1> QED
  BY <1>1, <1>2, <1>3 DEF OnboardInv

\* A step inside a run that writes nothing at all.
LEMMA RunLooks ==
    ASSUME OnboardInv, onboard.pc \in Placed, onboard'.pc \in Placed,
           stateFile' = stateFile, hubSpecs' = hubSpecs, hubCollections' = hubCollections,
           DOMAIN onboard' = OnboardFields,
           onboard'.input = onboard.input /\ onboard'.file = onboard.file /\ onboard'.before = onboard.before,
           onboard'.ws = onboard.ws /\ onboard'.persist = onboard.persist,
           SpecOK', HeldOK', TextsOK', FlagsOK'
    PROVE  OnboardInv'
<1>1. HubOK(hubSpecs') /\ HubOK(hubCollections')
  BY DEF OnboardInv
<1>2. Kept(hubSpecs, hubSpecs') /\ Kept(hubCollections, hubCollections')
  BY DEF Kept
<1> QED
  BY <1>1, <1>2, RunGoesOn

\* A run that ends where it wrote nothing.
LEMMA RunEndsHere ==
    ASSUME OnboardInv, onboard' = [onboard EXCEPT !.pc = "failed"],
           stateFile' = stateFile, hubSpecs' = hubSpecs, hubCollections' = hubCollections
    PROVE  OnboardInv'
<1>1. DOMAIN onboard' = OnboardFields /\ onboard'.pc = "failed"
  BY DEF OnboardInv, OnboardFields, IdleRun
<1> QED
  BY <1>1, AtRestKeeps DEF OnboardInv, Onboarding

LEMMA NamedIsLive ==
    ASSUME NEW name, name # <<>>, HubOK(hubCollections), Named(name) # NoId
    PROVE  /\ Named(name) \in AssetIds /\ hubCollections[Named(name)].name = name
           /\ hubCollections[Named(name)].ws \in CloudWorkspaces
<1> DEFINE P(a) == IF \E b \in AssetIds : hubCollections[b].name = name
                   THEN a # NoId /\ hubCollections[a].name = name ELSE a = NoId
<1>1. Named(name) = CHOOSE a \in AssetIds \cup {NoId} : P(a)
  BY DEF Named
<1>2. \E a \in AssetIds \cup {NoId} : P(a)
  BY Apart
<1>3. Named(name) \in AssetIds \cup {NoId} /\ P(Named(name))
  BY <1>1, <1>2
<1>4. Named(name) \in AssetIds /\ hubCollections[Named(name)].name = name
  BY <1>3
<1>5. NoHubAsset.name = <<>>
  BY DEF NoHubAsset
<1> QED
  BY <1>4, <1>5 DEF HubOK

LEMMA ResolveKeepsOnboarding == ASSUME OnboardInv, ResolveCollections PROVE OnboardInv'
<1> DEFINE idOf(r) == IF In.scope # "full" THEN NoId
                      ELSE IF r = "baseline" /\ In.baseline # <<>> THEN Named(In.baseline)
                      ELSE Lookup(onboard.file.collections, Directories(r))
           ids == [r \in AssetRoles |-> idOf(r)]
<1>1. /\ onboard.pc = "resolve" /\ hubSpecs' = hubSpecs /\ hubCollections' = hubCollections /\ stateFile' = stateFile
      /\ \/ onboard' = [onboard EXCEPT !.pc = "failed"]
         \/ onboard' = [onboard EXCEPT !.pc = "spec", !.ids = ids]
  BY DEF ResolveCollections, EndRun
<1>2. HubOK(hubCollections) /\ FileOK(hubSpecs, hubCollections, onboard.file)
  BY <1>1 DEF OnboardInv, ReadOK, Onboarding
<1>3. \A r \in AssetRoles : idOf(r) # NoId =>
         idOf(r) \in AssetIds /\ hubCollections[idOf(r)].ws \in CloudWorkspaces
  <2> SUFFICES ASSUME NEW r \in AssetRoles, idOf(r) # NoId
               PROVE  idOf(r) \in AssetIds /\ hubCollections[idOf(r)].ws \in CloudWorkspaces
    OBVIOUS
  <2>1. CASE r = "baseline" /\ In.baseline # <<>>
    <3>1. idOf(r) = Named(In.baseline)
      BY <2>1
    <3> HIDE DEF idOf
    <3> QED
      BY <1>2, <2>1, <3>1, NamedIsLive
  <2>2. CASE ~ (r = "baseline" /\ In.baseline # <<>>)
    <3>1. idOf(r) = Lookup(onboard.file.collections, Directories(r))
      BY <2>2
    <3> HIDE DEF idOf
    <3>2. \E e \in onboard.file.collections : e.key \in Directories(r) /\ e.id = idOf(r)
      BY <3>1, LookupFinds
    <3> QED
      BY <1>2, <3>2 DEF FileOK
  <2> QED
    BY <2>1, <2>2
<1>4. \A r \in AssetRoles : ids[r] = idOf(r)
  OBVIOUS
<1> HIDE DEF ids, idOf
<1>5. CASE onboard' = [onboard EXCEPT !.pc = "failed"]
  BY <1>1, <1>5, RunEndsHere
<1>6. CASE onboard' = [onboard EXCEPT !.pc = "spec", !.ids = ids]
  <2>1. /\ DOMAIN onboard' = OnboardFields /\ onboard'.pc = "spec" /\ onboard'.ids = ids
        /\ onboard'.input = onboard.input /\ onboard'.file = onboard.file /\ onboard'.before = onboard.before
        /\ onboard'.ws = onboard.ws /\ onboard'.persist = onboard.persist /\ onboard'.spec = onboard.spec
        /\ onboard'.unchanged = onboard.unchanged /\ onboard'.verified = onboard.verified
        /\ onboard'.skipped = onboard.skipped
    BY <1>6 DEF OnboardInv, OnboardFields, IdleRun
  <2>2. HeldOK'
    BY <1>1, <1>3, <1>4, <2>1 DEF HeldOK
  <2>3. SpecOK'
    BY <1>1, <2>1 DEF OnboardInv, SpecOK, Synced, In, SpecKey, ReleaseLabel
  <2>4. TextsOK' /\ FlagsOK'
    BY <1>1, <2>1 DEF OnboardInv, TextsOK, FlagsOK, Onboarding
  <2> QED
    BY <1>1, <2>1, <2>2, <2>3, <2>4, RunLooks DEF Placed
<1> QED
  BY <1>1, <1>5, <1>6

\* SyncSpec updates the tracked specification, adopts one or creates one.
Twins == {a \in AssetIds : hubSpecs[a].ws = onboard.ws /\ hubSpecs[a].name = AssetName(In, In.specMode)
                           /\ hubSpecs[a].text = In.doc}
OwnSpec == [ws |-> onboard.ws, name |-> AssetName(In, In.specMode), key |-> SpecKey(In), text |-> In.doc]

LEMMA SyncCases ==
    ASSUME SyncSpec
    PROVE  /\ onboard.pc = "spec" /\ hubCollections' = hubCollections /\ stateFile' = stateFile
           /\ \/ /\ onboard.spec # NoId /\ hubSpecs' = [hubSpecs EXCEPT ![onboard.spec].text = In.doc]
                 /\ onboard' = [onboard EXCEPT !.pc = "collections", !.unchanged = (hubSpecs' = hubSpecs)]
              \/ \E chosen \in AssetIds :
                    /\ onboard.spec = NoId /\ onboard' = [onboard EXCEPT !.pc = "collections", !.spec = chosen]
                    /\ \/ chosen \in Twins /\ hubSpecs' = hubSpecs
                       \/ hubSpecs[chosen] = NoHubAsset /\ hubSpecs' = [hubSpecs EXCEPT ![chosen] = OwnSpec]
              \/ onboard' = [onboard EXCEPT !.pc = "failed"] /\ hubSpecs' = hubSpecs
<1> DEFINE free == {a \in AssetIds : hubSpecs[a] = NoHubAsset}
           chosen == CHOOSE chosen \in IF Twins # {} THEN Twins ELSE free : TRUE
<1>1. onboard.pc = "spec" /\ hubCollections' = hubCollections /\ stateFile' = stateFile
  BY DEF SyncSpec
<1>2. CASE onboard.spec # NoId
  BY <1>1, <1>2 DEF SyncSpec
<1>3. CASE onboard.spec = NoId /\ (Twins # {} \/ free # {})
  <2>1. /\ hubSpecs' = IF Twins # {} THEN hubSpecs ELSE [hubSpecs EXCEPT ![chosen] = OwnSpec]
        /\ onboard' = [onboard EXCEPT !.pc = "collections", !.spec = chosen]
    BY <1>3 DEF SyncSpec, Twins, OwnSpec
  <2>2. chosen \in IF Twins # {} THEN Twins ELSE free
    BY <1>3
  <2> HIDE DEF chosen
  <2>3. chosen \in AssetIds /\ (Twins # {} => chosen \in Twins) /\ (Twins = {} => hubSpecs[chosen] = NoHubAsset)
    BY <2>2 DEF Twins
  <2> HIDE DEF free
  <2> QED
    BY <1>1, <1>3, <2>1, <2>3
<1>4. CASE onboard.spec = NoId /\ ~ (Twins # {} \/ free # {})
  BY <1>1, <1>4 DEF SyncSpec, Twins, EndRun
<1> QED
  BY <1>2, <1>3, <1>4

WithText(h, a, text) == [h EXCEPT ![a].text = text]
WithAsset(h, a, q) == [h EXCEPT ![a] = q]

LEMMA NewText ==
    ASSUME NEW h, HubOK(h), NEW a \in AssetIds, h[a].ws \in CloudWorkspaces, NEW text
    PROVE  /\ HubOK(WithText(h, a, text)) /\ Kept(h, WithText(h, a, text))
           /\ WithText(h, a, text)[a].ws = h[a].ws /\ WithText(h, a, text)[a].key = h[a].key
           /\ WithText(h, a, text)[a].name = h[a].name
           /\ \A b \in AssetIds : b # a => WithText(h, a, text)[b] = h[b]
<1> DEFINE q == [h[a] EXCEPT !.text = text]
           n == WithText(h, a, text)
<1>1. DOMAIN h[a] = {"ws", "name", "key", "text"} /\ AssetFields = {"ws", "name", "key", "text"}
  BY DEF HubOK, AssetFields, NoHubAsset
<1>2. DOMAIN q = AssetFields /\ q.ws = h[a].ws /\ q.key = h[a].key /\ q.name = h[a].name
  BY <1>1
<1>3. n = [h EXCEPT ![a] = q]
  BY DEF WithText
<1> HIDE DEF q, n
<1>4. h = [b \in AssetIds |-> h[b]]
  BY DEF HubOK
<1>5. n = [b \in AssetIds |-> n[b]] /\ n[a] = q /\ \A b \in AssetIds : b # a => n[b] = h[b]
  BY <1>3, <1>4
<1>6. HubOK(n) /\ Kept(h, n)
  BY <1>2, <1>5 DEF HubOK, Kept
<1> QED
  BY <1>2, <1>5, <1>6 DEF n

LEMMA NewAsset ==
    ASSUME NEW h, HubOK(h), NEW a \in AssetIds, h[a] = NoHubAsset,
           NEW q, DOMAIN q = AssetFields, q.ws \in CloudWorkspaces
    PROVE  /\ HubOK(WithAsset(h, a, q)) /\ Kept(h, WithAsset(h, a, q)) /\ WithAsset(h, a, q)[a] = q
           /\ \A b \in AssetIds : b # a => WithAsset(h, a, q)[b] = h[b]
<1> DEFINE n == WithAsset(h, a, q)
<1>1. h = [b \in AssetIds |-> h[b]]
  BY DEF HubOK
<1>2. n = [b \in AssetIds |-> n[b]] /\ n[a] = q /\ \A b \in AssetIds : b # a => n[b] = h[b]
  BY <1>1 DEF WithAsset
<1>3. h[a].ws \notin CloudWorkspaces
  BY Apart DEF NoHubAsset
<1> HIDE DEF n
<1>4. HubOK(n) /\ Kept(h, n)
  BY <1>2, <1>3 DEF HubOK, Kept
<1> QED
  BY <1>2, <1>4 DEF n

LEMMA SyncKeepsOnboarding ==
    ASSUME OnboardInv, SyncSpec
    PROVE  /\ OnboardInv'
           /\ In.scope # "full" /\ ~Mixed(onboard.file) /\ onboard'.pc # "failed" =>
                 \A a \in SpecsWritten : hubSpecs'[a].ws = onboard.ws
<1>1. onboard.pc = "spec" /\ hubCollections' = hubCollections /\ stateFile' = stateFile
  BY SyncCases
<1>2. /\ HubOK(hubSpecs) /\ HubOK(hubCollections) /\ FileOK(hubSpecs, hubCollections, onboard.file)
      /\ onboard.ws \in CloudWorkspaces /\ DOMAIN onboard = OnboardFields
      /\ onboard.spec # NoId => \E e \in onboard.file.specs : e.key = SpecKey(In) /\ e.id = onboard.spec
      /\ In.scope # "full" /\ onboard.file.specs # {} => onboard.file.ws # NoId
      /\ onboard.file.ws = NoId \/ onboard.file.ws = onboard.ws
  BY <1>1 DEF OnboardInv, ReadOK, PlaceOK, SpecOK, Onboarding, Placed
<1>3. Kept(hubCollections, hubCollections') /\ HubOK(hubCollections')
  BY <1>1, <1>2 DEF Kept
<1>4. CASE /\ onboard.spec # NoId /\ hubSpecs' = [hubSpecs EXCEPT ![onboard.spec].text = In.doc]
           /\ onboard' = [onboard EXCEPT !.pc = "collections", !.unchanged = (hubSpecs' = hubSpecs)]
  <2> DEFINE same == hubSpecs' = hubSpecs
  <2>1. onboard' = [onboard EXCEPT !.pc = "collections", !.unchanged = same]
    BY <1>4
  <2>10. same \in BOOLEAN
    OBVIOUS
  <2> HIDE DEF same
  <2>2. /\ DOMAIN onboard' = OnboardFields /\ onboard'.pc = "collections" /\ onboard'.ids = onboard.ids
        /\ onboard'.input = onboard.input /\ onboard'.file = onboard.file /\ onboard'.before = onboard.before
        /\ onboard'.ws = onboard.ws /\ onboard'.persist = onboard.persist /\ onboard'.spec = onboard.spec
        /\ onboard'.unchanged = same /\ onboard'.verified = onboard.verified /\ onboard'.skipped = onboard.skipped
    BY <1>2, <2>1 DEF OnboardFields, IdleRun
  <2>3. PICK e \in onboard.file.specs : e.id = onboard.spec
    BY <1>2, <1>4
  <2>4. onboard.spec \in AssetIds /\ hubSpecs[onboard.spec].ws \in CloudWorkspaces
    BY <1>2, <2>3 DEF FileOK
  <2>5. /\ HubOK(hubSpecs') /\ Kept(hubSpecs, hubSpecs') /\ hubSpecs'[onboard.spec].ws = hubSpecs[onboard.spec].ws
        /\ \A b \in AssetIds : b # onboard.spec => hubSpecs'[b] = hubSpecs[b]
    <3>1. HubOK(hubSpecs) /\ hubSpecs' = WithText(hubSpecs, onboard.spec, In.doc)
      BY <1>2, <1>4 DEF WithText
    <3> QED
      BY <3>1, <2>4, NewText
  <2>6. SpecOK'
    BY <2>2, <2>3, <2>4, <2>5 DEF SpecOK
  <2>7. HeldOK' /\ TextsOK' /\ FlagsOK'
    BY <1>1, <2>2, <2>10 DEF OnboardInv, HeldOK, TextsOK, FlagsOK, Onboarding
  <2>8. OnboardInv'
    BY <1>1, <1>3, <2>2, <2>5, <2>6, <2>7, RunGoesOn DEF Placed
  <2>9. In.scope # "full" /\ ~Mixed(onboard.file) => hubSpecs'[onboard.spec].ws = onboard.ws
    BY <1>2, <2>3, <2>5 DEF Mixed
  <2> QED
    BY <2>5, <2>8, <2>9 DEF SpecsWritten
<1>5. CASE \E chosen \in AssetIds :
             /\ onboard.spec = NoId /\ onboard' = [onboard EXCEPT !.pc = "collections", !.spec = chosen]
             /\ \/ chosen \in Twins /\ hubSpecs' = hubSpecs
                \/ hubSpecs[chosen] = NoHubAsset /\ hubSpecs' = [hubSpecs EXCEPT ![chosen] = OwnSpec]
  <2>1. PICK chosen \in AssetIds :
             /\ onboard' = [onboard EXCEPT !.pc = "collections", !.spec = chosen]
             /\ \/ chosen \in Twins /\ hubSpecs' = hubSpecs
                \/ hubSpecs[chosen] = NoHubAsset /\ hubSpecs' = [hubSpecs EXCEPT ![chosen] = OwnSpec]
    BY <1>5
  <2>2. /\ DOMAIN onboard' = OnboardFields /\ onboard'.pc = "collections" /\ onboard'.ids = onboard.ids
        /\ onboard'.input = onboard.input /\ onboard'.file = onboard.file /\ onboard'.before = onboard.before
        /\ onboard'.ws = onboard.ws /\ onboard'.persist = onboard.persist /\ onboard'.spec = chosen
        /\ onboard'.unchanged = onboard.unchanged /\ onboard'.verified = onboard.verified
        /\ onboard'.skipped = onboard.skipped
    BY <1>2, <2>1 DEF OnboardFields, IdleRun
  <2>3. DOMAIN OwnSpec = AssetFields /\ OwnSpec.ws = onboard.ws
    BY DEF OwnSpec, AssetFields, NoHubAsset
  <2>4. /\ HubOK(hubSpecs') /\ Kept(hubSpecs, hubSpecs') /\ hubSpecs'[chosen].ws = onboard.ws
        /\ \A b \in AssetIds : b # chosen => hubSpecs'[b] = hubSpecs[b]
    <3>1. CASE chosen \in Twins /\ hubSpecs' = hubSpecs
      BY <1>2, <3>1 DEF Twins, Kept
    <3>2. CASE hubSpecs[chosen] = NoHubAsset /\ hubSpecs' = [hubSpecs EXCEPT ![chosen] = OwnSpec]
      <4> HIDE DEF OwnSpec
      <4>1. /\ HubOK(hubSpecs') /\ Kept(hubSpecs, hubSpecs') /\ hubSpecs'[chosen] = OwnSpec
            /\ \A b \in AssetIds : b # chosen => hubSpecs'[b] = hubSpecs[b]
        <5>1. HubOK(hubSpecs) /\ OwnSpec.ws \in CloudWorkspaces /\ DOMAIN OwnSpec = AssetFields
          BY <1>2, <2>3
        <5>2. hubSpecs[chosen] = NoHubAsset /\ hubSpecs' = WithAsset(hubSpecs, chosen, OwnSpec)
          BY <3>2 DEF WithAsset
        <5> DEFINE n == WithAsset(hubSpecs, chosen, OwnSpec)
        <5>3. /\ HubOK(n) /\ Kept(hubSpecs, n) /\ n[chosen] = OwnSpec
              /\ \A b \in AssetIds : b # chosen => n[b] = hubSpecs[b]
          BY <5>1, <5>2, NewAsset
        <5> HIDE DEF n
        <5> QED
          BY <5>2, <5>3 DEF n
      <4> QED
        BY <2>3, <4>1
    <3> QED
      BY <2>1, <3>1, <3>2
  <2>5. SpecOK'
    BY <1>2, <2>2, <2>4 DEF SpecOK
  <2>6. HeldOK' /\ TextsOK' /\ FlagsOK'
    BY <1>1, <2>2 DEF OnboardInv, HeldOK, TextsOK, FlagsOK, Onboarding
  <2>7. OnboardInv'
    BY <1>1, <1>3, <2>2, <2>4, <2>5, <2>6, RunGoesOn DEF Placed
  <2> QED
    BY <2>4, <2>7 DEF SpecsWritten
<1>6. CASE onboard' = [onboard EXCEPT !.pc = "failed"] /\ hubSpecs' = hubSpecs
  BY <1>1, <1>6, RunEndsHere DEF SpecsWritten
<1> QED
  BY <1>4, <1>5, <1>6, SyncCases

LEMMA SkipKeepsOnboarding == ASSUME OnboardInv, SkipCollections PROVE OnboardInv'
<1>1. /\ onboard.pc = "collections" /\ In.scope # "full" /\ onboard' = [onboard EXCEPT !.pc = "save"]
      /\ hubSpecs' = hubSpecs /\ hubCollections' = hubCollections /\ stateFile' = stateFile
  BY DEF SkipCollections
<1>2. /\ DOMAIN onboard' = OnboardFields /\ onboard'.pc = "save" /\ onboard'.ids = onboard.ids
      /\ onboard'.input = onboard.input /\ onboard'.file = onboard.file /\ onboard'.before = onboard.before
      /\ onboard'.ws = onboard.ws /\ onboard'.persist = onboard.persist /\ onboard'.spec = onboard.spec
      /\ onboard'.unchanged = onboard.unchanged /\ onboard'.verified = onboard.verified
      /\ onboard'.skipped = onboard.skipped
  BY <1>1 DEF OnboardInv, OnboardFields, IdleRun
<1>3. SpecOK' /\ HeldOK' /\ FlagsOK'
  BY <1>1, <1>2 DEF OnboardInv, SpecOK, HeldOK, FlagsOK, Synced, Onboarding
<1>4. TextsOK'
  BY <1>1, <1>2 DEF TextsOK, In
<1> QED
  BY <1>1, <1>2, <1>3, <1>4, RunLooks DEF Placed

LEMMA VerifyKeepsOnboarding == ASSUME OnboardInv, VerifyReceipts PROVE OnboardInv'
<1> DEFINE asked == onboard.unchanged /\ In.collMode = "version" /\ In.content # NoId
           same(unread) == \A r \in {q \in AssetRoles : onboard.ids[q] # NoId} \ unread :
                             hubCollections[onboard.ids[r]].text = Desired(r)
<1>1. /\ onboard.pc = "collections"
      /\ hubSpecs' = hubSpecs /\ hubCollections' = hubCollections /\ stateFile' = stateFile
  BY DEF VerifyReceipts
<1>2. PICK unread : onboard' = [onboard EXCEPT !.pc = "generate", !.verified = (asked => same(unread)),
                                               !.skipped = (unread # {})]
  BY DEF VerifyReceipts
<1> DEFINE seen == asked => same(unread)
           skipped == unread # {}
<1>3. /\ seen \in BOOLEAN /\ skipped \in BOOLEAN
      /\ skipped = FALSE => unread = {}
      /\ seen = TRUE /\ onboard.unchanged = TRUE /\ In.collMode = "version" /\ In.content # NoId => same(unread)
  OBVIOUS
<1>4. skipped = FALSE /\ seen = TRUE /\ onboard.unchanged = TRUE /\ In.collMode = "version" /\ In.content # NoId =>
        RoleTexts
  BY <1>3 DEF RoleTexts
<1> HIDE DEF seen, skipped
<1>5. /\ DOMAIN onboard' = OnboardFields /\ onboard'.pc = "generate" /\ onboard'.ids = onboard.ids
      /\ onboard'.input = onboard.input /\ onboard'.file = onboard.file /\ onboard'.before = onboard.before
      /\ onboard'.ws = onboard.ws /\ onboard'.persist = onboard.persist /\ onboard'.spec = onboard.spec
      /\ onboard'.unchanged = onboard.unchanged /\ onboard'.verified = seen /\ onboard'.skipped = skipped
  <2>1. onboard' = [onboard EXCEPT !.pc = "generate", !.verified = seen, !.skipped = skipped]
    BY <1>2 DEF seen, skipped
  <2> QED
    BY <2>1 DEF OnboardInv, OnboardFields, IdleRun
<1>6. SpecOK' /\ HeldOK' /\ FlagsOK'
  BY <1>1, <1>3, <1>5 DEF OnboardInv, SpecOK, HeldOK, FlagsOK, Synced, Onboarding
<1>7. TextsOK'
  BY <1>1, <1>4, <1>5 DEF TextsOK, RoleTexts, In, Desired
<1> QED
  BY <1>1, <1>5, <1>6, <1>7, RunLooks DEF Placed

\* What a run writes into the collections f of its roles.
Generated(f) ==
    [a \in AssetIds |->
        IF \E r \in AssetRoles : f[r] = a
        THEN LET r == CHOOSE r \in AssetRoles : f[r] = a IN
             [ws |-> IF onboard.ids[r] # NoId THEN hubCollections[a].ws ELSE onboard.ws,
              name |-> RoleName(r, AssetName(In, In.collMode)), key |-> <<>>, text |-> Desired(r)]
        ELSE hubCollections[a]]

GeneratedFor(f) ==
    /\ f \in [AssetRoles -> AssetIds] /\ \A r, q \in AssetRoles : r # q => f[r] # f[q]
    /\ \A r \in AssetRoles : IF onboard.ids[r] # NoId THEN f[r] = onboard.ids[r] /\ hubCollections[f[r]] # NoHubAsset
                             ELSE hubCollections[f[r]] = NoHubAsset

LEMMA GenerateCases ==
    ASSUME GenerateCollections
    PROVE  /\ onboard.pc = "generate" /\ hubSpecs' = hubSpecs /\ stateFile' = stateFile
           /\ \/ KeepsCollections /\ onboard' = [onboard EXCEPT !.pc = "save"] /\ hubCollections' = hubCollections
              \/ \E f : /\ GeneratedFor(f) /\ hubCollections' = Generated(f)
                        /\ onboard' = [onboard EXCEPT !.pc = "save", !.ids = f]
<1>1. onboard.pc = "generate" /\ hubSpecs' = hubSpecs /\ stateFile' = stateFile
  BY DEF GenerateCollections
<1>2. CASE KeepsCollections
  BY <1>1, <1>2 DEF GenerateCollections
<1>3. CASE ~ KeepsCollections
  <2>1. PICK f \in [AssetRoles -> AssetIds] :
              /\ \A r, q \in AssetRoles : r # q => f[r] # f[q]
              /\ \A r \in AssetRoles :
                    IF onboard.ids[r] # NoId THEN f[r] = onboard.ids[r] /\ hubCollections[f[r]] # NoHubAsset
                    ELSE hubCollections[f[r]] = NoHubAsset
                         /\ \A a \in AssetIds : hubCollections[a] = NoHubAsset => f[r] <= a \/ a \in {f[q] : q \in AssetRoles}
              /\ hubCollections' = Generated(f)
              /\ onboard' = [onboard EXCEPT !.pc = "save", !.ids = f]
    BY <1>3 DEF GenerateCollections, Generated
  <2>2. \A r \in AssetRoles : IF onboard.ids[r] # NoId THEN f[r] = onboard.ids[r] /\ hubCollections[f[r]] # NoHubAsset
                              ELSE hubCollections[f[r]] = NoHubAsset
    BY <2>1
  <2>3. GeneratedFor(f)
    BY <2>1, <2>2 DEF GeneratedFor
  <2> HIDE DEF Generated
  <2> QED
    BY <1>1, <2>1, <2>3
<1> QED
  BY <1>2, <1>3

\* Each role's collection gets the role's name and text; no other is touched.
LEMMA GeneratedAre ==
    ASSUME NEW f, GeneratedFor(f), HubOK(hubCollections), onboard.ws \in CloudWorkspaces
    PROVE  /\ HubOK(Generated(f)) /\ Kept(hubCollections, Generated(f))
           /\ \A r \in AssetRoles : /\ f[r] \in AssetIds /\ Generated(f)[f[r]].text = Desired(r)
                                    /\ Generated(f)[f[r]].name = RoleName(r, AssetName(In, In.collMode))
                                    /\ Generated(f)[f[r]].ws \in CloudWorkspaces
           /\ \A a \in AssetIds : (\A r \in AssetRoles : f[r] # a) => Generated(f)[a] = hubCollections[a]
<1> DEFINE g == Generated(f)
           New(r, a) == [ws |-> IF onboard.ids[r] # NoId THEN hubCollections[a].ws ELSE onboard.ws,
                         name |-> RoleName(r, AssetName(In, In.collMode)), key |-> <<>>, text |-> Desired(r)]
<1>1. g = [a \in AssetIds |-> g[a]]
  BY DEF Generated
<1>2. \A a \in AssetIds : (\A r \in AssetRoles : f[r] # a) => g[a] = hubCollections[a]
  BY DEF Generated
<1>3. \A r \in AssetRoles : f[r] \in AssetIds /\ g[f[r]] = New(r, f[r])
  <2> SUFFICES ASSUME NEW r \in AssetRoles PROVE f[r] \in AssetIds /\ g[f[r]] = New(r, f[r])
    OBVIOUS
  <2>1. f[r] \in AssetIds
    BY DEF GeneratedFor
  <2> DEFINE c == CHOOSE q \in AssetRoles : f[q] = f[r]
  <2>2. g[f[r]] = New(c, f[r])
    BY <2>1 DEF Generated
  <2>3. c \in AssetRoles /\ f[c] = f[r]
    OBVIOUS
  <2> HIDE DEF c
  <2>4. c = r
    BY <2>3 DEF GeneratedFor
  <2> HIDE DEF g, New
  <2> QED
    BY <2>1, <2>2, <2>4
<1>4. \A r, a : /\ DOMAIN New(r, a) = AssetFields /\ New(r, a).text = Desired(r)
                /\ New(r, a).name = RoleName(r, AssetName(In, In.collMode))
                /\ onboard.ids[r] # NoId => New(r, a).ws = hubCollections[a].ws
                /\ onboard.ids[r] = NoId => New(r, a).ws = onboard.ws
  BY DEF AssetFields, NoHubAsset
<1> HIDE DEF g, New
<1>5. \A r \in AssetRoles : /\ g[f[r]].ws \in CloudWorkspaces
                            /\ hubCollections[f[r]].ws \in CloudWorkspaces => g[f[r]].ws = hubCollections[f[r]].ws
  <2> SUFFICES ASSUME NEW r \in AssetRoles
               PROVE  /\ g[f[r]].ws \in CloudWorkspaces
                      /\ hubCollections[f[r]].ws \in CloudWorkspaces => g[f[r]].ws = hubCollections[f[r]].ws
    OBVIOUS
  <2>1. f[r] \in AssetIds /\ g[f[r]] = New(r, f[r])
    BY <1>3
  <2>2. CASE onboard.ids[r] # NoId
    <3>1. hubCollections[f[r]] # NoHubAsset
      BY <2>2 DEF GeneratedFor
    <3>2. hubCollections[f[r]].ws \in CloudWorkspaces
      BY <2>1, <3>1 DEF HubOK
    <3> QED
      BY <1>4, <2>1, <2>2, <3>2
  <2>3. CASE onboard.ids[r] = NoId
    <3>1. hubCollections[f[r]] = NoHubAsset
      BY <2>3 DEF GeneratedFor
    <3>2. hubCollections[f[r]].ws \notin CloudWorkspaces
      BY <3>1, Apart DEF NoHubAsset
    <3> QED
      BY <1>4, <2>1, <2>3, <3>2
  <2> QED
    BY <2>2, <2>3
<1>6. HubOK(g) /\ Kept(hubCollections, g)
  <2>1. \A a \in AssetIds : /\ DOMAIN g[a] = AssetFields /\ (g[a] = NoHubAsset \/ g[a].ws \in CloudWorkspaces)
                            /\ hubCollections[a].ws \in CloudWorkspaces => g[a].ws = hubCollections[a].ws
    <3> SUFFICES ASSUME NEW a \in AssetIds
                 PROVE  /\ DOMAIN g[a] = AssetFields /\ (g[a] = NoHubAsset \/ g[a].ws \in CloudWorkspaces)
                        /\ hubCollections[a].ws \in CloudWorkspaces => g[a].ws = hubCollections[a].ws
      OBVIOUS
    <3>1. CASE \E r \in AssetRoles : f[r] = a
      BY <1>3, <1>4, <1>5, <3>1
    <3>2. CASE \A r \in AssetRoles : f[r] # a
      BY <1>2, <3>2 DEF HubOK
    <3> QED
      BY <3>1, <3>2
  <2> QED
    BY <1>1, <2>1 DEF HubOK, Kept
<1>7. \A r \in AssetRoles : g[f[r]].text = Desired(r) /\ g[f[r]].name = RoleName(r, AssetName(In, In.collMode))
  BY <1>3, <1>4
<1> QED
  BY <1>2, <1>3, <1>5, <1>6, <1>7 DEF g

LEMMA GenerateKeepsOnboarding == ASSUME OnboardInv, GenerateCollections PROVE OnboardInv'
<1>1. onboard.pc = "generate" /\ hubSpecs' = hubSpecs /\ stateFile' = stateFile
  BY GenerateCases
<1>2. /\ HubOK(hubSpecs) /\ HubOK(hubCollections) /\ onboard.ws \in CloudWorkspaces /\ In \in RunInputs
      /\ onboard.unchanged \in BOOLEAN /\ onboard.verified \in BOOLEAN /\ DOMAIN onboard = OnboardFields
  BY <1>1 DEF OnboardInv, PlaceOK, FlagsOK, ReadOK, Placed, Onboarding
<1>3. CASE KeepsCollections /\ onboard' = [onboard EXCEPT !.pc = "save"] /\ hubCollections' = hubCollections
  <2>1. /\ DOMAIN onboard' = OnboardFields /\ onboard'.pc = "save" /\ onboard'.ids = onboard.ids
        /\ onboard'.input = onboard.input /\ onboard'.file = onboard.file /\ onboard'.before = onboard.before
        /\ onboard'.ws = onboard.ws /\ onboard'.persist = onboard.persist /\ onboard'.spec = onboard.spec
        /\ onboard'.unchanged = onboard.unchanged /\ onboard'.verified = onboard.verified
        /\ onboard'.skipped = onboard.skipped
    BY <1>2, <1>3 DEF OnboardFields, IdleRun
  <2>2. SpecOK' /\ HeldOK' /\ FlagsOK'
    BY <1>1, <1>3, <2>1 DEF OnboardInv, SpecOK, HeldOK, FlagsOK, Synced, Onboarding
  <2>3. onboard.unchanged = TRUE /\ onboard.verified = TRUE /\ (In.content # NoId => In.collMode = "version")
    BY <1>2, <1>3, IdentityAssumption DEF KeepsCollections
  <2>4. In.content # NoId /\ onboard.skipped = FALSE => RoleTexts
    BY <1>1, <2>3 DEF OnboardInv, TextsOK
  <2>5. TextsOK'
    BY <1>3, <2>1, <2>4 DEF TextsOK, RoleTexts, Desired, In
  <2> QED
    BY <1>1, <1>3, <2>1, <2>2, <2>5, RunLooks DEF Placed
<1>4. CASE \E f : /\ GeneratedFor(f) /\ hubCollections' = Generated(f)
                  /\ onboard' = [onboard EXCEPT !.pc = "save", !.ids = f]
  <2>1. PICK f : /\ GeneratedFor(f) /\ hubCollections' = Generated(f)
                 /\ onboard' = [onboard EXCEPT !.pc = "save", !.ids = f]
    BY <1>4
  <2>2. /\ DOMAIN onboard' = OnboardFields /\ onboard'.pc = "save" /\ onboard'.ids = f
        /\ onboard'.input = onboard.input /\ onboard'.file = onboard.file /\ onboard'.before = onboard.before
        /\ onboard'.ws = onboard.ws /\ onboard'.persist = onboard.persist /\ onboard'.spec = onboard.spec
        /\ onboard'.unchanged = onboard.unchanged /\ onboard'.verified = onboard.verified
        /\ onboard'.skipped = onboard.skipped
    BY <1>2, <2>1 DEF OnboardFields, IdleRun
  <2>3. /\ HubOK(hubCollections') /\ Kept(hubCollections, hubCollections')
        /\ \A r \in AssetRoles : /\ f[r] \in AssetIds /\ hubCollections'[f[r]].text = Desired(r)
                                 /\ hubCollections'[f[r]].ws \in CloudWorkspaces
    BY <1>2, <2>1, GeneratedAre
  <2>4. SpecOK' /\ FlagsOK'
    BY <1>1, <2>2 DEF OnboardInv, SpecOK, FlagsOK, Synced, Onboarding
  <2>5. HeldOK'
    BY <2>2, <2>3 DEF HeldOK
  <2>6. TextsOK'
    BY <2>2, <2>3 DEF TextsOK, RoleTexts, Desired, In
  <2>7. HubOK(hubSpecs') /\ Kept(hubSpecs, hubSpecs')
    BY <1>1, <1>2 DEF Kept
  <2> QED
    BY <1>1, <2>2, <2>3, <2>4, <2>5, <2>6, <2>7, RunGoesOn DEF Placed
<1> QED
  BY <1>3, <1>4, GenerateCases

LEMMA SaveKeepsOnboarding ==
    ASSUME OnboardInv, SaveOnboarding
    PROVE  OnboardInv' /\ TrackedInOnePlace /\ CollectionsCurrent
<1> DEFINE file == RecordCurrentResources(onboard.file)
<1>1. /\ onboard.pc = "save" /\ stateFile' = file /\ onboard' = [onboard EXCEPT !.pc = "saved"]
      /\ hubSpecs' = hubSpecs /\ hubCollections' = hubCollections
  BY DEF SaveOnboarding, EndRun
<1>2. /\ HubOK(hubSpecs) /\ HubOK(hubCollections) /\ DOMAIN onboard = OnboardFields
      /\ FileOK(hubSpecs, hubCollections, onboard.file)
      /\ onboard.spec \in AssetIds /\ hubSpecs[onboard.spec].ws \in CloudWorkspaces
      /\ hubSpecs[onboard.spec].ws = onboard.ws \/ \E e \in onboard.file.specs : e.id = onboard.spec
      /\ \A r \in AssetRoles : onboard.ids[r] # NoId =>
            onboard.ids[r] \in AssetIds /\ hubCollections[onboard.ids[r]].ws \in CloudWorkspaces
  BY <1>1 DEF OnboardInv, ReadOK, SpecOK, HeldOK, Onboarding, Synced
<1>3. /\ onboard.ws \in CloudWorkspaces
      /\ \/ /\ onboard.persist = TRUE /\ onboard.file.ws = onboard.ws
            /\ onboard.file.specs # {} => stateFile.specs = onboard.file.specs /\ stateFile.ws = onboard.ws
         \/ onboard.persist = FALSE /\ onboard.file.ws = NoId /\ onboard.ws = HomeWorkspace
  BY <1>1 DEF OnboardInv, PlaceOK, Placed
<1>4. /\ file.ws = onboard.file.ws /\ file.specs = Put(onboard.file.specs, SpecKey(In), onboard.spec)
      /\ DOMAIN file = {"ws", "specs", "collections"}
  <2>1. (IF onboard.persist THEN onboard.ws ELSE onboard.file.ws) = onboard.file.ws
    BY <1>3
  <2> QED
    BY <2>1 DEF RecordCurrentResources
<1>5. \A e \in file.specs : e \in onboard.file.specs \/ e.id = onboard.spec
  BY <1>4 DEF Put
<1>6. \A e \in file.collections :
        e \in onboard.file.collections \/ \E r \in AssetRoles : onboard.ids[r] # NoId /\ e.id = onboard.ids[r]
  BY DEF RecordCurrentResources
<1> HIDE DEF file
<1>7. FileOK(hubSpecs, hubCollections, file)
  <2>1. \A e \in file.specs : e.id \in AssetIds /\ hubSpecs[e.id].ws \in CloudWorkspaces
    BY <1>2, <1>5 DEF FileOK
  <2>2. \A e \in file.collections : e.id \in AssetIds /\ hubCollections[e.id].ws \in CloudWorkspaces
    BY <1>2, <1>6 DEF FileOK
  <2>3. file.ws = NoId => \A e \in file.specs : hubSpecs[e.id].ws = HomeWorkspace
    BY <1>2, <1>3, <1>4, <1>5, Apart DEF FileOK
  <2>4. file.ws \in CloudWorkspaces \cup {NoId}
    BY <1>2, <1>4 DEF FileOK
  <2> QED
    BY <1>4, <2>1, <2>2, <2>3, <2>4 DEF FileOK
<1>8. OnboardInv'
  <2>1. DOMAIN onboard' = OnboardFields /\ onboard'.pc = "saved"
    BY <1>1, <1>2 DEF OnboardFields, IdleRun
  <2>2. FileOK(hubSpecs, hubCollections, stateFile)'
    BY <1>1, <1>7
  <2>3. HubOK(hubSpecs)' /\ HubOK(hubCollections)'
    BY <1>1, <1>2
  <2> QED
    BY <2>1, <2>2, <2>3, AtRestKeeps DEF Onboarding
<1>9. TrackedInOnePlace
  <2> SUFFICES ASSUME ~Mixed(stateFile), Mixed(stateFile') PROVE FALSE
    BY DEF TrackedInOnePlace
  <2>1. PICK e \in file.specs : file.ws # NoId /\ hubSpecs[e.id].ws # file.ws
    BY <1>1 DEF Mixed
  <2>2. /\ file.ws = onboard.ws
        /\ onboard.file.specs # {} => stateFile.specs = onboard.file.specs /\ stateFile.ws = onboard.ws
    BY <1>3, <1>4, <2>1
  <2>3. \A d \in onboard.file.specs : hubSpecs[d.id].ws = onboard.ws
    BY <1>3, <2>2, Apart DEF Mixed
  <2> QED
    BY <1>2, <1>5, <2>1, <2>2, <2>3
<1>10. CollectionsCurrent
  <2>1. onboard.skipped \in BOOLEAN
    BY <1>1 DEF OnboardInv, FlagsOK, Onboarding
  <2>2. In.scope = "full" /\ In.content # NoId /\ onboard.skipped = FALSE => RoleTexts
    BY <1>1 DEF OnboardInv, TextsOK
  <2> QED
    BY <2>1, <2>2 DEF CollectionsCurrent, RoleTexts
<1> QED
  BY <1>8, <1>9, <1>10

LEMMA FailKeepsOnboarding == ASSUME OnboardInv, FailOnboarding PROVE OnboardInv'
<1>1. /\ onboard.pc \in {"spec", "collections", "generate", "save"} /\ stateFile' = stateFile
      /\ hubSpecs' = onboard.before.specs /\ hubCollections' = onboard.before.collections
      /\ onboard' = [onboard EXCEPT !.pc = "failed", !.faults = @ + 1]
  BY DEF FailOnboarding
<1>2. /\ HubOK(onboard.before.specs) /\ HubOK(onboard.before.collections)
      /\ FileOK(onboard.before.specs, onboard.before.collections, stateFile)
  BY <1>1 DEF OnboardInv, ReadOK, Onboarding
<1>3. DOMAIN onboard' = OnboardFields /\ onboard'.pc = "failed"
  BY <1>1 DEF OnboardInv, OnboardFields, IdleRun
<1>4. HubOK(hubSpecs)' /\ HubOK(hubCollections)' /\ FileOK(hubSpecs, hubCollections, stateFile)'
  BY <1>1, <1>2
<1> QED
  BY <1>3, <1>4, AtRestKeeps DEF Onboarding

\* A failed run leaves the ids of the file, and only the end of a run can leave
\* collections that are not current.
LEMMA OtherSteps ==
    ASSUME OnboardInv, IdentityNext
    PROVE  /\ FailureKeepsIds /\ (~SaveOnboarding => CollectionsCurrent)
           /\ ~PreflightOnboarding /\ ~SaveOnboarding => stateFile' = stateFile
<1>1. onboard.pc \in Onboarding =>
        onboard.before.file.specs = stateFile.specs /\ onboard.before.file.collections = stateFile.collections
  BY DEF OnboardInv, ReadOK
<1>2. CASE SaveOnboarding
  <2>1. onboard'.pc = "saved"
    BY <1>2 DEF OnboardInv, SaveOnboarding, EndRun, OnboardFields, IdleRun
  <2> QED
    BY <1>2, <2>1 DEF FailureKeepsIds
<1>3. CASE PreflightOnboarding
  <2>1. onboard.pc = "preflight"
    BY <1>3 DEF PreflightOnboarding
  <2>2. stateFile'.specs = stateFile.specs /\ stateFile'.collections = stateFile.collections
        /\ onboard'.before = onboard.before
    BY <1>3, PreflightKeepsOnboarding
  <2> QED
    BY <1>1, <1>3, <2>1, <2>2 DEF FailureKeepsIds, CollectionsCurrent, Onboarding
<1>4. CASE StartOnboarding
  <2>1. stateFile' = stateFile /\ onboard.pc \in {"idle", "saved", "failed"}
    BY <1>4 DEF StartOnboarding
  <2>2. onboard'.before.file = stateFile
    <3>1. PICK i \in RunInputs :
            LET scoped == IF i.scope = "full" THEN stateFile
                          ELSE ScopeToWorkspace(stateFile, SelectedWorkspace(i, stateFile))
            IN  onboard' = [IdleRun EXCEPT !.input = i, !.file = scoped, !.deferred = scoped # stateFile,
                              !.pc = IF NeedsLabel(i) /\ ReleaseLabel(i) = <<>> THEN "failed" ELSE "preflight",
                              !.before = [specs |-> hubSpecs, collections |-> hubCollections, file |-> stateFile],
                              !.runs = onboard.runs + 1, !.faults = onboard.faults]
      BY <1>4 DEF StartOnboarding
    <3> DEFINE before == [specs |-> hubSpecs, collections |-> hubCollections, file |-> stateFile]
    <3>2. onboard'.before = before
      BY <3>1 DEF IdleRun
    <3> QED
      BY <3>2
  <2> QED
    BY <1>4, <2>1, <2>2 DEF FailureKeepsIds, CollectionsCurrent, PreflightOnboarding, SaveOnboarding
<1>5. CASE ResolveCollections \/ SyncSpec \/ SkipCollections \/ VerifyReceipts \/ GenerateCollections \/ FailOnboarding
  <2>1. stateFile' = stateFile /\ onboard.pc \in Onboarding /\ DOMAIN onboard = OnboardFields
    BY <1>5 DEF OnboardInv, ResolveCollections, SyncSpec, SkipCollections, VerifyReceipts, GenerateCollections,
                FailOnboarding, Onboarding
  <2>2. onboard'.before = onboard.before /\ onboard'.pc # "saved"
    <3>1. CASE SyncSpec
      BY <2>1, <3>1, SyncCases DEF OnboardFields, IdleRun
    <3>2. CASE GenerateCollections
      BY <2>1, <3>2, GenerateCases DEF OnboardFields, IdleRun
    <3>3. CASE ResolveCollections \/ SkipCollections \/ VerifyReceipts \/ FailOnboarding
      BY <2>1, <3>3 DEF ResolveCollections, SkipCollections, VerifyReceipts, FailOnboarding, EndRun, OnboardFields,
                        IdleRun
    <3> QED
      BY <1>5, <3>1, <3>2, <3>3
  <2> QED
    BY <1>1, <2>1, <2>2 DEF FailureKeepsIds, CollectionsCurrent
<1> QED
  BY <1>2, <1>3, <1>4, <1>5 DEF IdentityNext

LEMMA OnboardStepKeeps ==
    ASSUME OnboardInv, IdentityNext
    PROVE  OnboardInv' /\ TrackedInOnePlace /\ FailureKeepsIds /\ CollectionsCurrent
<1>1. OnboardInv'
  BY StartKeepsOnboarding, PreflightKeepsOnboarding, ResolveKeepsOnboarding, SyncKeepsOnboarding,
     SkipKeepsOnboarding, VerifyKeepsOnboarding, GenerateKeepsOnboarding, SaveKeepsOnboarding,
     FailKeepsOnboarding DEF IdentityNext
<1>2. TrackedInOnePlace
  <2>1. CASE PreflightOnboarding
    BY <2>1, PreflightKeepsOnboarding
  <2>2. CASE SaveOnboarding
    BY <2>2, SaveKeepsOnboarding
  <2>3. CASE ~PreflightOnboarding /\ ~SaveOnboarding
    BY <2>3, OtherSteps DEF TrackedInOnePlace
  <2> QED
    BY <2>1, <2>2, <2>3
<1>3. FailureKeepsIds /\ CollectionsCurrent
  BY OtherSteps, SaveKeepsOnboarding
<1> QED
  BY <1>1, <1>2, <1>3

LEMMA OnboardStutter == ASSUME OnboardInv, UNCHANGED identityVars PROVE OnboardInv'
<1>1. hubSpecs' = hubSpecs /\ hubCollections' = hubCollections /\ stateFile' = stateFile /\ onboard' = onboard
  BY DEF identityVars
<1>2. ReadOK' /\ AsideOK' /\ PlaceOK'
  BY <1>1 DEF OnboardInv, ReadOK, AsideOK, PlaceOK, In
<1>3. SpecOK' /\ HeldOK' /\ TextsOK' /\ FlagsOK'
  BY <1>1 DEF OnboardInv, SpecOK, HeldOK, TextsOK, FlagsOK, RoleTexts, Desired, In, SpecKey, ReleaseLabel
<1> QED
  BY <1>1, <1>2, <1>3 DEF OnboardInv

\* Whatever the inputs and the links of the repository: the tracked file comes to
\* mix workspaces only when workspace-id or the link moves a full-scope run to
\* another workspace, a failed run leaves its ids, and a full-scope run that saves
\* leaves its collections with the document and the content of its inputs.
THEOREM OnboardingKeeps ==
    OnboardingSpec => [][TrackedInOnePlace /\ FailureKeepsIds /\ CollectionsCurrent]_identityVars
<1>1. IdentityInit => OnboardInv
  BY OnboardInitOK
<1>2. OnboardInv /\ [IdentityNext]_identityVars => OnboardInv'
  BY OnboardStepKeeps, OnboardStutter
<1>3. OnboardInv /\ [IdentityNext]_identityVars =>
        [TrackedInOnePlace /\ FailureKeepsIds /\ CollectionsCurrent]_identityVars
  BY OnboardStepKeeps
<1> QED
  BY <1>1, <1>2, <1>3, PTL DEF OnboardingSpec

\* The name of a collection of a run's baseline role.
CollectionsOf(i) == AssetName(i, i.collMode)
SpecNameOf(i) == AssetName(i, i.specMode)

\* Names tell the assets of runs apart: a specification's name is of one path and
\* release, the roles' names of two releases or projects differ, none is a legacy
\* baseline name, and a baseline that is given is one of the run's own.
NamesApart ==
    /\ \A i, j \in RunInputs : SpecNameOf(i) = SpecNameOf(j) => SpecKey(i) = SpecKey(j)
    /\ \A i, j \in RunInputs, r, q \in AssetRoles :
          RoleName(r, CollectionsOf(i)) = RoleName(q, CollectionsOf(j)) => CollectionsOf(i) = CollectionsOf(j)
    /\ \A i, j \in RunInputs, r \in AssetRoles : RoleName(r, CollectionsOf(i)) # Legacy(CollectionsOf(j))
    /\ \A i \in RunInputs : i.baseline # <<>> => \E r \in AssetRoles : i.baseline = RoleName(r, CollectionsOf(i))

\* A live specification has the name and the key of one run's inputs.
SpecsNamed(h) ==
    \A a \in AssetIds : h[a].ws \in CloudWorkspaces =>
        \E i \in RunInputs : h[a].name = SpecNameOf(i) /\ h[a].key = SpecKey(i)
\* The file tracks a specification under its own key, and a collection under a name
\* of the release that the collection is of.
FileNamed(h, c, file) ==
    /\ \A e \in file.specs : h[e.id].key = e.key
    /\ \A e \in file.collections :
          \E i \in RunInputs, r, q \in AssetRoles :
              e.key = RoleName(r, CollectionsOf(i)) /\ c[e.id].name = RoleName(q, CollectionsOf(i))
OwnIds ==
    \A r \in AssetRoles : onboard.ids[r] # NoId =>
        \E q \in AssetRoles : hubCollections[onboard.ids[r]].name = RoleName(q, CollectionsOf(In))
NamedInv ==
    /\ SpecsNamed(hubSpecs) /\ FileNamed(hubSpecs, hubCollections, stateFile)
    /\ onboard.pc \in Onboarding => /\ SpecsNamed(onboard.before.specs)
                                    /\ FileNamed(onboard.before.specs, onboard.before.collections, stateFile)
    /\ onboard.pc \in Synced => hubSpecs[onboard.spec].key = SpecKey(In)
    /\ onboard.pc \in {"spec", "collections", "generate", "save"} => OwnIds

\* A step that writes no asset and tracks no other one.
LEMMA NamesStay ==
    ASSUME NamedInv, hubSpecs' = hubSpecs, hubCollections' = hubCollections,
           stateFile'.specs = stateFile.specs, stateFile'.collections = stateFile.collections,
           onboard.pc \in Onboarding /\ onboard'.pc \in Onboarding => onboard'.before = onboard.before,
           onboard.pc \notin Onboarding /\ onboard'.pc \in Onboarding =>
              onboard'.before.specs = hubSpecs /\ onboard'.before.collections = hubCollections,
           onboard'.pc \in Synced => onboard.pc \in Synced /\ onboard'.spec = onboard.spec /\ onboard'.input = onboard.input,
           onboard'.pc \in {"spec", "collections", "generate", "save"} => OwnIds'
    PROVE  NamedInv'
<1>1. SpecsNamed(hubSpecs') /\ FileNamed(hubSpecs', hubCollections', stateFile')
  BY DEF NamedInv, FileNamed
<1>2. onboard'.pc \in Onboarding => /\ SpecsNamed(onboard'.before.specs)
                                    /\ FileNamed(onboard'.before.specs, onboard'.before.collections, stateFile')
  BY DEF NamedInv, FileNamed
<1>3. onboard'.pc \in Synced => hubSpecs'[onboard'.spec].key = SpecKey(In')
  BY DEF NamedInv, In
<1> QED
  BY <1>1, <1>2, <1>3 DEF NamedInv, SpecKey, ReleaseLabel

LEMMA SyncKeepsNames ==
    ASSUME NamesApart, OnboardInv, NamedInv, SyncSpec
    PROVE  NamedInv' /\ (onboard'.pc # "failed" => \A a \in SpecsWritten :
                            hubSpecs[a] # NoHubAsset => hubSpecs[a].key = SpecKey(In))
<1>1. onboard.pc = "spec" /\ hubCollections' = hubCollections /\ stateFile' = stateFile
  BY SyncCases
<1>2. /\ HubOK(hubSpecs) /\ FileOK(hubSpecs, hubCollections, onboard.file) /\ FileOK(hubSpecs, hubCollections, stateFile)
      /\ onboard.ws \in CloudWorkspaces /\ DOMAIN onboard = OnboardFields /\ In \in RunInputs
      /\ onboard.spec # NoId => \E e \in onboard.file.specs : e.key = SpecKey(In) /\ e.id = onboard.spec
      /\ onboard.file.specs \subseteq stateFile.specs
  BY <1>1 DEF OnboardInv, ReadOK, PlaceOK, SpecOK, Onboarding, Placed
<1>3. /\ SpecsNamed(hubSpecs) /\ FileNamed(hubSpecs, hubCollections, stateFile)
      /\ SpecsNamed(onboard.before.specs)
      /\ FileNamed(onboard.before.specs, onboard.before.collections, stateFile) /\ OwnIds
  BY <1>1 DEF NamedInv, Onboarding
\* It is enough to know which specification the run holds, and what it names.
<1>4. ASSUME onboard'.pc = "collections", onboard'.ids = onboard.ids, onboard'.input = onboard.input,
             onboard'.before = onboard.before, HubOK(hubSpecs'), onboard'.spec \in AssetIds,
             hubSpecs'[onboard'.spec].key = SpecKey(In),
             hubSpecs'[onboard'.spec].ws \in CloudWorkspaces =>
                 \E i \in RunInputs : hubSpecs'[onboard'.spec].name = SpecNameOf(i)
                                      /\ hubSpecs'[onboard'.spec].key = SpecKey(i),
             hubSpecs[onboard'.spec].ws \in CloudWorkspaces => hubSpecs[onboard'.spec].key = SpecKey(In),
             \A b \in AssetIds : b # onboard'.spec => hubSpecs'[b] = hubSpecs[b]
      PROVE  NamedInv' /\ \A a \in SpecsWritten : hubSpecs[a] # NoHubAsset => hubSpecs[a].key = SpecKey(In)
  <2>1. SpecsNamed(hubSpecs')
    BY <1>3, <1>4 DEF SpecsNamed
  <2>2. FileNamed(hubSpecs', hubCollections', stateFile')
    <3>1. \A e \in stateFile.specs : hubSpecs'[e.id].key = e.key
      BY <1>2, <1>3, <1>4 DEF FileNamed, FileOK
    <3> QED
      BY <1>1, <1>3, <3>1 DEF FileNamed
  <2>3. OwnIds'
    BY <1>1, <1>3, <1>4 DEF OwnIds, In
  <2>4. SpecsNamed(onboard'.before.specs)
        /\ FileNamed(onboard'.before.specs, onboard'.before.collections, stateFile')
    BY <1>1, <1>3, <1>4
  <2>5. hubSpecs'[onboard'.spec].key = SpecKey(In')
    BY <1>4 DEF In
  <2>6. NamedInv'
    BY <2>1, <2>2, <2>3, <2>4, <2>5 DEF NamedInv
  <2>7. \A a \in SpecsWritten : hubSpecs[a] # NoHubAsset => hubSpecs[a].key = SpecKey(In)
    BY <1>2, <1>4 DEF SpecsWritten, HubOK
  <2> QED
    BY <2>6, <2>7
<1>5. CASE /\ onboard.spec # NoId /\ hubSpecs' = [hubSpecs EXCEPT ![onboard.spec].text = In.doc]
           /\ onboard' = [onboard EXCEPT !.pc = "collections", !.unchanged = (hubSpecs' = hubSpecs)]
  <2> DEFINE same == hubSpecs' = hubSpecs
  <2>1. onboard' = [onboard EXCEPT !.pc = "collections", !.unchanged = same]
    BY <1>5
  <2> HIDE DEF same
  <2>2. /\ onboard'.pc = "collections" /\ onboard'.ids = onboard.ids /\ onboard'.input = onboard.input
        /\ onboard'.before = onboard.before /\ onboard'.spec = onboard.spec
    BY <1>2, <2>1 DEF OnboardFields, IdleRun
  <2>3. PICK e \in onboard.file.specs : e.key = SpecKey(In) /\ e.id = onboard.spec
    BY <1>2, <1>5
  <2>4. /\ onboard.spec \in AssetIds /\ hubSpecs[onboard.spec].ws \in CloudWorkspaces
        /\ hubSpecs[onboard.spec].key = SpecKey(In)
    BY <1>2, <1>3, <2>3 DEF FileOK, FileNamed
  <2>5. /\ HubOK(hubSpecs') /\ hubSpecs'[onboard.spec].ws = hubSpecs[onboard.spec].ws
        /\ hubSpecs'[onboard.spec].key = hubSpecs[onboard.spec].key
        /\ hubSpecs'[onboard.spec].name = hubSpecs[onboard.spec].name
        /\ \A b \in AssetIds : b # onboard.spec => hubSpecs'[b] = hubSpecs[b]
    <3>1. HubOK(hubSpecs) /\ hubSpecs' = WithText(hubSpecs, onboard.spec, In.doc)
      BY <1>2, <1>5 DEF WithText
    <3> QED
      BY <3>1, <2>4, NewText
  <2>6. \E i \in RunInputs : hubSpecs'[onboard.spec].name = SpecNameOf(i) /\ hubSpecs'[onboard.spec].key = SpecKey(i)
    BY <1>3, <2>4, <2>5 DEF SpecsNamed
  <2> QED
    BY <1>4, <2>2, <2>4, <2>5, <2>6
<1>6. CASE \E chosen \in AssetIds :
             /\ onboard.spec = NoId /\ onboard' = [onboard EXCEPT !.pc = "collections", !.spec = chosen]
             /\ \/ chosen \in Twins /\ hubSpecs' = hubSpecs
                \/ hubSpecs[chosen] = NoHubAsset /\ hubSpecs' = [hubSpecs EXCEPT ![chosen] = OwnSpec]
  <2>1. PICK chosen \in AssetIds :
             /\ onboard' = [onboard EXCEPT !.pc = "collections", !.spec = chosen]
             /\ \/ chosen \in Twins /\ hubSpecs' = hubSpecs
                \/ hubSpecs[chosen] = NoHubAsset /\ hubSpecs' = [hubSpecs EXCEPT ![chosen] = OwnSpec]
    BY <1>6
  <2>2. /\ onboard'.pc = "collections" /\ onboard'.ids = onboard.ids /\ onboard'.input = onboard.input
        /\ onboard'.before = onboard.before /\ onboard'.spec = chosen
    BY <1>2, <2>1 DEF OnboardFields, IdleRun
  <2>3. CASE chosen \in Twins /\ hubSpecs' = hubSpecs
    <3>1. hubSpecs[chosen].ws \in CloudWorkspaces /\ hubSpecs[chosen].name = SpecNameOf(In)
      BY <1>2, <2>3 DEF Twins, SpecNameOf
    <3>2. PICK i \in RunInputs : hubSpecs[chosen].name = SpecNameOf(i) /\ hubSpecs[chosen].key = SpecKey(i)
      BY <1>3, <3>1 DEF SpecsNamed
    <3>3. hubSpecs[chosen].key = SpecKey(In)
      BY <1>2, <3>1, <3>2 DEF NamesApart
    <3> QED
      BY <1>2, <1>4, <2>2, <2>3, <3>2, <3>3
  <2>4. CASE hubSpecs[chosen] = NoHubAsset /\ hubSpecs' = [hubSpecs EXCEPT ![chosen] = OwnSpec]
    <3>1. /\ DOMAIN OwnSpec = AssetFields /\ OwnSpec.ws = onboard.ws
          /\ OwnSpec.name = SpecNameOf(In) /\ OwnSpec.key = SpecKey(In)
      BY DEF OwnSpec, AssetFields, NoHubAsset, SpecNameOf
    <3> HIDE DEF OwnSpec
    <3>2. hubSpecs' = WithAsset(hubSpecs, chosen, OwnSpec) /\ hubSpecs[chosen] = NoHubAsset
      BY <2>4 DEF WithAsset
    <3> DEFINE n == WithAsset(hubSpecs, chosen, OwnSpec)
    <3>3. HubOK(n) /\ n[chosen] = OwnSpec /\ \A b \in AssetIds : b # chosen => n[b] = hubSpecs[b]
      BY <1>2, <3>1, <3>2, NewAsset
    <3> HIDE DEF n
    <3>4. hubSpecs' = n
      BY <3>2 DEF n
    <3>5. ~ (hubSpecs[chosen].ws \in CloudWorkspaces)
      BY <3>2, Apart DEF NoHubAsset
    <3> QED
      BY <1>2, <1>4, <2>2, <3>1, <3>3, <3>4, <3>5
  <2> QED
    BY <2>1, <2>3, <2>4
<1>7. CASE onboard' = [onboard EXCEPT !.pc = "failed"] /\ hubSpecs' = hubSpecs
  <2>1. onboard'.pc = "failed"
    BY <1>2, <1>7 DEF OnboardFields, IdleRun
  <2> QED
    BY <1>1, <1>7, <2>1, NamesStay DEF Onboarding, Synced
<1> QED
  BY <1>5, <1>6, <1>7, SyncCases

LEMMA GenerateKeepsNames ==
    ASSUME NamesApart, OnboardInv, NamedInv, GenerateCollections
    PROVE  /\ NamedInv'
           /\ \A a \in CollectionsWritten : hubCollections[a] # NoHubAsset =>
                 \E r \in AssetRoles : hubCollections[a].name = RoleName(r, CollectionsOf(In))
<1>1. onboard.pc = "generate" /\ hubSpecs' = hubSpecs /\ stateFile' = stateFile
  BY GenerateCases
<1>2. /\ HubOK(hubCollections) /\ FileOK(hubSpecs, hubCollections, stateFile)
      /\ onboard.ws \in CloudWorkspaces /\ DOMAIN onboard = OnboardFields /\ In \in RunInputs
  BY <1>1 DEF OnboardInv, ReadOK, PlaceOK, Onboarding, Placed
<1>3. /\ SpecsNamed(hubSpecs) /\ FileNamed(hubSpecs, hubCollections, stateFile)
      /\ SpecsNamed(onboard.before.specs)
      /\ FileNamed(onboard.before.specs, onboard.before.collections, stateFile) /\ OwnIds
      /\ hubSpecs[onboard.spec].key = SpecKey(In)
  BY <1>1 DEF NamedInv, Onboarding, Synced
<1>4. CASE KeepsCollections /\ onboard' = [onboard EXCEPT !.pc = "save"] /\ hubCollections' = hubCollections
  <2>1. /\ onboard'.pc = "save" /\ onboard'.ids = onboard.ids /\ onboard'.input = onboard.input
        /\ onboard'.before = onboard.before /\ onboard'.spec = onboard.spec
    BY <1>2, <1>4 DEF OnboardFields, IdleRun
  <2>2. OwnIds'
    BY <1>3, <1>4, <2>1 DEF OwnIds, In
  <2> QED
    BY <1>1, <1>4, <2>1, <2>2, NamesStay DEF CollectionsWritten, Onboarding, Synced
<1>5. CASE \E f : /\ GeneratedFor(f) /\ hubCollections' = Generated(f)
                  /\ onboard' = [onboard EXCEPT !.pc = "save", !.ids = f]
  <2>1. PICK f : /\ GeneratedFor(f) /\ hubCollections' = Generated(f)
                 /\ onboard' = [onboard EXCEPT !.pc = "save", !.ids = f]
    BY <1>5
  <2>2. /\ onboard'.pc = "save" /\ onboard'.ids = f /\ onboard'.input = onboard.input
        /\ onboard'.before = onboard.before /\ onboard'.spec = onboard.spec
    BY <1>2, <2>1 DEF OnboardFields, IdleRun
  <2>3. /\ \A r \in AssetRoles : /\ f[r] \in AssetIds
                                 /\ hubCollections'[f[r]].name = RoleName(r, CollectionsOf(In))
        /\ \A a \in AssetIds : (\A r \in AssetRoles : f[r] # a) => hubCollections'[a] = hubCollections[a]
    BY <1>2, <2>1, GeneratedAre DEF CollectionsOf
  <2>4. \A r \in AssetRoles : hubCollections[f[r]] # NoHubAsset =>
          \E q \in AssetRoles : hubCollections[f[r]].name = RoleName(q, CollectionsOf(In))
    <3> SUFFICES ASSUME NEW r \in AssetRoles, hubCollections[f[r]] # NoHubAsset
                 PROVE  \E q \in AssetRoles : hubCollections[f[r]].name = RoleName(q, CollectionsOf(In))
      OBVIOUS
    <3>1. onboard.ids[r] # NoId /\ f[r] = onboard.ids[r]
      BY <2>1 DEF GeneratedFor
    <3> QED
      BY <1>3, <3>1 DEF OwnIds
  <2>5. FileNamed(hubSpecs', hubCollections', stateFile')
    <3>1. ASSUME NEW e \in stateFile.collections
          PROVE  \E i \in RunInputs, r, q \in AssetRoles :
                    e.key = RoleName(r, CollectionsOf(i)) /\ hubCollections'[e.id].name = RoleName(q, CollectionsOf(i))
      <4>1. PICK i \in RunInputs, r, q \in AssetRoles :
               e.key = RoleName(r, CollectionsOf(i)) /\ hubCollections[e.id].name = RoleName(q, CollectionsOf(i))
        BY <1>3 DEF FileNamed
      <4>2. e.id \in AssetIds /\ hubCollections[e.id] # NoHubAsset
        BY <1>2, Apart DEF FileOK, NoHubAsset
      <4>3. CASE \E p \in AssetRoles : f[p] = e.id
        <5>1. PICK p \in AssetRoles : f[p] = e.id
          BY <4>3
        <5>2. PICK s \in AssetRoles : hubCollections[e.id].name = RoleName(s, CollectionsOf(In))
          BY <2>4, <4>2, <5>1
        <5>3. CollectionsOf(i) = CollectionsOf(In)
          BY <1>2, <4>1, <5>2 DEF NamesApart
        <5>4. hubCollections'[e.id].name = RoleName(p, CollectionsOf(i))
          BY <2>3, <5>1, <5>3
        <5> QED
          BY <4>1, <5>4
      <4>4. CASE \A p \in AssetRoles : f[p] # e.id
        BY <2>3, <4>1, <4>2, <4>4
      <4> QED
        BY <4>3, <4>4
    <3> QED
      BY <1>1, <1>3, <3>1 DEF FileNamed
  <2>6. OwnIds'
    BY <2>2, <2>3 DEF OwnIds, In
  <2>7. SpecsNamed(hubSpecs') /\ SpecsNamed(onboard'.before.specs)
        /\ FileNamed(onboard'.before.specs, onboard'.before.collections, stateFile')
        /\ hubSpecs'[onboard'.spec].key = SpecKey(In')
    BY <1>1, <1>3, <2>2 DEF In
  <2>8. NamedInv'
    BY <2>5, <2>6, <2>7 DEF NamedInv
  <2>9. \A a \in CollectionsWritten : hubCollections[a] # NoHubAsset => \E r \in AssetRoles : f[r] = a
    BY <2>3 DEF CollectionsWritten
  <2> QED
    BY <2>4, <2>8, <2>9
<1> QED
  BY <1>4, <1>5, GenerateCases

LEMMA ResolveKeepsNames == ASSUME NamesApart, OnboardInv, NamedInv, ResolveCollections PROVE NamedInv'
<1> DEFINE idOf(r) == IF In.scope # "full" THEN NoId
                      ELSE IF r = "baseline" /\ In.baseline # <<>> THEN Named(In.baseline)
                      ELSE Lookup(onboard.file.collections, Directories(r))
           ids == [r \in AssetRoles |-> idOf(r)]
<1>1. /\ onboard.pc = "resolve" /\ hubSpecs' = hubSpecs /\ hubCollections' = hubCollections /\ stateFile' = stateFile
      /\ \/ onboard' = [onboard EXCEPT !.pc = "failed"]
         \/ onboard' = [onboard EXCEPT !.pc = "spec", !.ids = ids]
  BY DEF ResolveCollections, EndRun
<1>2. /\ HubOK(hubCollections) /\ DOMAIN onboard = OnboardFields /\ In \in RunInputs
      /\ onboard.file.collections \subseteq stateFile.collections
      /\ FileNamed(hubSpecs, hubCollections, stateFile)
  BY <1>1 DEF OnboardInv, NamedInv, ReadOK, Onboarding
<1>3. ASSUME NEW r \in AssetRoles, idOf(r) # NoId
      PROVE  \E q \in AssetRoles : hubCollections[idOf(r)].name = RoleName(q, CollectionsOf(In))
  <2>1. CASE r = "baseline" /\ In.baseline # <<>>
    <3>1. idOf(r) = Named(In.baseline)
      BY <1>3, <2>1
    <3>2. idOf(r) # NoId
      BY <1>3
    <3> HIDE DEF idOf
    <3>3. hubCollections[idOf(r)].name = In.baseline
      BY <1>2, <2>1, <3>1, <3>2, NamedIsLive
    <3> QED
      BY <1>2, <2>1, <3>3 DEF NamesApart
  <2>2. CASE ~ (r = "baseline" /\ In.baseline # <<>>)
    <3>1. idOf(r) = Lookup(onboard.file.collections, Directories(r)) /\ idOf(r) # NoId
      BY <1>3, <2>2
    <3> HIDE DEF idOf
    <3>2. PICK e \in onboard.file.collections : e.key \in Directories(r) /\ e.id = idOf(r)
      BY <3>1, LookupFinds
    <3>3. e.key = RoleName(r, CollectionsOf(In)) \/ e.key = Legacy(CollectionsOf(In))
      BY <3>2 DEF Directories, CollectionsOf
    <3>4. PICK i \in RunInputs, p, q \in AssetRoles :
             e.key = RoleName(p, CollectionsOf(i)) /\ hubCollections[e.id].name = RoleName(q, CollectionsOf(i))
      BY <1>2 DEF FileNamed
    <3>5. e.key = RoleName(r, CollectionsOf(In))
      BY <1>2, <3>3, <3>4 DEF NamesApart
    <3>6. CollectionsOf(i) = CollectionsOf(In)
      BY <1>2, <3>4, <3>5 DEF NamesApart
    <3> QED
      BY <3>2, <3>4, <3>6
  <2> QED
    BY <2>1, <2>2
<1>4. \A r \in AssetRoles : ids[r] = idOf(r)
  OBVIOUS
<1>5. \A r \in AssetRoles : ids[r] # NoId =>
        \E q \in AssetRoles : hubCollections[ids[r]].name = RoleName(q, CollectionsOf(In))
  BY <1>3, <1>4
<1> HIDE DEF ids, idOf
<1>6. \/ onboard'.pc = "failed"
      \/ onboard'.pc = "spec" /\ onboard'.ids = ids /\ onboard'.input = onboard.input /\ onboard'.before = onboard.before
  BY <1>1, <1>2 DEF OnboardFields, IdleRun
<1>7. onboard'.pc = "spec" => OwnIds'
  BY <1>1, <1>5, <1>6 DEF OwnIds, In
<1> QED
  BY <1>1, <1>6, <1>7, NamesStay DEF Onboarding, Synced

LEMMA SaveKeepsNames == ASSUME NamedInv, OnboardInv, SaveOnboarding PROVE NamedInv'
<1> DEFINE file == RecordCurrentResources(onboard.file)
<1>1. /\ onboard.pc = "save" /\ stateFile' = file /\ onboard' = [onboard EXCEPT !.pc = "saved"]
      /\ hubSpecs' = hubSpecs /\ hubCollections' = hubCollections
  BY DEF SaveOnboarding, EndRun
<1>2. /\ In \in RunInputs /\ onboard.file.specs \subseteq stateFile.specs
      /\ onboard.file.collections \subseteq stateFile.collections
  BY <1>1 DEF OnboardInv, ReadOK, Onboarding
<1>3. /\ SpecsNamed(hubSpecs) /\ FileNamed(hubSpecs, hubCollections, stateFile) /\ OwnIds
      /\ hubSpecs[onboard.spec].key = SpecKey(In)
  BY <1>1 DEF NamedInv, Synced
<1>4. onboard'.pc = "saved"
  BY <1>1 DEF OnboardInv, OnboardFields, IdleRun
<1>5. \A e \in file.specs : e \in onboard.file.specs \/ (e.key = SpecKey(In) /\ e.id = onboard.spec)
  BY DEF RecordCurrentResources, Put
<1>6. \A e \in file.collections :
        \/ e \in onboard.file.collections
        \/ \E r \in AssetRoles : /\ onboard.ids[r] # NoId /\ e.id = onboard.ids[r]
                                 /\ e.key = RoleName(r, CollectionsOf(In))
  BY DEF RecordCurrentResources, CollectionsOf
<1> HIDE DEF file
<1>7. \A e \in file.specs : hubSpecs[e.id].key = e.key
  BY <1>2, <1>3, <1>5 DEF FileNamed
<1>8. \A e \in file.collections :
        \E i \in RunInputs, r, q \in AssetRoles :
            e.key = RoleName(r, CollectionsOf(i)) /\ hubCollections[e.id].name = RoleName(q, CollectionsOf(i))
  BY <1>2, <1>3, <1>6 DEF FileNamed, OwnIds
<1>9. FileNamed(hubSpecs', hubCollections', stateFile')
  BY <1>1, <1>7, <1>8 DEF FileNamed
<1>10. SpecsNamed(hubSpecs')
  BY <1>1, <1>3
<1> QED
  BY <1>4, <1>9, <1>10 DEF NamedInv, Onboarding, Synced

LEMMA FailKeepsNames == ASSUME NamedInv, OnboardInv, FailOnboarding PROVE NamedInv'
<1>1. /\ onboard.pc \in Onboarding /\ stateFile' = stateFile
      /\ hubSpecs' = onboard.before.specs /\ hubCollections' = onboard.before.collections
      /\ onboard' = [onboard EXCEPT !.pc = "failed", !.faults = @ + 1]
  BY DEF FailOnboarding, Onboarding
<1>2. onboard'.pc = "failed"
  BY <1>1 DEF OnboardInv, OnboardFields, IdleRun
<1>3. SpecsNamed(hubSpecs') /\ FileNamed(hubSpecs', hubCollections', stateFile')
  BY <1>1 DEF NamedInv
<1> QED
  BY <1>2, <1>3 DEF NamedInv, Onboarding, Synced

LEMMA StartKeepsNames == ASSUME NamedInv, OnboardInv, StartOnboarding PROVE NamedInv'
<1>1. /\ onboard.pc \in {"idle", "saved", "failed"}
      /\ hubSpecs' = hubSpecs /\ hubCollections' = hubCollections /\ stateFile' = stateFile
  BY DEF StartOnboarding
<1>2. PICK i \in RunInputs :
        LET scoped == IF i.scope = "full" THEN stateFile
                      ELSE ScopeToWorkspace(stateFile, SelectedWorkspace(i, stateFile))
        IN  onboard' = [IdleRun EXCEPT !.input = i, !.file = scoped, !.deferred = scoped # stateFile,
                          !.pc = IF NeedsLabel(i) /\ ReleaseLabel(i) = <<>> THEN "failed" ELSE "preflight",
                          !.before = [specs |-> hubSpecs, collections |-> hubCollections, file |-> stateFile],
                          !.runs = onboard.runs + 1, !.faults = onboard.faults]
  BY DEF StartOnboarding
<1> DEFINE before == [specs |-> hubSpecs, collections |-> hubCollections, file |-> stateFile]
           pc == IF NeedsLabel(i) /\ ReleaseLabel(i) = <<>> THEN "failed" ELSE "preflight"
<1>3. onboard'.before = before /\ onboard'.pc = pc
  BY <1>2 DEF IdleRun
<1>4. before.specs = hubSpecs /\ before.collections = hubCollections /\ pc \in {"failed", "preflight"}
  OBVIOUS
<1> HIDE DEF before, pc
<1> QED
  BY <1>1, <1>3, <1>4, NamesStay DEF Onboarding, Synced

LEMMA LooksKeepNames ==
    ASSUME NamedInv, OnboardInv, PreflightOnboarding \/ SkipCollections \/ VerifyReceipts
    PROVE  NamedInv'
<1>0. DOMAIN onboard = OnboardFields
  BY DEF OnboardInv
<1>1. CASE PreflightOnboarding
  <2>1. /\ onboard.pc = "preflight" /\ hubSpecs' = hubSpecs /\ hubCollections' = hubCollections
        /\ onboard'.pc \in {"failed", "resolve"}
    BY <1>0, <1>1 DEF PreflightOnboarding, EndRun, OnboardFields, IdleRun
  <2>2. /\ stateFile'.specs = stateFile.specs /\ stateFile'.collections = stateFile.collections
        /\ onboard'.before = onboard.before
    BY <1>1, PreflightKeepsOnboarding
  <2> QED
    BY <2>1, <2>2, NamesStay DEF Onboarding, Synced
<1>2. CASE SkipCollections \/ VerifyReceipts
  <2>1. /\ onboard.pc = "collections" /\ onboard'.pc \in {"generate", "save"}
        /\ hubSpecs' = hubSpecs /\ hubCollections' = hubCollections /\ stateFile' = stateFile
        /\ onboard'.before = onboard.before /\ onboard'.spec = onboard.spec /\ onboard'.ids = onboard.ids
        /\ onboard'.input = onboard.input
    BY <1>0, <1>2 DEF SkipCollections, VerifyReceipts, OnboardFields, IdleRun
  <2>2. OwnIds'
    BY <2>1 DEF NamedInv, OwnIds, In
  <2> QED
    BY <2>1, <2>2, NamesStay DEF Onboarding, Synced
<1> QED
  BY <1>1, <1>2

LEMMA NamesStepKeeps ==
    ASSUME NamesApart, OnboardInv, NamedInv, [IdentityNext]_identityVars
    PROVE  NamedInv' /\ (IdentityNext => OwnAssetsOnly)
<1>1. CASE SyncSpec
  <2>1. /\ NamedInv'
        /\ onboard'.pc # "failed" => \A a \in SpecsWritten : hubSpecs[a] # NoHubAsset => hubSpecs[a].key = SpecKey(In)
        /\ In.scope # "full" /\ ~Mixed(onboard.file) /\ onboard'.pc # "failed" =>
              \A a \in SpecsWritten : hubSpecs'[a].ws = onboard.ws
    BY <1>1, SyncKeepsNames, SyncKeepsOnboarding
  <2>2. CollectionsWritten = {}
    BY <1>1, SyncCases DEF CollectionsWritten
  <2> QED
    BY <2>1, <2>2 DEF OwnAssetsOnly
<1>2. CASE GenerateCollections
  <2>1. /\ NamedInv'
        /\ \A a \in CollectionsWritten : hubCollections[a] # NoHubAsset =>
              \E r \in AssetRoles : hubCollections[a].name = RoleName(r, AssetName(In, In.collMode))
    BY <1>2, GenerateKeepsNames DEF CollectionsOf
  <2>2. SpecsWritten = {}
    BY <1>2, GenerateCases DEF SpecsWritten
  <2> QED
    BY <2>1, <2>2 DEF OwnAssetsOnly
<1>3. CASE FailOnboarding
  <2>1. onboard'.pc = "failed"
    BY <1>3 DEF FailOnboarding, OnboardInv, OnboardFields, IdleRun
  <2> QED
    BY <1>3, <2>1, FailKeepsNames DEF OwnAssetsOnly
<1>4. CASE StartOnboarding \/ PreflightOnboarding \/ ResolveCollections \/ SkipCollections \/ VerifyReceipts
           \/ SaveOnboarding
  <2>1. onboard.pc \notin {"spec", "generate"}
    BY <1>4 DEF StartOnboarding, PreflightOnboarding, ResolveCollections, SkipCollections, VerifyReceipts,
                SaveOnboarding
  <2>2. NamedInv'
    BY <1>4, StartKeepsNames, LooksKeepNames, ResolveKeepsNames, SaveKeepsNames
  <2> QED
    BY <2>1, <2>2 DEF OwnAssetsOnly
<1>5. CASE UNCHANGED identityVars
  <2>1. hubSpecs' = hubSpecs /\ hubCollections' = hubCollections /\ stateFile' = stateFile /\ onboard' = onboard
    BY <1>5 DEF identityVars
  <2>2. OwnIds <=> OwnIds'
    BY <2>1 DEF OwnIds, In
  <2>3. NamedInv'
    BY <2>1, <2>2, NamesStay DEF NamedInv, Onboarding
  <2>4. OwnAssetsOnly
    BY <2>1 DEF OwnAssetsOnly, SpecsWritten, CollectionsWritten
  <2> QED
    BY <2>3, <2>4
<1> QED
  BY <1>1, <1>2, <1>3, <1>4, <1>5 DEF IdentityNext

LEMMA NamedInitOK == ASSUME IdentityInit PROVE NamedInv
<1>1. onboard.pc = "idle"
  BY DEF IdentityInit, IdleRun
<1>2. \A a \in AssetIds : hubSpecs[a].ws \notin CloudWorkspaces
  BY Apart DEF IdentityInit, NoHubAsset
<1>3. stateFile.specs = {} /\ stateFile.collections = {}
  BY DEF IdentityInit, NoTrackedState
<1> QED
  BY <1>1, <1>2, <1>3 DEF NamedInv, SpecsNamed, FileNamed, Onboarding, Synced

\* As long as names tell the assets of runs apart: whatever runs with other
\* releases, scopes, workspaces, links and content came before it, a run works on
\* its own assets (index.ts, createResourcesState to recordCurrentBootstrapResources),
\* and what OnboardingKeeps says of the tracked file holds.
THEOREM IdentitySafe == NamesApart /\ OnboardingSpec => IdentityIsSafe
<1>1. IdentityInit => OnboardInv /\ NamedInv
  BY OnboardInitOK, NamedInitOK
<1>2. NamesApart /\ OnboardInv /\ NamedInv /\ [IdentityNext]_identityVars => OnboardInv' /\ NamedInv'
  BY OnboardStepKeeps, OnboardStutter, NamesStepKeeps
<1>3. NamesApart /\ OnboardInv /\ NamedInv /\ [IdentityNext]_identityVars => [IdentityStep]_identityVars
  BY OnboardStepKeeps, NamesStepKeeps DEF IdentityStep
<1>4. CASE NamesApart
  BY <1>1, <1>2, <1>3, <1>4, PTL DEF OnboardingSpec, IdentityIsSafe
<1> QED
  BY <1>4

=============================================================================
