----------------------------- MODULE Workspaces -----------------------------
(***************************************************************************)
(* provisionWorkspace (index.ts), chooseCanonicalWorkspace                 *)
(* (workspace-selection.ts) and createWorkspace (gateway client): several  *)
(* runs select or create the workspace of one name, in an account whose    *)
(* other workspaces and repository links they share.                       *)
(***************************************************************************)
EXTENDS Integers, FiniteSets

CONSTANTS
    Provisioners,   \* concurrent runs
    WorkspaceIds,   \* ordered as numbers
    PriorIds,       \* those that may exist at first
    Urls, NoUrl,    \* spellings of repository URLs
    RepositoryOf,   \* normalizeGitRepoUrl
    Url,            \* [Provisioners -> Urls]
    Provisions,     \* what a run may have got: a repository URL, a team id, the team of its session
    MaxProvFaults   \* bound on failing calls

ASSUME WorkspaceAssumption ==
    /\ IsFiniteSet(WorkspaceIds) /\ WorkspaceIds \subseteq Nat \ {0}
    /\ PriorIds \subseteq WorkspaceIds
    /\ NoUrl \notin Urls /\ Url \in [Provisioners -> Urls]
    /\ "before" \notin Provisioners
    /\ Provisions \subseteq [repo : BOOLEAN, team : BOOLEAN, session : BOOLEAN]
    /\ \A p \in Provisions : p.session => p.team \* a session's team is the team id of a run without the input
    /\ MaxProvFaults \in Nat

VARIABLES
    ws,         \* the workspaces of the one name, and their repository links
    squads,     \* sub-teams of the account; 0: it is not in org mode
    granted,    \* <<run, workspace, role>>: what a run shared of a workspace
    provided,   \* what each run has got
    prov,       \* the runs
    provFaults

workspaceVars == <<ws, squads, granted, provided, prov, provFaults>>

\* A hidden workspace is one that these credentials cannot view.
Visibilities == {"none", "personal", "team", "hidden", "deleted"}
Workspace == [vis : Visibilities, link : Urls \cup {NoUrl},
              by : Provisioners \cup {"before"}]
Sources == {"none", "explicit", "probe", "linked_match", "name_match", "create", "reconciled"}
ProvStages == {"probe", "find", "look", "teams", "post", "recover", "promote", "verify",
               "cleanup", "reuse", "grant", "done", "failed"}
ProvState ==
    [pc : ProvStages, id : WorkspaceIds \cup {0}, source : Sources,
     seen : SUBSET WorkspaceIds,
     squad : BOOLEAN,       \* workspaceTeamId is known
     lost : BOOLEAN]        \* a create or a delete of its own went unanswered or failed

\* The group named by the input, the property of the repository or the mapping
\* of the domain; the requester, found by e-mail in the team; the listed admins.
Roles == {"governance", "requester", "admins"}

WorkspaceTypeOK ==
    /\ ws \in [WorkspaceIds -> Workspace]
    /\ squads \in 0..2
    /\ granted \subseteq Provisioners \X WorkspaceIds \X Roles
    /\ provided \in [Provisioners -> Provisions]
    /\ prov \in [Provisioners -> ProvState]
    /\ provFaults \in 0..MaxProvFaults

NoWorkspace == [vis |-> "none", link |-> NoUrl, by |-> "before"]
WorkspaceInit ==
    /\ ws \in {w \in [WorkspaceIds -> {NoWorkspace}
                        \cup [vis : {"team", "hidden"}, link : Urls \cup {NoUrl}, by : {"before"}]] :
                 /\ \A i \in WorkspaceIds \ PriorIds : w[i] = NoWorkspace
                 /\ \A i, j \in PriorIds : i # j /\ w[i].link = w[j].link => w[i].link = NoUrl}
    /\ squads \in 0..2
    /\ granted = {}
    \* a run whose preflight only warned goes on without the team of its session
    /\ provided \in [Provisioners -> Provisions]
    \* inputs or .postman/resources.yaml may name a workspace, and the inputs its
    \* squad: only where that changes what a run does
    /\ prov \in [Provisioners -> {[pc |-> "probe", id |-> i, seen |-> {}, squad |-> known,
                                   source |-> IF i = 0 THEN "none" ELSE "explicit", lost |-> FALSE] :
                                      i \in PriorIds \cup {0}, known \in {FALSE, squads # 0}}]
    /\ \A r \in Provisioners : /\ prov[r].id # 0 => ws[prov[r].id].vis = "team"
                               /\ squads = 1 /\ provided[r].session => ~prov[r].squad
    /\ provFaults = 0

-----------------------------------------------------------------------------
Visible(i) == ws[i].vis \in {"personal", "team"}
NameMatches == {i \in WorkspaceIds : Visible(i)}
LeastId(S) == CHOOSE i \in S : \A j \in S : i <= j

ProvAt(r, pc) == prov[r].pc = pc
ProvGoto(r, pc) == prov' = [prov EXCEPT ![r].pc = pc]
ProvUses(r, i, source, pc) == prov' = [prov EXCEPT ![r].id = i, ![r].source = source, ![r].pc = pc,
                                                   ![r].seen = {}]
ProvFault == provFaults < MaxProvFaults /\ provFaults' = provFaults + 1
ProvWorks == UNCHANGED provFaults
AccountIdle == UNCHANGED <<ws, squads, granted, provided>>

-----------------------------------------------------------------------------
(* Selection *)

\* A workspace is looked for by its name only with a repository and a team id.
Unprobed(r) == IF prov[r].id # 0 THEN "reuse" ELSE IF provided[r].repo /\ provided[r].team THEN "find" ELSE "teams"

\* The link preflight of Bifrost: an owner it can view is adopted, also over an
\* explicit id; one it cannot view ends the run; no answer decides nothing, and
\* without a repository there is nothing to ask.
ProbeLink(r) ==
    LET linked == {i \in WorkspaceIds : provided[r].repo /\ ws[i].link = Url[r] /\ ws[i].vis # "deleted"} IN
    /\ ProvAt(r, "probe")
    /\ \/ linked = {} /\ ProvGoto(r, Unprobed(r)) /\ ProvWorks
       \/ \E i \in linked :
             /\ IF Visible(i) THEN ProvUses(r, i, "probe", "reuse") ELSE ProvGoto(r, "failed")
             /\ ProvWorks
       \/ provided[r].repo /\ ProvGoto(r, Unprobed(r)) /\ ProvFault
    /\ AccountIdle

\* findWorkspacesByName.  Without a repository workspace its failure is fatal.
FindByName(r) ==
    /\ ProvAt(r, "find")
    /\ \/ prov' = [prov EXCEPT ![r].seen = NameMatches, ![r].pc = "look"] /\ ProvWorks
       \/ ProvGoto(r, "failed") /\ ProvFault
    /\ AccountIdle

\* chooseCanonicalWorkspace, for what the link lookups heard of the matches.
Canonical(r, heard) ==
    LET seen == prov[r].seen
        linked == {i \in seen : heard[i] # NoUrl /\ RepositoryOf[heard[i]] = RepositoryOf[Url[r]]} IN
    IF Cardinality(linked) = 1 THEN ProvUses(r, LeastId(linked), "linked_match", "reuse")
    ELSE IF linked # {} THEN ProvGoto(r, "failed")  \* manual review
    ELSE IF seen # {} /\ heard[LeastId(seen)] = NoUrl
    THEN ProvUses(r, LeastId(seen), "name_match", "reuse")
    ELSE prov' = [prov EXCEPT ![r].pc = "teams", ![r].seen = {}]

\* A lookup that fails counts as no link.
LookUpLinks(r) ==
    /\ ProvAt(r, "look")
    /\ \E unheard \in SUBSET prov[r].seen :
          /\ Canonical(r, [i \in prov[r].seen |->
                              IF i \in unheard \/ ~Visible(i) THEN NoUrl ELSE ws[i].link])
          /\ IF unheard = {} THEN ProvWorks ELSE ProvFault
    /\ AccountIdle

\* getTeams: one sub-team is used, several need a choice of the user, and a
\* discovery that fails is fatal where a workspace has to be created.  Without the
\* team of a session there is nothing to ask about: no sub-teams, in any account.
DetectTeams(r) ==
    /\ ProvAt(r, "teams")
    /\ \/ (prov[r].squad \/ ~provided[r].session) /\ ProvGoto(r, "post") /\ ProvWorks
       \/ /\ ~prov[r].squad /\ provided[r].session
          /\ IF squads = 2 THEN ProvGoto(r, "failed")
             ELSE prov' = [prov EXCEPT ![r].pc = "post", ![r].squad = squads = 1]
          /\ ProvWorks
       \/ ~prov[r].squad /\ provided[r].session /\ ProvGoto(r, "failed") /\ ProvFault
    /\ AccountIdle

-----------------------------------------------------------------------------
(* createWorkspace *)

\* POST /workspaces, never repeated: for the team with a squad, else personal.
PostWorkspace(r) ==
    /\ ProvAt(r, "post")
    /\ \/ /\ \E i \in WorkspaceIds :
                /\ ws[i].vis = "none"
                /\ ws' = [ws EXCEPT ![i] = [vis |-> IF prov[r].squad THEN "team" ELSE "personal",
                                            link |-> NoUrl, by |-> r]]
                /\ \/ ProvUses(r, i, "create", IF prov[r].squad THEN "verify" ELSE "promote") /\ ProvWorks
                   \/ prov' = [prov EXCEPT ![r].pc = "recover", ![r].lost = TRUE] /\ ProvFault
       \/ UNCHANGED ws /\ (ProvGoto(r, "recover") \/ ProvGoto(r, "failed")) /\ ProvFault
    /\ UNCHANGED <<squads, granted, provided>>

\* Mutant: the workspace found after a lost answer is taken for the run's own.
RecoverOwned(r) ==
    /\ ProvAt(r, "recover")
    /\ IF Cardinality(NameMatches) = 1
       THEN ProvUses(r, LeastId(NameMatches), "create", "verify")
       ELSE ProvGoto(r, "failed")
    /\ AccountIdle /\ ProvWorks
\* After a lost answer the one workspace of the name is adopted.
RecoverWorkspace(r) ==
    /\ ProvAt(r, "recover")
    /\ \/ /\ IF Cardinality(NameMatches) = 1
             THEN ProvUses(r, LeastId(NameMatches), "reconciled", "verify")
             ELSE ProvGoto(r, "failed")
          /\ ProvWorks
       \/ ProvGoto(r, "failed") /\ ProvFault
    /\ AccountIdle

\* setWorkspaceVisibility; an organisation may refuse it outside of a sub-team.
Promote(r) ==
    /\ ProvAt(r, "promote")
    /\ \/ ws' = [ws EXCEPT ![prov[r].id].vis = "team"] /\ ProvGoto(r, "verify") /\ ProvWorks
       \/ /\ ws' \in {ws, [ws EXCEPT ![prov[r].id].vis = "team"]}
          /\ ProvGoto(r, "cleanup") /\ ProvFault
       \/ squads # 0 /\ UNCHANGED ws /\ ProvGoto(r, "cleanup") /\ ProvWorks
    /\ UNCHANGED <<squads, granted, provided>>

Unverified(r) == IF prov[r].source = "create" THEN "cleanup" ELSE "failed"
\* getWorkspaceVisibility: a failed read is no visibility.
VerifyVisibility(r) ==
    /\ ProvAt(r, "verify")
    /\ \/ ProvGoto(r, IF ws[prov[r].id].vis = "team" THEN "grant" ELSE Unverified(r)) /\ ProvWorks
       \/ ProvGoto(r, Unverified(r)) /\ ProvFault
    /\ AccountIdle

CleanupWorkspace(r) ==
    /\ ProvAt(r, "cleanup")
    /\ \/ ws' = [ws EXCEPT ![prov[r].id].vis = "deleted"] /\ ProvGoto(r, "failed") /\ ProvWorks
       \/ /\ ws' \in {ws, [ws EXCEPT ![prov[r].id].vis = "deleted"]}
          /\ prov' = [prov EXCEPT ![r].pc = "failed", ![r].lost = TRUE] /\ ProvFault
    /\ UNCHANGED <<squads, granted, provided>>

-----------------------------------------------------------------------------
(* The workspace that was chosen *)

\* A reused workspace that is not for the team only causes a warning.
Reuse(r) == ProvAt(r, "reuse") /\ ProvGoto(r, "grant") /\ AccountIdle /\ ProvWorks

\* workspaceMutationOwned, and so persistable
MutationOwned(r) == prov[r].source \notin {"name_match", "reconciled"}

\* assignWorkspaceToGovernanceGroup: a group that the account does not list is
\* passed over, and a list or a patch that fails grants nothing.
GovernanceGrants == {{"governance"}, {}}
\* inviteRequesterToWorkspace: an e-mail outside the team is passed over.
RequesterGrants == {{"requester"}, {}}
\* addAdminsToWorkspace: one patch for the whole list.
AdminGrants == {{"admins"}}

\* Each of the three may fail with a warning and leaves the others alone; a
\* workspace that the run only matched by its name is shared with nobody.
GrantRoles(r) ==
    /\ ProvAt(r, "grant")
    /\ IF ~MutationOwned(r) THEN UNCHANGED granted /\ ProvWorks
       ELSE \E g \in GovernanceGrants, q \in RequesterGrants, admins \in AdminGrants \cup {{}} :
               /\ granted' = granted \cup {<<r, prov[r].id, role>> : role \in g \cup q \cup admins}
               /\ IF admins \in AdminGrants THEN ProvWorks ELSE ProvFault
    /\ ProvGoto(r, "done") /\ UNCHANGED <<ws, squads, provided>>

\* A later action connects a persisted workspace with the repository.  Bifrost
\* links a URL to one workspace and a workspace to one URL.
ConnectRepository(r) ==
    /\ ProvAt(r, "done") /\ MutationOwned(r) /\ provided[r].repo
    /\ ws[prov[r].id].vis = "team" /\ ws[prov[r].id].link = NoUrl
    /\ \A i \in WorkspaceIds : ws[i].link # Url[r]
    /\ ws' = [ws EXCEPT ![prov[r].id].link = Url[r]]
    /\ UNCHANGED <<squads, granted, provided, prov>> /\ ProvWorks

WorkspaceNext == \E r \in Provisioners :
    \/ ProbeLink(r) \/ FindByName(r) \/ LookUpLinks(r) \/ DetectTeams(r)
    \/ PostWorkspace(r) \/ RecoverWorkspace(r) \/ Promote(r) \/ VerifyVisibility(r)
    \/ CleanupWorkspace(r) \/ Reuse(r) \/ GrantRoles(r) \/ ConnectRepository(r)

WorkspaceSpec == WorkspaceInit /\ [][WorkspaceNext]_workspaceVars

-----------------------------------------------------------------------------
(* Properties *)

\* A run deletes only the workspace that its own answered create made, however
\* its answers were lost and whatever a peer created under the same name.
DeletesOwnWorkspaceOnly ==
    \A i \in WorkspaceIds : ws'[i].vis = "deleted" /\ ws[i].vis # "deleted"
        => \E r \in Provisioners : ws[i].by = r /\ prov[r].id = i /\ prov'[r].pc = "failed"

\* What a run takes for created is visible to the team, unless the peer that
\* created it could not see that and deleted it.
CreatedIsShared ==
    \A r \in Provisioners :
        ProvAt(r, "done") /\ prov[r].source \in {"create", "reconciled"}
        => ws[prov[r].id].vis \in {"team", "deleted"}

\* A personal workspace, which nobody else can see, stays behind only if the
\* answer to its create was lost or its delete failed; and in an account with
\* sub-teams only a run that does not know the team of its session makes one.
NoLeftover ==
    \A i \in WorkspaceIds : ws[i].vis = "personal" =>
        /\ squads = 0 \/ \E r \in Provisioners : ws[i].by = r /\ ~provided[r].session
        /\ \A r \in Provisioners : ws[i].by = r /\ prov[r].pc \in {"done", "failed"} => prov[r].lost

\* Unless the user named the workspace, a run grants roles only in a workspace
\* that it created or that is linked to its own repository.
RolesOnOwnWorkspaceOnly ==
    \A r \in Provisioners, i \in WorkspaceIds :
        (\E role \in Roles : <<r, i, role>> \in granted) /\ prov[r].source # "explicit"
        => ws[i].by = r \/ (ws[i].link # NoUrl /\ RepositoryOf[ws[i].link] = RepositoryOf[Url[r]])

\* No step of the runs that provision one workspace breaks any of it.
ProvisioningIsSafe ==
    [][/\ WorkspaceTypeOK' /\ CreatedIsShared' /\ NoLeftover' /\ RolesOnOwnWorkspaceOnly'
       /\ DeletesOwnWorkspaceOnly]_workspaceVars
=============================================================================
