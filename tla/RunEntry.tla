------------------------------- MODULE RunEntry -------------------------------
(***************************************************************************)
(* How a run comes to write: the two entry points (runAction of index.ts,   *)
(* runCli of cli.ts), the branch gate, the access token, the identity of    *)
(* its session (credential-identity.ts), and the team scope under which the *)
(* three clients that createBootstrapDependencies makes send their writes.  *)
(***************************************************************************)
EXTENDS Integers, FiniteSets
CONSTANTS Squads,          \* ids of sub-teams
          SessionAttempts, \* SESSION_MAX_ATTEMPTS
          MaxEntryFaults   \* bound: calls that fail or go unanswered
ASSUME EntryAssumption == /\ Squads \subseteq Nat \ {0} /\ Squads # {} /\ SessionAttempts \in Nat \ {0}
                          /\ MaxEntryFaults \in Nat

Clients == {"assets", "integration", "ec"}
NoTeam == 0
ParentTeam == -1  \* the team of the session: on an organisation account, the organisation
Scopes == [team : Squads \cup {NoTeam, ParentTeam}, org : BOOLEAN]

VARIABLES
    input,    \* what the run was given
    account,  \* squads (none: not an organisation), the session of the token, who links the repository
    run,      \* the process
    identity, \* memoizedSessionIdentity
    scope,    \* the team context of each client
    sent,     \* what left the process, under which scopes
    entryFaults
entryVars == <<input, account, run, identity, scope, sent, entryFaults>>

\* "odd" is at most one of: an input that does not parse, authored collections,
\* a result file outside of the workspace, a team-id.
Inputs == [by : {"action", "cli"}, tier : {"gated", "preview", "canonical"},
           odd : {"no", "invalid", "authored", "outside", "teamid"},
           credential : {"none", "key", "token"}, preflight : {"warn", "enforce"},
           workspaceTeamId : BOOLEAN, workspaceId : BOOLEAN]
Accounts == [squads : SUBSET Squads, session : {"team", "teamless", "rejected"},
             link : {"free", "visible", "invisible"}]
EntryInit ==
    /\ input \in Inputs /\ account \in Accounts
    /\ run = [pc |-> "inputs", token |-> input.credential = "token", tries |-> 0, org |-> FALSE,
              workspace |-> FALSE, team |-> NoTeam, probed |-> FALSE]
    /\ identity = "none"
    /\ scope = [c \in Clients |-> [team |-> NoTeam, org |-> FALSE]]
    /\ sent = {} /\ entryFaults = 0

EntryFault == entryFaults < MaxEntryFaults /\ entryFaults' = entryFaults + 1
EntryAt(pc) == run.pc = pc
EntryTo(pc) == run' = [run EXCEPT !.pc = pc]
Sends(what) == sent' = sent \cup {[what |-> what, scope |-> scope, known |-> identity # "none"]}
Outside == UNCHANGED <<input, account>>
NothingSent == Outside /\ UNCHANGED <<identity, scope, sent>>
Gated == input.tier = "gated"

-----------------------------------------------------------------------------
(* From the inputs to a session *)

\* The decision is made, and the credentials asked for, before anything is minted.
ReadInputs ==
    /\ EntryAt("inputs") /\ NothingSent /\ UNCHANGED entryFaults
    /\ EntryTo(IF \/ input.odd = "invalid"
                  \/ input.odd = "authored" /\ input.tier = "preview"
                  \/ input.odd = "outside" /\ input.by = "cli"
               THEN "failed"
               ELSE IF Gated THEN "gate"
               ELSE IF input.credential = "none" THEN "failed" ELSE "mint")
\* runGatedValidation: reads the definition, and fails loudly if it does not
\* parse; only the command line writes result files.
ValidateGated ==
    /\ EntryAt("gate") /\ Outside /\ UNCHANGED <<identity, scope>>
    /\ \/ /\ EntryTo("done") /\ UNCHANGED entryFaults
          /\ IF input.by = "cli" THEN Sends("result") ELSE UNCHANGED sent
       \/ EntryTo("failed") /\ EntryFault /\ UNCHANGED sent
MintAccessTokenIfNeeded ==
    /\ EntryAt("mint") /\ Outside /\ UNCHANGED <<identity, scope>>
    /\ IF run.token THEN EntryTo("preflight") /\ UNCHANGED <<sent, entryFaults>>
       ELSE \/ /\ run' = [run EXCEPT !.pc = "preflight", !.token = TRUE]
               /\ Sends("mint") /\ UNCHANGED entryFaults
            \/ EntryTo("failed") /\ Sends("mint") /\ EntryFault

AfterPreflight == IF input.by = "action" THEN "early" ELSE "build"
\* Without a session, enforce ends the run; warn goes on without an identity.
NoSession == EntryTo(IF input.preflight = "enforce" THEN "failed" ELSE AfterPreflight)
\* A 401 or 403 and an answer that does not parse are final; no answer, a 429
\* and a 5xx are tried again.
ProbeSession ==
    /\ EntryAt("preflight") /\ Outside /\ UNCHANGED <<scope, sent>>
    /\ \/ /\ account.session # "rejected"
          /\ identity' = account.session /\ EntryTo(AfterPreflight) /\ UNCHANGED entryFaults
       \/ account.session = "rejected" /\ NoSession /\ UNCHANGED <<identity, entryFaults>>
       \/ /\ EntryFault /\ UNCHANGED identity
          /\ IF run.tries + 1 < SessionAttempts
             THEN run' = [run EXCEPT !.tries = @ + 1] ELSE NoSession
       \/ EntryFault /\ NoSession /\ UNCHANGED identity

-----------------------------------------------------------------------------
(* The team scope *)

\* getTeams asks about the team of the memoised session, and of no other.
SessionTeam == IF identity = "team" THEN ParentTeam ELSE NoTeam
TeamsOf == IF identity = "team" THEN account.squads ELSE {}
TeamId == IF input.odd = "teamid" THEN ParentTeam ELSE SessionTeam
GivenSquad == CHOOSE s \in Squads : account.squads # {} => s \in account.squads

\* Only the action looks for an organisation beforehand; a failure means none.
DetectOrgModeEarly ==
    /\ EntryAt("early") /\ NothingSent
    /\ \/ run' = [run EXCEPT !.pc = "build", !.org = TeamsOf # {}] /\ UNCHANGED entryFaults
       \/ identity = "team" /\ EntryTo("build") /\ EntryFault
CreateBootstrapDependencies ==
    /\ EntryAt("build") /\ Outside /\ UNCHANGED <<identity, sent, entryFaults>>
    /\ scope' = [c \in Clients |-> [team |-> IF input.odd = "teamid" THEN ParentTeam ELSE NoTeam,
                                    org |-> run.org]]
    /\ EntryTo("probe")
\* An owner the credentials cannot view ends the run; no answer does not.
ProbeRepositoryLink ==
    /\ EntryAt("probe") /\ NothingSent
    /\ \/ /\ run' = [run EXCEPT !.pc = IF account.link = "invisible" THEN "failed" ELSE "select",
                                !.workspace = input.workspaceId \/ account.link = "visible",
                                !.probed = TRUE]
          /\ UNCHANGED entryFaults
       \/ run' = [run EXCEPT !.pc = "select", !.workspace = input.workspaceId] /\ EntryFault
\* What resolveCanonicalWorkspaceSelection finds is Workspaces' matter.
SelectCanonicalWorkspace ==
    /\ EntryAt("select") /\ NothingSent
    /\ IF run.workspace \/ TeamId = NoTeam THEN EntryTo("teams") /\ UNCHANGED entryFaults
       ELSE \/ \E found \in BOOLEAN :
                  /\ run' = [run EXCEPT !.pc = "teams", !.workspace = found] /\ UNCHANGED entryFaults
            \/ EntryTo("failed") /\ EntryFault
\* Several squads and no choice, or no answer: fatal where a workspace is made.
ResolveTeams ==
    /\ EntryAt("teams") /\ NothingSent
    /\ \/ /\ input.workspaceTeamId
          /\ run' = [run EXCEPT !.pc = "configure", !.team = GivenSquad, !.org = TRUE]
          /\ UNCHANGED entryFaults
       \/ /\ ~input.workspaceTeamId /\ (run.workspace \/ TeamsOf = {})
          /\ run' = [run EXCEPT !.pc = "configure", !.org = FALSE] /\ UNCHANGED entryFaults
       \/ /\ ~input.workspaceTeamId /\ ~run.workspace /\ TeamsOf # {}
          /\ \/ /\ Cardinality(TeamsOf) = 1 /\ UNCHANGED entryFaults
                /\ run' = [run EXCEPT !.pc = "configure", !.org = TRUE,
                                      !.team = CHOOSE s \in TeamsOf : TRUE]
             \/ Cardinality(TeamsOf) > 1 /\ EntryTo("failed") /\ UNCHANGED entryFaults
       \/ /\ ~input.workspaceTeamId /\ ~run.workspace /\ identity = "team"
          /\ EntryTo("failed") /\ EntryFault

\* Mutant: the client of extensible collections keeps its first context.
RescopeWithoutEc(c, to) == IF c = "ec" THEN scope[c] ELSE to
Rescoped(c, to) == to
ConfigureTeamContext ==
    /\ EntryAt("configure") /\ Outside /\ UNCHANGED <<identity, sent, entryFaults>>
    /\ LET to == [team |-> IF run.team # NoTeam THEN run.team ELSE TeamId, org |-> run.org] IN
       scope' = [c \in Clients |-> Rescoped(c, to)]
    /\ EntryTo(IF run.workspace THEN "assets" ELSE "create")

-----------------------------------------------------------------------------
(* The writes *)

CreateWorkspaceIn ==
    /\ EntryAt("create") /\ Outside /\ UNCHANGED identity /\ Sends("create")
    /\ scope' = IF run.team = NoTeam THEN scope
                ELSE [scope EXCEPT !["assets"] = [team |-> run.team, org |-> TRUE]]
    /\ \/ EntryTo("assets") /\ UNCHANGED entryFaults
       \/ EntryTo("failed") /\ EntryFault
WriteAssets ==
    /\ EntryAt("assets") /\ Outside /\ UNCHANGED <<identity, scope>> /\ Sends("assets")
    /\ \/ EntryTo(IF input.by = "cli" THEN "result" ELSE "done") /\ UNCHANGED entryFaults
       \/ EntryTo("failed") /\ EntryFault
\* writeOptionalFile looks at the path once more: it may be another by now.
WriteResult ==
    /\ EntryAt("result") /\ Outside /\ UNCHANGED <<identity, scope>>
    /\ \/ Sends("result") /\ EntryTo("done") /\ UNCHANGED entryFaults
       \/ EntryTo("failed") /\ EntryFault /\ UNCHANGED sent

EntryNext ==
    \/ ReadInputs \/ ValidateGated \/ MintAccessTokenIfNeeded \/ ProbeSession
    \/ DetectOrgModeEarly \/ CreateBootstrapDependencies \/ ProbeRepositoryLink
    \/ SelectCanonicalWorkspace \/ ResolveTeams \/ ConfigureTeamContext
    \/ CreateWorkspaceIn \/ WriteAssets \/ WriteResult
EntrySpec == EntryInit /\ [][EntryNext]_entryVars
--------------------------------------------------------------------------------
EntryWrites == {s \in sent : s.what \in {"create", "assets"}}

\* "Provably zero workspace writes because no token is ever minted": a gated run
\* sends nothing, with whatever credentials and account, but its result file.
GatedSendsNothing == Gated => \A s \in sent : s.what = "result"
\* Under enforce, no write is sent without the identity of its session, however
\* many attempts at it failed.
EnforcedIdentity == input.preflight = "enforce" => \A s \in EntryWrites : s.known
\* All clients of a run write for one team, in one mode, from the first write to
\* the last, and one that made its workspace in an organisation writes for a
\* sub-team of it.
OneScope ==
    /\ \A s, t \in EntryWrites, c, d \in Clients : s.scope[c] = t.scope[d]
    /\ \A s \in EntryWrites :
          s.what = "create" /\ account.squads # {} /\ identity = "team" =>
              s.scope["assets"].org /\ s.scope["assets"].team \in account.squads
\* "Fails admission with zero asset writes": where the link was heard.
InvisibleOwnerUntouched == account.link = "invisible" /\ run.probed => EntryWrites = {}
RunEntryIsSafe == GatedSendsNothing /\ EnforcedIdentity /\ OneScope /\ InvisibleOwnerUntouched
================================================================================
