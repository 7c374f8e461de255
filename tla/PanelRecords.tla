----------------------------- MODULE PanelRecords -----------------------------
(***************************************************************************)
(* The components of the panel's host that keep records and have safety    *)
(* properties only: the update script, access tokens, users, agents.       *)
(* Side by side and without shared state: MCSafety runs one at a time, and *)
(* PanelRecordsProofs proves of each what it promises.                     *)
(***************************************************************************)
EXTENDS Naturals

CONSTANTS Versions, Models, Apps, Web, MaxScripts,   \* of UpdateScript
          AccessTokens, Lifetime, MaxTime,           \* of PanelTokens
          Users,                                     \* of PanelAdmins
          Recordings,                                \* of AgentRecords
          Requests,                                  \* of the last three
          MaxFaults                                  \* of PanelTokens and AgentRecords

VARIABLES step, current, target, fromPanel, skip, offline, left, head, tree, previous, schema,
          backup, runningOn, scripts
scriptVars == <<step, current, target, fromPanel, skip, offline, left, head, tree, previous,
     schema, backup, runningOn, scripts>>
S == INSTANCE UpdateScript

VARIABLES now, role, token, refreshable, denied, tokensOut, req, faults
tokensVars == <<now, role, token, refreshable, denied, tokensOut, req, faults>>
K == INSTANCE PanelTokens WITH Tokens <- AccessTokens, out <- tokensOut

VARIABLES adminsRole, adminsReq, lateActor
adminsVars == <<adminsRole, adminsReq, lateActor>>
D == INSTANCE PanelAdmins WITH role <- adminsRole, req <- adminsReq

VARIABLES status, listed, stored, agentsReq, asked, profile, edited, kept, overlapped,
          agentsFaults
agentsVars == <<status, listed, stored, agentsReq, asked, profile, edited, kept, overlapped,
     agentsFaults>>
A == INSTANCE AgentRecords WITH req <- agentsReq, faults <- agentsFaults

\* The version to go back to is on file, and a script that ends by itself leaves one version
\* running (update.sh).
OneVersionRuns == S!OneVersionRuns
\* A logged-out token lets no later request in, up to what LogoutHolds excepts (denylist.py).
LogoutHolds == K!LogoutHolds
\* Changes of users do not take the last administrator away (tenants.py).
AdminsRemain == D!AdminsRemain
\* What an agent lists is stored, and requests keep out of each other's columns (agents.py).
AgentIsConsistent == A!AgentIsConsistent
==============================================================================
