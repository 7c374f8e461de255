----------------------------- MODULE CallPrompt -----------------------------
(***************************************************************************)
(* What an agent says: the lines and the campaign an operator keeps in the  *)
(* panel, and the system prompt and opener a worker makes of them when a    *)
(* call starts.                                                            *)
(*                                                                         *)
(* An agent's row has two columns of lines, persona and script, which are   *)
(* saved apart and merged in the same way: as no key is in both, one        *)
(* function of lines stands for the two.  A text is the row it was written  *)
(* to and the edit that wrote it.  The rows carry links to a campaign,      *)
(* which no request of the panel writes: the schemas take them, the         *)
(* services drop them.  An installation has them only from a script run on  *)
(* its database, and Init takes any.                                        *)
(***************************************************************************)
EXTENDS Naturals

CONSTANTS
  Campaigns,
  NoCampaign,
  MaxEdits       \* bound on the edits made in the panel

VARIABLES
  campaigns,     \* the campaigns table
  agent,         \* the agent's row: its lines and its link to a campaign
  deployment,    \* the deployment's row: whether it is there, and its link
  call,          \* the call being set up, or live
  edits

vars == <<campaigns, agent, deployment, call, edits>>

\* What the schemas let an agent have in either column, all of it dumped with its defaults,
\* what a campaign's templates may hold, which is any key, and what the prompt asks for.
PersonaKeys == {"description", "guidelines"}
ScriptKeys == {"sections", "closing", "opening_variants"}
Columns == {PersonaKeys, ScriptKeys}
AgentKeys == PersonaKeys \cup ScriptKeys
TemplateKeys == {"guidelines", "opening"}
PromptKeys == (AgentKeys \ {"opening_variants"}) \cup TemplateKeys

Text(row) == <<row, edits>>
Empty == <<>>
NoLines == <<>>

\* What upper has, and below it what only lower has.
Over(upper, lower) ==
  [k \in DOMAIN upper \cup DOMAIN lower |-> IF k \in DOMAIN upper THEN upper[k] ELSE lower[k]]

\* A column is saved with every line its schema has; there is an opening variant at least.
Dumped(keys, filled) ==
  [k \in keys |-> IF k \in filled \cup {"opening_variants"} THEN Text("agent") ELSE Empty]

\* A campaign's template is any dictionary.
Template(c, keys) == [k \in keys |-> Text(c)]

NoCall == [step |-> "idle", lines |-> NoLines, link |-> NoCampaign,
           template |-> NoLines, methodology |-> Empty, says |-> NoLines, opener |-> Empty]

Existing == {c \in Campaigns : campaigns[c].status # "none"}

Init ==
  /\ edits = 0
  /\ \E here \in SUBSET Campaigns : campaigns = [c \in Campaigns |->
       [status |-> IF c \in here THEN "active" ELSE "none",
        template |-> NoLines, methodology |-> Text(c)]]
  /\ agent \in [lines : {Dumped(AgentKeys, AgentKeys)}, link : Existing \cup {NoCampaign}]
  /\ deployment \in [there : {TRUE}, link : Existing \cup {NoCampaign}]
  /\ call = NoCall

Edit == edits < MaxEdits /\ edits' = edits + 1

-----------------------------------------------------------------------------
(* The panel. *)

New(c, keys) == [status |-> "draft", template |-> Template(c, keys), methodology |-> Text(c)]

CreateCampaign(c) ==
  /\ Edit /\ c \notin Existing
  /\ \E keys \in SUBSET TemplateKeys : campaigns' = [campaigns EXCEPT ![c] = New(c, keys)]
  /\ UNCHANGED <<agent, deployment, call>>

\* A campaign is written field by field: what a request leaves out stays.
Rewritten(c) ==
  {[campaigns[c] EXCEPT !.methodology = Text(c)]}
  \cup {[campaigns[c] EXCEPT !.template = Template(c, keys)] : keys \in SUBSET TemplateKeys}

UpdateCampaign(c) ==
  /\ Edit /\ c \in Existing
  /\ \E row \in Rewritten(c) : campaigns' = [campaigns EXCEPT ![c] = row]
  /\ UNCHANGED <<agent, deployment, call>>

\* An archived campaign keeps its row and its links, and speaks on.
Archived(row) == [row EXCEPT !.status = "archived"]

ArchiveCampaign(c) ==
  /\ Edit /\ c \in Existing
  /\ campaigns' = [campaigns EXCEPT ![c] = Archived(campaigns[c])]
  /\ UNCHANGED <<agent, deployment, call>>

\* A column that the request leaves out stays as it is.
UpdateAgent ==
  /\ Edit
  /\ \E columns \in (SUBSET Columns) \ {{}} : \E filled \in SUBSET UNION columns :
       agent' = [agent EXCEPT !.lines = Over(Dumped(UNION columns, filled), @)]
  /\ UNCHANGED <<campaigns, deployment, call>>

DeleteDeployment ==
  /\ Edit /\ deployment.there
  /\ deployment' = [deployment EXCEPT !.there = FALSE]
  /\ UNCHANGED <<campaigns, agent, call>>

-----------------------------------------------------------------------------
(* The worker. *)

AgentsLink == IF agent.link # NoCampaign THEN agent.link ELSE deployment.link

\* The deployment's link wins over the agent's.
Chosen == IF deployment.link # NoCampaign THEN deployment.link ELSE agent.link

\* A deployment that is gone gives the default agent, without lines.
ReadAgent ==
  /\ call.step = "idle"
  /\ call' = IF deployment.there
             THEN [NoCall EXCEPT !.step = "read", !.lines = agent.lines, !.link = Chosen]
             ELSE [NoCall EXCEPT !.step = "loaded"]
  /\ UNCHANGED <<campaigns, agent, deployment, edits>>

\* The campaign is read by a query of its own.
ReadCampaign ==
  /\ call.step = "read"
  /\ call' = IF call.link = NoCampaign THEN [call EXCEPT !.step = "loaded"]
             ELSE [call EXCEPT !.step = "loaded",
                               !.template = campaigns[call.link].template,
                               !.methodology = campaigns[call.link].methodology]
  /\ UNCHANGED <<campaigns, agent, deployment, edits>>

\* A database error at either query: the default agent, and no campaign.
LoadFails ==
  /\ call.step \in {"idle", "read"}
  /\ call' = [NoCall EXCEPT !.step = "loaded"]
  /\ UNCHANGED <<campaigns, agent, deployment, edits>>

\* Mutant of Merged: the campaign's lines are over the agent's.
TemplateFirst(lines, template) == Over(template, lines)

\* The agent's own lines are over the campaign's, an empty one too.
Merged(lines, template) == Over(lines, template)

\* What is empty is not in the prompt, nor what the prompt does not ask for.
Rendered(lines) == [k \in {k \in DOMAIN lines \cap PromptKeys : lines[k] # Empty} |-> lines[k]]

\* The section of a methodology, or of none.
MethodologySection(m) == IF m = Empty THEN NoLines ELSE [methodology |-> m]

SystemPrompt ==
  Over(Rendered(Merged(call.lines, call.template)), MethodologySection(call.methodology))

\* The opener is looked for in the agent's own script, under "openings" or "opening".
Opener(lines) == IF "opening" \in DOMAIN lines THEN lines["opening"] ELSE Empty

\* The prompt is made once and kept to the end of the call.
Start ==
  /\ call.step = "loaded"
  /\ call' = [call EXCEPT !.step = "live", !.says = SystemPrompt, !.opener = Opener(call.lines)]
  /\ UNCHANGED <<campaigns, agent, deployment, edits>>

HangUp ==
  /\ call.step = "live"
  /\ call' = NoCall
  /\ UNCHANGED <<campaigns, agent, deployment, edits>>

Next ==
  \/ \E c \in Campaigns : CreateCampaign(c) \/ UpdateCampaign(c) \/ ArchiveCampaign(c)
  \/ UpdateAgent \/ DeleteDeployment
  \/ ReadAgent \/ ReadCampaign \/ LoadFails \/ Start \/ HangUp

Spec == Init /\ [][Next]_vars

-----------------------------------------------------------------------------
(* Whatever is edited while a call is set up, a live call that has an agent *)
(* says of each column the lines as one save left them: no line of another  *)
(* save of that column, none missing that the save filled, and no template  *)
(* of a campaign in the place of a line the agent has (_build_system_prompt:*)
(* agent overrides).  The two columns may be of different saves.            *)
AgentKeepsItsLines ==
  (call.step = "live" /\ call.lines # NoLines) =>
    \A column \in Columns : \E n \in 0..edits : \A k \in column \cap PromptKeys :
      IF k \in DOMAIN call.says THEN call.says[k] = <<"agent", n>> ELSE call.lines[k] = Empty

(* A call speaks for one campaign: its templates and its methodology are    *)
(* those of the campaign its deployment is linked to, or else of the one    *)
(* its agent is, never of both (_sync_load_agent: deployment-level link     *)
(* wins over agent-level link).                                            *)
SpeaksForOneCampaign ==
  call.step = "live" =>
    \A k \in DOMAIN call.says : call.says[k][1] \in
      {"agent", IF deployment.link # NoCampaign THEN deployment.link ELSE agent.link}

\* The prompt of a call is of one piece: of each column one save, and one campaign, whose
\* texts may be younger than the agent's.
PromptIsOfOnePiece == AgentKeepsItsLines /\ SpeaksForOneCampaign
=============================================================================
