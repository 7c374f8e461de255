-------------------------- MODULE CallRecordsProofs -------------------------
(***************************************************************************)
(* Theorems about the components of CallRecords, each for any values of    *)
(* its constants: the prompt (P), the transcript (T), the recording (R),   *)
(* the chunks of the knowledge base (B), the pool mined from calls (M).    *)
(***************************************************************************)
EXTENDS CallRecords, Integers, Sequences, SequencesExt, FiniteSets, FiniteSetTheorems,
        WellFoundedInduction, TLAPS
-----------------------------------------------------------------------------
(* The prompt. *)

(***************************************************************************)
(* The inductive invariant.  A campaign's texts are its own, and the lines *)
(* of an agent are there, those of a column of one save (Saved), as those  *)
(* a call has read stay.                                                   *)
(* What a call has loaded is of the campaign that is chosen for it, and    *)
(* the links that choose it are never written (Loaded).  The shapes are    *)
(* stated by what each row and record is made of.                          *)
(***************************************************************************)
Links == Campaigns \cup {NoCampaign}

Shapes ==
  /\ edits \in Nat
  /\ campaigns = [c \in Campaigns |-> campaigns[c]]
  /\ agent = [lines |-> agent.lines, link |-> agent.link] /\ agent.link \in Links
  /\ deployment = [there |-> deployment.there, link |-> deployment.link]
  /\ deployment.link \in Links
  /\ call = [step |-> call.step, lines |-> call.lines, link |-> call.link,
             template |-> call.template, methodology |-> call.methodology,
             says |-> call.says, opener |-> call.opener]

\* Every text of it was written to row c.
Of(lines, c) == \A k \in DOMAIN lines : lines[k][1] = c

RowOf(x, c) ==
  /\ x = [status |-> x.status, template |-> x.template, methodology |-> x.methodology]
  /\ Of(x.template, c) /\ x.methodology[1] = c

OfSave(lines, column, n) == \A k \in column : lines[k] \in {P!Empty, <<"agent", n>>}

Saved(lines) ==
  /\ DOMAIN lines = P!AgentKeys
  /\ \A column \in P!Columns : \E n \in 0..edits : OfSave(lines, column, n)

Read(lines) == lines = P!NoLines \/ Saved(lines)

Loaded ==
  call.step \in {"read", "loaded"} =>
    /\ Read(call.lines)
    /\ call.step = "read" => call.link = P!Chosen
    /\ Of(call.template, P!Chosen)
    /\ call.methodology = P!Empty \/ call.methodology[1] = P!Chosen

PromptInv ==
  /\ Shapes /\ (\A c \in Campaigns : RowOf(campaigns[c], c)) /\ Saved(agent.lines)
  /\ Loaded /\ P!PromptIsOfOnePiece
-----------------------------------------------------------------------------
\* What a call has before it has read anything.
LEMMA NoCallShape ==
  /\ P!NoCall = [step |-> "idle", lines |-> <<>>, link |-> NoCampaign, template |-> <<>>,
                 methodology |-> <<>>, says |-> <<>>, opener |-> <<>>]
  /\ DOMAIN P!NoLines = {}
BY DEF P!NoCall, P!NoLines, P!Empty

\* The lines are in two columns that have no key in common.
LEMMA KeysOfColumns ==
  /\ UNION P!Columns = P!AgentKeys
  /\ \A c, d \in P!Columns : c # d => c \cap d = {}
BY DEF P!Columns, P!PersonaKeys, P!ScriptKeys, P!AgentKeys

\* A column that is saved is of this save, and the other stays.
LEMMA SaveKeepsColumns ==
  ASSUME edits \in Nat, NEW lines, Saved(lines),
         NEW columns \in SUBSET P!Columns, NEW filled
  PROVE  Saved(P!Over(P!Dumped(UNION columns, filled), lines))
<1> DEFINE keys == UNION columns
           saved == P!Over(P!Dumped(keys, filled), lines)
<1>1. keys \subseteq P!AgentKeys
  BY KeysOfColumns
<1>2. /\ DOMAIN saved = P!AgentKeys
      /\ \A k \in keys : saved[k] \in {P!Empty, <<"agent", edits>>}
      /\ \A k \in P!AgentKeys \ keys : saved[k] = lines[k]
  BY <1>1 DEF P!Over, P!Dumped, P!Text, Saved
<1>3. ASSUME NEW column \in P!Columns PROVE \E n \in 0..edits : OfSave(saved, column, n)
  <2>1. CASE column \in columns
    <3>1. OfSave(saved, column, edits)
      BY <1>2, <2>1 DEF OfSave
    <3> QED
      BY <3>1
  <2>2. CASE column \notin columns
    <3>1. PICK n \in 0..edits : OfSave(lines, column, n)
      BY DEF Saved
    <3>2. \A k \in column : k \in P!AgentKeys \ keys
      BY <2>2, KeysOfColumns
    <3>3. OfSave(saved, column, n)
      BY <1>2, <3>1, <3>2 DEF OfSave
    <3> QED
      BY <3>3
  <2> QED
    BY <2>1, <2>2
<1> QED
  BY <1>2, <1>3 DEF Saved

LEMMA PromptInit == P!Init => PromptInv
<1> SUFFICES ASSUME P!Init PROVE PromptInv
  OBVIOUS
<1>1. Saved(agent.lines)
  <2>1. agent.lines = P!Dumped(P!AgentKeys, P!AgentKeys) /\ edits = 0
    BY DEF P!Init
  <2>2. /\ DOMAIN agent.lines = P!AgentKeys
        /\ \A k \in P!AgentKeys : agent.lines[k] \in {P!Empty, <<"agent", 0>>}
    BY <2>1 DEF P!Dumped, P!Text
  <2>3. \A column \in P!Columns : OfSave(agent.lines, column, 0)
    BY <2>2, KeysOfColumns DEF OfSave
  <2> QED
    BY <2>1, <2>2, <2>3 DEF Saved
<1>2. Shapes
  BY NoCallShape DEF P!Init, Shapes, Links, P!Existing
<1>3. ASSUME NEW c \in Campaigns PROVE RowOf(campaigns[c], c)
  <2>1. PICK s : campaigns[c] = [status |-> s, template |-> P!NoLines,
  methodology |-> P!Text(c)]
    BY DEF P!Init
  <2>2. P!Text(c)[1] = c
    BY DEF P!Text
  <2>3. Of(P!NoLines, c)
    BY NoCallShape DEF Of
  <2> QED
    BY <2>1, <2>2, <2>3 DEF RowOf
<1>4. call.step = "idle"
  BY NoCallShape DEF P!Init
<1> QED
  BY <1>1, <1>2, <1>3, <1>4 DEF PromptInv, Loaded, P!PromptIsOfOnePiece,
     P!AgentKeepsItsLines, P!SpeaksForOneCampaign

\* An edit of the panel leaves the call alone, and the links that chose its campaign.
LEMMA EditKeepsCall ==
  ASSUME PromptInv, edits' = edits + 1, UNCHANGED call,
         agent'.link = agent.link, deployment'.link = deployment.link
  PROVE  Loaded' /\ P!PromptIsOfOnePiece' /\ \A l : Saved(l) => Saved(l)'
<1>1. \A n \in 0..edits : n \in 0..edits'
  BY DEF PromptInv, Shapes
<1>2. ASSUME NEW l, Saved(l) PROVE Saved(l)'
  BY <1>1, <1>2 DEF Saved, OfSave
<1>3. P!Chosen' = P!Chosen
  BY DEF P!Chosen
<1>4. Loaded'
  BY <1>2, <1>3 DEF PromptInv, Loaded, Read
<1>5. P!PromptIsOfOnePiece'
  BY <1>1 DEF PromptInv, P!PromptIsOfOnePiece, P!AgentKeepsItsLines, P!SpeaksForOneCampaign
<1> QED
  BY <1>2, <1>4, <1>5

LEMMA CampaignEdited ==
  ASSUME PromptInv, NEW c \in Campaigns,
         P!CreateCampaign(c) \/ P!UpdateCampaign(c) \/ P!ArchiveCampaign(c)
  PROVE  PromptInv'
<1>1. edits' = edits + 1 /\ UNCHANGED <<agent, deployment, call>>
  BY DEF P!CreateCampaign, P!UpdateCampaign, P!ArchiveCampaign, P!Edit
<1>2. RowOf(campaigns[c], c)
  BY DEF PromptInv
<1>3. PICK x : campaigns' = [campaigns EXCEPT ![c] = x] /\ RowOf(x, c)
  <2>1. \A keys : Of(P!Template(c, keys), c)
    BY DEF Of, P!Template, P!Text
  <2>2. P!Text(c)[1] = c
    BY DEF P!Text
  <2>3. \A keys : RowOf(P!New(c, keys), c)
    BY <2>1, <2>2 DEF P!New, RowOf
  <2>4. \A x \in P!Rewritten(c) : RowOf(x, c)
    <3>1. RowOf([campaigns[c] EXCEPT !.methodology = P!Text(c)], c)
      BY <1>2, <2>2 DEF RowOf
    <3>2. \A keys : RowOf([campaigns[c] EXCEPT !.template = P!Template(c, keys)], c)
      BY <1>2, <2>1 DEF RowOf
    <3> QED
      BY <3>1, <3>2 DEF P!Rewritten
  <2>5. RowOf(P!Archived(campaigns[c]), c)
    BY <1>2 DEF P!Archived, RowOf
  <2> QED
    BY <2>3, <2>4, <2>5 DEF P!CreateCampaign, P!UpdateCampaign, P!ArchiveCampaign
<1>4. \A d \in Campaigns : RowOf(campaigns'[d], d)
  BY <1>3 DEF PromptInv, Shapes
<1>5. Shapes'
  BY <1>1, <1>3 DEF PromptInv, Shapes
<1> QED
  BY <1>1, <1>4, <1>5, EditKeepsCall DEF PromptInv

LEMMA AgentEdited ==
  ASSUME PromptInv, P!UpdateAgent \/ P!DeleteDeployment
  PROVE  PromptInv'
<1>1. /\ edits' = edits + 1 /\ UNCHANGED <<campaigns, call>>
      /\ agent' = [lines |-> agent'.lines, link |-> agent.link]
      /\ deployment' = [there |-> deployment'.there, link |-> deployment.link]
  BY DEF P!UpdateAgent, P!DeleteDeployment, P!Edit, PromptInv, Shapes
<1>2. Saved(agent'.lines)
  <2>1. CASE P!UpdateAgent
    <3>1. PICK columns \in SUBSET P!Columns : \E filled \in SUBSET UNION columns :
            agent' = [agent EXCEPT !.lines = P!Over(P!Dumped(UNION columns, filled), @)]
      BY <2>1 DEF P!UpdateAgent
    <3>2. PICK filled : agent'.lines = P!Over(P!Dumped(UNION columns, filled), agent.lines)
      BY <3>1 DEF PromptInv, Shapes
    <3> QED
      BY <3>2, SaveKeepsColumns DEF PromptInv, Shapes
  <2>2. CASE P!DeleteDeployment
    BY <2>2 DEF P!DeleteDeployment, PromptInv
  <2> QED
    BY <2>1, <2>2
<1>3. Shapes'
  BY <1>1 DEF PromptInv, Shapes
<1>4. \A c \in Campaigns : RowOf(campaigns'[c], c)
  BY <1>1 DEF PromptInv
<1>5. Loaded' /\ P!PromptIsOfOnePiece' /\ Saved(agent.lines)'
  BY <1>1, <1>2, EditKeepsCall
<1> QED
  BY <1>3, <1>4, <1>5 DEF PromptInv

\* The two queries of a call's start, or their failure.
LEMMA LoadKeepsInv ==
  ASSUME PromptInv, P!ReadAgent \/ P!ReadCampaign \/ P!LoadFails
  PROVE  PromptInv'
<1>1. UNCHANGED <<campaigns, agent, deployment, edits>> /\ P!Chosen' = P!Chosen
  BY DEF P!ReadAgent, P!ReadCampaign, P!LoadFails, P!Chosen
<1>2. P!Chosen \in Links
  BY DEF PromptInv, Shapes, P!Chosen
<1>3. ASSUME NEW s, NEW l, NEW c, NEW t, NEW m, NEW y, NEW o,
             call' = [step |-> s, lines |-> l, link |-> c, template |-> t, methodology |-> m,
                      says |-> y, opener |-> o],
             s \in {"read", "loaded"}, Read(l), s = "read" => c = P!Chosen,
             Of(t, P!Chosen), m = P!Empty \/ m[1] = P!Chosen
      PROVE  PromptInv'
  <2>1. Shapes'
    BY <1>1, <1>3 DEF PromptInv, Shapes
  <2>2. \A k : (Saved(k)' <=> Saved(k)) /\ (Read(k)' <=> Read(k))
    BY <1>1 DEF Saved, OfSave, Read
  <2>3. Loaded'
    BY <1>1, <1>3, <2>2 DEF Loaded
  <2>4. P!PromptIsOfOnePiece'
    BY <1>3 DEF P!PromptIsOfOnePiece, P!AgentKeepsItsLines, P!SpeaksForOneCampaign
  <2> QED
    BY <1>1, <2>1, <2>2, <2>3, <2>4 DEF PromptInv
<1>4. Of(P!NoLines, P!Chosen) /\ Read(P!NoLines)
  BY NoCallShape DEF Of, Read
<1>5. CASE call' = [P!NoCall EXCEPT !.step = "loaded"]
  BY <1>3, <1>4, <1>5, NoCallShape DEF P!Empty, P!NoLines
<1>6. CASE call' = [P!NoCall EXCEPT !.step = "read", !.lines = agent.lines, !.link = P!Chosen]
  BY <1>3, <1>4, <1>6, NoCallShape DEF P!Empty, P!NoLines, PromptInv, Read
<1>7. CASE P!ReadCampaign
  <2>1. /\ Read(call.lines) /\ call.link = P!Chosen /\ Of(call.template, P!Chosen)
        /\ call.methodology = P!Empty \/ call.methodology[1] = P!Chosen
    BY <1>7 DEF P!ReadCampaign, PromptInv, Loaded
  <2>2. CASE call.link = NoCampaign
    BY <1>3, <1>7, <2>1, <2>2 DEF P!ReadCampaign, PromptInv, Shapes
  <2>3. CASE call.link # NoCampaign
    <3>1. RowOf(campaigns[call.link], P!Chosen)
      BY <1>2, <2>1, <2>3 DEF PromptInv, Links
    <3>2. PICK t, m : t = campaigns[call.link].template /\ m = campaigns[call.link].methodology
      OBVIOUS
    <3>3. Of(t, P!Chosen) /\ m[1] = P!Chosen
      BY <3>1, <3>2 DEF RowOf
    <3>4. call' = [step |-> "loaded", lines |-> call.lines, link |-> call.link,
                   template |-> t, methodology |-> m, says |-> call.says,
                   opener |-> call.opener]
      BY <1>7, <2>3, <3>2 DEF P!ReadCampaign, PromptInv, Shapes
    <3> QED
      BY <1>3, <2>1, <3>3, <3>4
  <2> QED
    BY <2>2, <2>3
<1> QED
  BY <1>5, <1>6, <1>7 DEF P!ReadAgent, P!LoadFails

\* What the prompt is made of: the agent's filled lines, below them the template's, and
\* the methodology.
LEMMA PromptTexts ==
  ASSUME NEW k \in DOMAIN P!SystemPrompt
  PROVE  \/ k \in DOMAIN call.lines /\ P!SystemPrompt[k] = call.lines[k]
            /\ call.lines[k] # P!Empty
         \/ k \in DOMAIN call.template /\ k \notin DOMAIN call.lines
            /\ P!SystemPrompt[k] = call.template[k]
         \/ call.methodology # P!Empty /\ P!SystemPrompt[k] = call.methodology
BY NoCallShape
DEF P!SystemPrompt, P!Over, P!Rendered, P!Merged, P!MethodologySection

LEMMA FilledLinesAreSaid ==
  ASSUME NEW k \in P!AgentKeys \cap P!PromptKeys, k \in DOMAIN call.lines
  PROVE  IF k \in DOMAIN P!SystemPrompt
         THEN P!SystemPrompt[k] = call.lines[k] /\ call.lines[k] # P!Empty
         ELSE call.lines[k] = P!Empty
<1>1. k \notin DOMAIN P!MethodologySection(call.methodology)
  BY NoCallShape DEF P!MethodologySection, P!AgentKeys, P!PersonaKeys, P!ScriptKeys
<1> QED
  BY <1>1 DEF P!SystemPrompt, P!Over, P!Rendered, P!Merged

\* The prompt is made of what was loaded.
LEMMA StartInv ==
  ASSUME PromptInv, P!Start
  PROVE  PromptInv'
<1>1. /\ UNCHANGED <<campaigns, agent, deployment, edits>>
      /\ call.step = "loaded"
      /\ call' = [call EXCEPT !.step = "live", !.says = P!SystemPrompt,
                              !.opener = P!Opener(call.lines)]
  BY DEF P!Start
<1>2. /\ call'.step = "live" /\ call'.says = P!SystemPrompt /\ call'.lines = call.lines
      /\ call' = [step |-> call'.step, lines |-> call'.lines, link |-> call'.link,
                  template |-> call'.template, methodology |-> call'.methodology,
                  says |-> call'.says, opener |-> call'.opener]
  BY <1>1 DEF PromptInv, Shapes
<1>3. Shapes'
  BY <1>1, <1>2 DEF PromptInv, Shapes
<1>4. Saved(agent.lines)' /\ \A c \in Campaigns : RowOf(campaigns'[c], c)
  BY <1>1 DEF PromptInv, Saved, OfSave
<1>5. Loaded'
  BY <1>2 DEF Loaded
<1>6. Read(call.lines) /\ Of(call.template, P!Chosen)
      /\ (call.methodology = P!Empty \/ call.methodology[1] = P!Chosen)
  BY <1>1 DEF PromptInv, Loaded
<1>7. ASSUME call.lines # P!NoLines, NEW column \in P!Columns
      PROVE  \E n \in 0..edits : \A k \in column \cap P!PromptKeys :
               IF k \in DOMAIN P!SystemPrompt THEN P!SystemPrompt[k] = <<"agent", n>>
                                              ELSE call.lines[k] = P!Empty
  <2>1. PICK n \in 0..edits : OfSave(call.lines, column, n)
    BY <1>6, <1>7 DEF Read, Saved
  <2>2. ASSUME NEW k \in column \cap P!PromptKeys
        PROVE  IF k \in DOMAIN P!SystemPrompt THEN P!SystemPrompt[k] = <<"agent", n>>
                                              ELSE call.lines[k] = P!Empty
    <3>1. k \in P!AgentKeys \cap P!PromptKeys /\ k \in DOMAIN call.lines
      BY <1>6, <1>7, KeysOfColumns DEF Read, Saved
    <3>2. call.lines[k] \in {P!Empty, <<"agent", n>>}
      BY <2>1 DEF OfSave
    <3> QED
      BY <3>1, <3>2, FilledLinesAreSaid
  <2> QED
    BY <2>2
<1>8. ASSUME NEW k \in DOMAIN P!SystemPrompt
      PROVE  P!SystemPrompt[k][1] \in {"agent", P!Chosen}
  <2>1. CASE k \in DOMAIN call.lines /\ P!SystemPrompt[k] = call.lines[k]
             /\ call.lines[k] # P!Empty
    <3>1. call.lines # P!NoLines
      BY <2>1, NoCallShape
    <3>2. PICK column \in P!Columns : k \in column
      BY <1>6, <2>1, <3>1, KeysOfColumns DEF Read, Saved
    <3>3. PICK n \in 0..edits : P!SystemPrompt[k] = <<"agent", n>>
      BY <1>6, <2>1, <3>1, <3>2 DEF Read, Saved, OfSave
    <3> QED
      BY <3>3
  <2>2. CASE k \in DOMAIN call.template /\ P!SystemPrompt[k] = call.template[k]
    BY <1>6, <2>2 DEF Of
  <2>3. CASE call.methodology # P!Empty /\ P!SystemPrompt[k] = call.methodology
    BY <1>6, <2>3
  <2> QED
    BY <2>1, <2>2, <2>3, PromptTexts
<1>9. P!PromptIsOfOnePiece'
  BY <1>1, <1>2, <1>7, <1>8 DEF P!PromptIsOfOnePiece, P!AgentKeepsItsLines,
     P!SpeaksForOneCampaign, P!Chosen
<1> QED
  BY <1>3, <1>4, <1>5, <1>9 DEF PromptInv

LEMMA PromptStep == PromptInv /\ [P!Next]_P!vars => PromptInv'
<1> SUFFICES ASSUME PromptInv, [P!Next]_P!vars PROVE PromptInv'
  OBVIOUS
<1>1. CASE UNCHANGED P!vars
  BY <1>1 DEF P!vars, PromptInv, Shapes, Saved, OfSave, Read, Loaded, P!Chosen, P!PromptIsOfOnePiece,
     P!AgentKeepsItsLines, P!SpeaksForOneCampaign
<1>2. CASE P!HangUp
  <2>1. UNCHANGED <<campaigns, agent, deployment, edits>> /\ call' = P!NoCall
    BY <1>2 DEF P!HangUp
  <2>2. Shapes' /\ Saved(agent.lines)'
    BY <2>1, NoCallShape DEF PromptInv, Shapes, Saved, OfSave
  <2> QED
    BY <2>1, <2>2, NoCallShape DEF PromptInv, Loaded, P!PromptIsOfOnePiece,
       P!AgentKeepsItsLines, P!SpeaksForOneCampaign
<1> QED
  BY <1>1, <1>2, CampaignEdited, AgentEdited, LoadKeepsInv, StartInv DEF P!Next

\* Whatever is edited while a call is set up (_sync_load_agent, _build_system_prompt): its
\* prompt has of each of the agent's columns the lines of one save, every filled one of
\* them, and beside them only texts of the one campaign that is chosen for it.
THEOREM PromptsAreOfOnePiece == P!Spec => []PromptIsOfOnePiece
<1>1. PromptInv => PromptIsOfOnePiece
  BY DEF PromptInv, PromptIsOfOnePiece
<1> QED
  BY <1>1, PromptInit, PromptStep, PTL DEF P!Spec
-----------------------------------------------------------------------------
(* The transcript. *)

(***************************************************************************)
(* The inductive invariant.  Events are numbered as they are written.  On  *)
(* their way they stay in order: those in the table, then those of a       *)
(* thread or of the batch, then those in the queue, which the sentinel     *)
(* ends (InOrder).  Until the task is late, what was written is still      *)
(* somewhere on the way, or was dropped (Somewhere), and the task is over  *)
(* only when nothing is left (Stages).                                     *)
(***************************************************************************)
Ascends(s) == \A i, j \in DOMAIN s : i < j /\ s[j] # T!Sentinel => s[i] < s[j]
Precedes(s, t) == \A i \in DOMAIN s, j \in DOMAIN t : t[j] # T!Sentinel => s[i] < t[j]
AreEvents(s) == s \in Seq(Nat) /\ \A i \in DOMAIN s : s[i] \in 1..written

TranscriptTyped ==
  /\ written \in Nat
  /\ queue \in Seq(Nat)
  /\ AreEvents(batch) /\ AreEvents(thread) /\ AreEvents(table)
  /\ \A i \in DOMAIN queue : \/ queue[i] \in 1..written
                             \/ /\ queue[i] = T!Sentinel /\ i = Len(queue)
                                /\ transcriptCall \notin {"new", "open"}

InOrder ==
  /\ Ascends(queue) /\ Ascends(batch) /\ Ascends(thread) /\ Ascends(table)
  /\ Precedes(batch, queue) /\ Precedes(thread, queue) /\ Precedes(table, queue)
  /\ Precedes(table, batch) /\ Precedes(table, thread)

Somewhere ==
  ~late => \A e \in 1..written :
    e \in ToSet(table) \/ e \in dropped \/ e \in ToSet(batch) \/ e \in ToSet(queue)

Stages ==
  /\ task \in {"off", "get", "flush", "last", "over"}
  /\ task \in {"last", "over"} => transcriptCall \notin {"new", "open"}
  /\ thread # <<>> => task = "over" /\ batch = <<>>
  /\ transcriptCall = "new" => task = "off"
  /\ ~late => /\ task \in {"last", "over"} => queue = <<>>
              /\ task = "over" => batch = <<>>
              /\ transcriptCall \in {"updating", "done"} => task = "over"
  /\ row = "closed" => transcriptCall = "done"

TranscriptInv == TranscriptTyped /\ InOrder /\ Somewhere /\ Stages
-----------------------------------------------------------------------------
\* What the operators on sequences do to the order and to the events there are.
LEMMA Appended ==
  ASSUME NEW s \in Seq(Nat), NEW n \in Nat
  PROVE  /\ Append(s, n) \in Seq(Nat) /\ Len(Append(s, n)) = Len(s) + 1
         /\ DOMAIN Append(s, n) = 1..(Len(s) + 1) /\ DOMAIN s = 1..Len(s)
         /\ \A i \in 1..Len(s) : Append(s, n)[i] = s[i]
         /\ Append(s, n)[Len(s) + 1] = n
         /\ \A e : e \in ToSet(Append(s, n)) <=> e \in ToSet(s) \/ e = n
<1>1. /\ Append(s, n) \in Seq(Nat) /\ Len(Append(s, n)) = Len(s) + 1
      /\ DOMAIN Append(s, n) = 1..(Len(s) + 1) /\ DOMAIN s = 1..Len(s)
      /\ \A i \in 1..Len(s) : Append(s, n)[i] = s[i]
      /\ Append(s, n)[Len(s) + 1] = n /\ Len(s) \in Nat
  OBVIOUS
<1>2. \A e : e \in ToSet(Append(s, n)) <=> e \in ToSet(s) \/ e = n
  BY <1>1 DEF ToSet
<1> QED
  BY <1>1, <1>2

LEMMA WithoutFirst ==
  ASSUME NEW s \in Seq(Nat), s # <<>>
  PROVE  /\ Tail(s) \in Seq(Nat) /\ Len(Tail(s)) = Len(s) - 1 /\ Len(s) \in Nat \ {0}
         /\ DOMAIN Tail(s) = 1..(Len(s) - 1) /\ DOMAIN s = 1..Len(s)
         /\ \A i \in 1..(Len(s) - 1) : Tail(s)[i] = s[i + 1]
         /\ Head(s) = s[1] /\ Head(s) \in Nat
         /\ \A e : e \in ToSet(s) <=> e = Head(s) \/ e \in ToSet(Tail(s))
<1>1. /\ Tail(s) \in Seq(Nat) /\ Len(Tail(s)) = Len(s) - 1 /\ Len(s) \in Nat \ {0}
      /\ DOMAIN Tail(s) = 1..(Len(s) - 1) /\ DOMAIN s = 1..Len(s)
      /\ \A i \in 1..(Len(s) - 1) : Tail(s)[i] = s[i + 1]
      /\ Head(s) = s[1] /\ Head(s) \in Nat
  OBVIOUS
<1>2. ASSUME NEW i \in 2..Len(s) PROVE s[i] = Tail(s)[i - 1] /\ i - 1 \in 1..(Len(s) - 1)
  BY <1>1
<1>3. ASSUME NEW e, e = Head(s) \/ e \in ToSet(Tail(s)) PROVE e \in ToSet(s)
  <2>1. CASE e = Head(s)
    BY <1>1, <2>1 DEF ToSet
  <2>2. CASE e \in ToSet(Tail(s))
    <3>1. PICK i \in 1..(Len(s) - 1) : e = s[i + 1]
      BY <1>1, <2>2 DEF ToSet
    <3>2. i + 1 \in DOMAIN s
      BY <1>1
    <3> QED
      BY <3>1, <3>2 DEF ToSet
  <2> QED
    BY <1>3, <2>1, <2>2
<1>4. ASSUME NEW e, e \in ToSet(s) PROVE e = Head(s) \/ e \in ToSet(Tail(s))
  <2>1. PICK i \in 1..Len(s) : e = s[i]
    BY <1>1, <1>4 DEF ToSet
  <2>2. CASE i \in 2..Len(s)
    BY <1>1, <1>2, <2>1, <2>2 DEF ToSet
  <2> QED
    BY <1>1, <2>1, <2>2
<1> QED
  BY <1>1, <1>3, <1>4

LEMMA Joined ==
  ASSUME NEW s \in Seq(Nat), NEW t \in Seq(Nat)
  PROVE  /\ s \o t \in Seq(Nat)
         /\ DOMAIN (s \o t) = 1..(Len(s) + Len(t)) /\ DOMAIN s = 1..Len(s)
         /\ DOMAIN t = 1..Len(t) /\ Len(s) \in Nat /\ Len(t) \in Nat
         /\ \A k \in 1..(Len(s) + Len(t)) :
              \/ k \in 1..Len(s) /\ (s \o t)[k] = s[k]
              \/ \E i \in 1..Len(t) : k = Len(s) + i /\ (s \o t)[k] = t[i]
         /\ \A e : e \in ToSet(s \o t) <=> e \in ToSet(s) \/ e \in ToSet(t)
<1>1. /\ s \o t \in Seq(Nat)
      /\ DOMAIN (s \o t) = 1..(Len(s) + Len(t)) /\ DOMAIN s = 1..Len(s)
      /\ DOMAIN t = 1..Len(t) /\ Len(s) \in Nat /\ Len(t) \in Nat
      /\ \A i \in 1..Len(s) : (s \o t)[i] = s[i]
      /\ \A i \in 1..Len(t) : (s \o t)[Len(s) + i] = t[i]
  OBVIOUS
<1>2. ASSUME NEW k \in 1..(Len(s) + Len(t)), k \notin 1..Len(s)
      PROVE  \E i \in 1..Len(t) : k = Len(s) + i
  <2>1. PICK i \in Int : i = k - Len(s)
    BY <1>1
  <2>2. i \in 1..Len(t) /\ k = Len(s) + i
    BY <1>1, <1>2, <2>1
  <2> QED
    BY <2>2
<1>3. ASSUME NEW e, e \in ToSet(s) \/ e \in ToSet(t) PROVE e \in ToSet(s \o t)
  <2>1. CASE e \in ToSet(s)
    BY <1>1, <2>1 DEF ToSet
  <2>2. CASE e \in ToSet(t)
    <3>1. PICK i \in 1..Len(t) : e = t[i]
      BY <1>1, <2>2 DEF ToSet
    <3>2. Len(s) + i \in 1..(Len(s) + Len(t)) /\ (s \o t)[Len(s) + i] = e
      BY <1>1, <3>1
    <3> QED
      BY <1>1, <3>2 DEF ToSet
  <2> QED
    BY <1>3, <2>1, <2>2
<1>4. ASSUME NEW e, e \in ToSet(s \o t) PROVE e \in ToSet(s) \/ e \in ToSet(t)
  <2>1. PICK k \in 1..(Len(s) + Len(t)) : e = (s \o t)[k]
    BY <1>1, <1>4 DEF ToSet
  <2>2. CASE k \in 1..Len(s)
    BY <1>1, <2>1, <2>2 DEF ToSet
  <2>3. CASE k \notin 1..Len(s)
    BY <1>1, <1>2, <2>1, <2>3 DEF ToSet
  <2> QED
    BY <2>2, <2>3
<1>5. \A k \in 1..(Len(s) + Len(t)) :
        \/ k \in 1..Len(s) /\ (s \o t)[k] = s[k]
        \/ \E i \in 1..Len(t) : k = Len(s) + i /\ (s \o t)[k] = t[i]
  BY <1>1, <1>2
<1> QED
  BY <1>1, <1>3, <1>4, <1>5

\* Two that are in order, one after the other.
LEMMA JoinedInOrder ==
  ASSUME NEW s \in Seq(Nat), NEW t \in Seq(Nat), AreEvents(s), AreEvents(t),
         Ascends(s), Ascends(t), Precedes(s, t)
  PROVE  /\ AreEvents(s \o t) /\ Ascends(s \o t)
         /\ \A u : Precedes(s, u) /\ Precedes(t, u) => Precedes(s \o t, u)
<1> PICK st : st = s \o t
  OBVIOUS
<1>1. /\ DOMAIN s = 1..Len(s) /\ DOMAIN t = 1..Len(t) /\ Len(s) \in Nat /\ Len(t) \in Nat
      /\ st \in Seq(Nat) /\ DOMAIN st = 1..(Len(s) + Len(t))
      /\ \A k \in 1..(Len(s) + Len(t)) :
           \/ k \in 1..Len(s) /\ st[k] = s[k]
           \/ \E i \in 1..Len(t) : k = Len(s) + i /\ st[k] = t[i]
  BY Joined
<1>2. \A k \in DOMAIN st : \/ k \in 1..Len(s) /\ st[k] = s[k]
                           \/ \E i \in 1..Len(t) : k = Len(s) + i /\ st[k] = t[i]
  BY <1>1
<1>3. AreEvents(st)
  BY <1>2, <1>1 DEF AreEvents
<1>4. Ascends(st)
  <2> SUFFICES ASSUME NEW i \in DOMAIN st, NEW j \in DOMAIN st, i < j, st[j] # T!Sentinel
               PROVE  st[i] < st[j]
    BY DEF Ascends
  <2>1. CASE i \in 1..Len(s) /\ st[i] = s[i]
    BY <1>2, <1>1, <2>1 DEF Ascends, Precedes
  <2>2. CASE \E k \in 1..Len(t) : i = Len(s) + k /\ st[i] = t[k]
    <3>1. PICK k \in 1..Len(t) : i = Len(s) + k /\ st[i] = t[k]
      BY <2>2
    <3>2. ~(j \in 1..Len(s))
      BY <1>1, <3>1
    <3>3. PICK m \in 1..Len(t) : j = Len(s) + m /\ st[j] = t[m]
      BY <1>2, <3>2
    <3>4. k < m
      BY <1>1, <3>1, <3>3
    <3> QED
      BY <1>1, <3>1, <3>3, <3>4 DEF Ascends
  <2> QED
    BY <1>2, <2>1, <2>2
<1>5. ASSUME NEW u, Precedes(s, u), Precedes(t, u) PROVE Precedes(st, u)
  BY <1>2, <1>1, <1>5 DEF Precedes
<1> QED
  BY <1>3, <1>4, <1>5

LEMMA TranscriptInit == T!Init => TranscriptInv
BY DEF T!Init, TranscriptInv, TranscriptTyped, AreEvents, InOrder, Ascends, Precedes, Somewhere,
       Stages
\* Where nothing moves, only the stages do.
LEMMA StageMoves ==
  ASSUME TranscriptInv, T!Start \/ T!BatchTimeout \/ T!Drained \/ T!UpdateRow
  PROVE  TranscriptInv'
<1>1. UNCHANGED <<written, queue, batch, thread, table, dropped, late>>
  BY DEF T!Start, T!BatchTimeout, T!Drained, T!UpdateRow, T!caller
<1>2. transcriptCall' \in {"new", "open"} => transcriptCall \in {"new", "open"}
  BY DEF T!Start, T!BatchTimeout, T!Drained, T!UpdateRow, T!caller
<1>3. TranscriptTyped' /\ InOrder' /\ Somewhere'
  BY <1>1, <1>2 DEF TranscriptInv, TranscriptTyped, AreEvents, InOrder, Ascends, Precedes,
     Somewhere
<1>4. Stages'
  BY <1>1 DEF TranscriptInv, Stages, T!Start, T!BatchTimeout, T!Drained, T!UpdateRow, T!caller
<1> QED
  BY <1>3, <1>4 DEF TranscriptInv

\* write() numbers an event higher than all before.
LEMMA WriteKeepsInv ==
  ASSUME TranscriptInv, T!Write
  PROVE  TranscriptInv'
<1>1. /\ written \in Nat /\ queue \in Seq(Nat) /\ written' = written + 1
      /\ queue' = Append(queue, written + 1) /\ transcriptCall = "open"
      /\ UNCHANGED <<transcriptCall, row, late, task, batch, thread, table, dropped>>
  BY DEF T!Write, T!caller, TranscriptInv, TranscriptTyped
<1>2. /\ queue' \in Seq(Nat) /\ DOMAIN queue = 1..Len(queue) /\ Len(queue) \in Nat
      /\ DOMAIN queue' = 1..(Len(queue) + 1) /\ queue'[Len(queue) + 1] = written + 1
      /\ \A i \in 1..Len(queue) : queue'[i] = queue[i]
      /\ \A e : e \in ToSet(queue') <=> e \in ToSet(queue) \/ e = written + 1
  BY <1>1, Appended
<1>3. \A i \in 1..Len(queue) : queue[i] \in 1..written
  BY <1>1, <1>2 DEF TranscriptInv, TranscriptTyped
<1>4. ASSUME NEW s,
AreEvents(s) PROVE \A i \in DOMAIN s : s[i] < written + 1 /\ s[i] \in 1..written'
  BY <1>1, <1>4 DEF AreEvents
<1>5. TranscriptTyped'
  BY <1>1, <1>2, <1>3, <1>4 DEF TranscriptInv, TranscriptTyped, AreEvents
<1>6. Ascends(queue')
  BY <1>1, <1>2, <1>3 DEF TranscriptInv, InOrder, Ascends
<1>7. ASSUME NEW s, AreEvents(s), Precedes(s, queue) PROVE Precedes(s, queue')
  BY <1>1, <1>2, <1>4, <1>7 DEF Precedes
<1>8. InOrder'
  BY <1>1, <1>6, <1>7 DEF TranscriptInv, TranscriptTyped, InOrder, Ascends, Precedes
<1>9. Somewhere'
  BY <1>1, <1>2 DEF TranscriptInv, Somewhere
<1>10. Stages'
  BY <1>1 DEF TranscriptInv, Stages
<1> QED
  BY <1>5, <1>8, <1>9, <1>10 DEF TranscriptInv

\* stop() puts the sentinel behind the last event.
LEMMA StopKeepsInv ==
  ASSUME TranscriptInv, T!Stop
  PROVE  TranscriptInv'
<1>1. /\ written \in Nat /\ queue \in Seq(Nat) /\ transcriptCall = "open"
      /\ queue' = Append(queue, 0) /\ transcriptCall' = "stopping"
      /\ UNCHANGED <<row, late, written, task, batch, thread, table, dropped>>
  BY DEF T!Stop, T!Sentinel, TranscriptInv, TranscriptTyped
<1>2. /\ queue' \in Seq(Nat) /\ DOMAIN queue = 1..Len(queue) /\ Len(queue) \in Nat
      /\ DOMAIN queue' = 1..(Len(queue) + 1) /\ queue'[Len(queue) + 1] = 0
      /\ Len(queue') = Len(queue) + 1
      /\ \A i \in 1..Len(queue) : queue'[i] = queue[i]
      /\ \A e : e \in ToSet(queue) => e \in ToSet(queue')
  BY <1>1, Appended
<1>3. TranscriptTyped'
  BY <1>1, <1>2 DEF TranscriptInv, TranscriptTyped, AreEvents, T!Sentinel
<1>4. Ascends(queue') /\ \A s : Precedes(s, queue) => Precedes(s, queue')
  BY <1>1, <1>2 DEF TranscriptInv, InOrder, Ascends, Precedes, T!Sentinel
<1>5. InOrder'
  BY <1>1, <1>4 DEF TranscriptInv, InOrder, Ascends, Precedes
<1>6. Somewhere'
  BY <1>1, <1>2 DEF TranscriptInv, Somewhere
<1>7. Stages'
  BY <1>1 DEF TranscriptInv, Stages
<1> QED
  BY <1>3, <1>5, <1>6, <1>7 DEF TranscriptInv

\* The task takes the next item: an event joins the batch, and behind the sentinel is nothing.
LEMMA TakeKeepsInv ==
  ASSUME TranscriptInv, T!Take
  PROVE  TranscriptInv'
<1>1. /\ written \in Nat /\ queue \in Seq(Nat) /\ queue # <<>> /\ batch \in Seq(Nat)
      /\ queue' = Tail(queue) /\ task = "get" /\ thread = <<>>
      /\ UNCHANGED <<transcriptCall, row, late, written, thread, table, dropped>>
  BY DEF T!Take, T!caller, TranscriptInv, TranscriptTyped, AreEvents, Stages
<1>2. /\ Tail(queue) \in Seq(Nat) /\ Len(Tail(queue)) = Len(queue) - 1
      /\ Len(queue) \in Nat \ {0} /\ DOMAIN queue = 1..Len(queue)
      /\ DOMAIN Tail(queue) = 1..(Len(queue) - 1)
      /\ \A i \in 1..(Len(queue) - 1) : Tail(queue)[i] = queue[i + 1]
      /\ Head(queue) = queue[1] /\ Head(queue) \in Nat
      /\ \A e : e \in ToSet(queue) <=> e = Head(queue) \/ e \in ToSet(Tail(queue))
  BY <1>1, WithoutFirst
<1>3. \A i \in DOMAIN queue' : \/ queue'[i] \in 1..written
                               \/ /\ queue'[i] = 0 /\ i = Len(queue')
                                  /\ transcriptCall' \notin {"new", "open"}
  BY <1>1, <1>2 DEF TranscriptInv, TranscriptTyped, T!Sentinel
<1>4. /\ 1 \in DOMAIN queue
      /\ \A j \in DOMAIN queue' : j \in Nat \ {0} /\ j + 1 \in DOMAIN queue
                                  /\ queue'[j] = queue[j + 1]
  BY <1>1, <1>2
<1>5. ASSUME NEW s, Precedes(s, queue) PROVE Precedes(s, queue')
  BY <1>4, <1>5 DEF Precedes
<1>6. Ascends(queue')
  <2> SUFFICES ASSUME NEW i \in DOMAIN queue', NEW j \in DOMAIN queue', i < j,
                      queue'[j] # T!Sentinel
               PROVE  queue'[i] < queue'[j]
    BY DEF Ascends
  <2>1. i + 1 < j + 1
    BY <1>4
  <2> QED
    BY <1>4, <2>1 DEF TranscriptInv, InOrder, Ascends
<1>7. CASE Head(queue) = 0
  <2>1. batch' = batch /\ task' = "last"
    BY <1>7 DEF T!Take, T!Sentinel
  <2>2. Len(queue) = 1 /\ transcriptCall \notin {"new", "open"}
    BY <1>1, <1>2, <1>4, <1>7 DEF TranscriptInv, TranscriptTyped, T!Sentinel
  <2>3. queue' = <<>>
    BY <1>1, <1>2, <2>2
  <2>4. TranscriptTyped'
    BY <1>1, <1>2, <1>3, <2>1 DEF TranscriptInv, TranscriptTyped, AreEvents, T!Sentinel
  <2>5. InOrder'
    BY <1>1, <1>5, <1>6, <2>1 DEF TranscriptInv, InOrder, Ascends, Precedes
  <2>6. Somewhere'
    BY <1>1, <1>2, <1>7, <2>1 DEF TranscriptInv, Somewhere
  <2>7. Stages'
    BY <1>1, <2>1, <2>2, <2>3 DEF TranscriptInv, Stages
  <2> QED
    BY <2>4, <2>5, <2>6, <2>7 DEF TranscriptInv
<1>8. CASE Head(queue) # 0
  <2> PICK e \in Nat : e = Head(queue)
    BY <1>2
  <2>1. batch' = Append(batch, e) /\ task' \in {"get", "flush"} /\ e \in 1..written
    BY <1>1, <1>2, <1>4, <1>8 DEF T!Take, T!Sentinel, TranscriptInv, TranscriptTyped
  <2>2. /\ batch' \in Seq(Nat) /\ DOMAIN batch = 1..Len(batch) /\ Len(batch) \in Nat
        /\ DOMAIN batch' = 1..(Len(batch) + 1) /\ batch'[Len(batch) + 1] = e
        /\ \A i \in 1..Len(batch) : batch'[i] = batch[i]
        /\ \A d : d \in ToSet(batch') <=> d \in ToSet(batch) \/ d = e
    BY <1>1, <2>1, Appended
  <2>3. AreEvents(batch')
    BY <2>1, <2>2 DEF TranscriptInv, TranscriptTyped, AreEvents
  <2>4. queue[1] # T!Sentinel /\ e = queue[1]
    BY <1>2, <1>8 DEF T!Sentinel
  <2>5. \A s : Precedes(s, queue) => \A i \in DOMAIN s : s[i] < e
    <3>1. ASSUME NEW s, Precedes(s, queue) PROVE \A i \in DOMAIN s : s[i] < queue[1]
      BY <1>4, <2>4, <3>1 DEF Precedes
    <3> QED
      BY <2>4, <3>1
  <2>6. Ascends(batch')
    <3>1. Ascends(batch) /\ \A i \in DOMAIN batch : batch[i] < e
      BY <2>5 DEF TranscriptInv, InOrder
    <3> SUFFICES ASSUME NEW i \in DOMAIN batch', NEW j \in DOMAIN batch', i < j,
                        batch'[j] # T!Sentinel
                 PROVE  batch'[i] < batch'[j]
      BY DEF Ascends
    <3>2. i \in DOMAIN batch /\ batch'[i] = batch[i]
      BY <2>2
    <3>3. CASE j = Len(batch) + 1
      BY <2>2, <3>1, <3>2, <3>3
    <3>4. CASE j # Len(batch) + 1
      <4>1. j \in DOMAIN batch /\ batch'[j] = batch[j]
        BY <2>2, <3>4
      <4> QED
        BY <3>1, <3>2, <4>1 DEF Ascends
    <3> QED
      BY <3>3, <3>4
  <2>7. \A j \in DOMAIN queue' : queue'[j] # T!Sentinel => e < queue'[j]
    <3> SUFFICES ASSUME NEW j \in DOMAIN queue', queue'[j] # T!Sentinel PROVE e < queue'[j]
      OBVIOUS
    <3>1. 1 < j + 1
      BY <1>4
    <3> QED
      BY <1>2, <1>4, <3>1 DEF TranscriptInv, InOrder, Ascends
  <2>8. Precedes(batch', queue')
    <3>1. \A i \in DOMAIN batch' : (i \in DOMAIN batch /\ batch'[i] = batch[i]) \/ batch'[i] = e
      BY <2>2
    <3>2. Precedes(batch, queue')
      BY <1>5 DEF TranscriptInv, InOrder
    <3> QED
      BY <2>7, <3>1, <3>2 DEF Precedes
  <2>9. \A i \in DOMAIN table : table[i] < e
    BY <2>5 DEF TranscriptInv, InOrder
  <2>10. Precedes(table, batch')
    BY <2>2, <2>9 DEF TranscriptInv, InOrder, Precedes
  <2>11. TranscriptTyped'
    BY <1>1, <1>2, <1>3, <2>3 DEF TranscriptInv, TranscriptTyped, AreEvents, T!Sentinel
  <2>12. InOrder'
    BY <1>1, <1>5, <1>6, <2>6, <2>8, <2>10 DEF TranscriptInv, InOrder, Ascends, Precedes
  <2>13. Somewhere'
    BY <1>1, <1>2, <2>1, <2>2 DEF TranscriptInv, Somewhere
  <2>14. Stages'
    BY <1>1, <2>1 DEF TranscriptInv, Stages
  <2> QED
    BY <2>11, <2>12, <2>13, <2>14 DEF TranscriptInv
<1> QED
  BY <1>7, <1>8

\* An insert: what it was for is in the table, behind what was there, or is dropped.
LEMMA InsertKeepsOrder ==
  ASSUME TranscriptInv, NEW s, AreEvents(s), Ascends(s), Precedes(table, s), T!Insert(s)
  PROVE  /\ AreEvents(table') /\ Ascends(table')
         /\ \A u : Precedes(table, u) /\ Precedes(s, u) => Precedes(table', u)
         /\ \A e : e \in ToSet(table) \/ e \in dropped \/ e \in ToSet(s) =>
              e \in ToSet(table') \/ e \in dropped'
<1>1. s \in Seq(Nat) /\ table \in Seq(Nat) /\ AreEvents(table) /\ Ascends(table)
  BY DEF TranscriptInv, TranscriptTyped, InOrder, AreEvents
<1>2. CASE table' = table \o s /\ dropped' = dropped
  <2>1. AreEvents(table') /\ Ascends(table')
    BY <1>1, <1>2, JoinedInOrder
  <2>2. \A u : Precedes(table, u) /\ Precedes(s, u) => Precedes(table', u)
    BY <1>1, <1>2, JoinedInOrder
  <2>3. \A e : e \in ToSet(table') <=> e \in ToSet(table) \/ e \in ToSet(s)
    BY <1>1, <1>2, Joined
  <2> QED
    BY <1>2, <2>1, <2>2, <2>3
<1>3. CASE table' = table /\ dropped' = dropped \cup ToSet(s)
  BY <1>1, <1>3 DEF AreEvents, Ascends, Precedes
<1> QED
  BY <1>2, <1>3 DEF T!Insert, T!ToSet, ToSet

\* _flush: the batch is in the table, or dropped.
LEMMA FlushKeepsInv ==
  ASSUME TranscriptInv, T!Flush
  PROVE  TranscriptInv'
<1>1. /\ batch' = <<>> /\ task' = (IF task = "last" THEN "over" ELSE "get")
      /\ task \in {"flush", "last"} /\ thread = <<>>
      /\ UNCHANGED <<transcriptCall, row, late, written, queue, thread>>
  BY DEF T!Flush, T!caller, TranscriptInv, Stages
<1>2. /\ AreEvents(table') /\ Ascends(table') /\ Precedes(table', queue)
      /\ \A e : e \in ToSet(table) \/ e \in dropped \/ e \in ToSet(batch) =>
           e \in ToSet(table') \/ e \in dropped'
  <2>1. CASE batch = <<>> /\ UNCHANGED <<table, dropped>>
    BY <2>1 DEF TranscriptInv, TranscriptTyped, InOrder, AreEvents, Ascends, Precedes, ToSet
  <2>2. CASE T!Insert(batch)
    BY <2>2, InsertKeepsOrder DEF TranscriptInv, TranscriptTyped, InOrder
  <2> QED
    BY <2>1, <2>2 DEF T!Flush
<1>3. AreEvents(batch') /\ Ascends(batch') /\ Precedes(batch', queue) /\ Precedes(table',
batch')
      /\ Precedes(table', thread)
  BY <1>1 DEF AreEvents, Ascends, Precedes
<1>4. \A s : (AreEvents(s)' <=> AreEvents(s))
  BY <1>1 DEF AreEvents
<1>5. TranscriptTyped'
  BY <1>1, <1>2, <1>3 DEF TranscriptInv, TranscriptTyped, AreEvents
<1>6. InOrder'
  BY <1>1, <1>2, <1>3 DEF TranscriptInv, InOrder, Ascends, Precedes
<1>7. Somewhere'
  BY <1>1, <1>2 DEF TranscriptInv, Somewhere
<1>8. Stages'
  BY <1>1 DEF TranscriptInv, Stages
<1> QED
  BY <1>5, <1>6, <1>7, <1>8 DEF TranscriptInv

\* The task is cancelled, and its thread may go on with the batch.
LEMMA TimeoutKeepsInv ==
  ASSUME TranscriptInv, T!DrainTimeout
  PROVE  TranscriptInv'
<1>1. /\ late' /\ batch' = <<>> /\ task' = "over" /\ task # "over" /\ thread = <<>>
      /\ thread' = batch \/ thread' = <<>>
      /\ transcriptCall = "stopping" /\ transcriptCall' = "updating"
      /\ UNCHANGED <<row, written, queue, table, dropped>>
  BY DEF T!DrainTimeout, TranscriptInv, Stages
<1>2. TranscriptTyped'
  BY <1>1 DEF TranscriptInv, TranscriptTyped, AreEvents
<1>3. InOrder'
  BY <1>1 DEF TranscriptInv, InOrder, Ascends, Precedes
<1>4. Somewhere' /\ Stages'
  BY <1>1 DEF TranscriptInv, Somewhere, Stages
<1> QED
  BY <1>2, <1>3, <1>4 DEF TranscriptInv

\* The thread that was left behind ends its insert.
LEMMA ThreadKeepsInv ==
  ASSUME TranscriptInv, T!Thread
  PROVE  TranscriptInv'
<1>1. /\ thread # <<>> /\ thread' = <<>> /\ T!Insert(thread) /\ batch = <<>> /\ task = "over"
      /\ UNCHANGED <<transcriptCall, row, late, written, queue, task, batch>>
  BY DEF T!Thread, T!caller, TranscriptInv, Stages
<1>2. /\ AreEvents(table') /\ Ascends(table') /\ Precedes(table', queue)
      /\ \A e : e \in ToSet(table) \/ e \in dropped => e \in ToSet(table') \/ e \in dropped'
  BY <1>1, InsertKeepsOrder DEF TranscriptInv, TranscriptTyped, InOrder
<1>3. AreEvents(thread') /\ Ascends(thread') /\ Precedes(thread', queue)
      /\ Precedes(table', batch) /\ Precedes(table', thread')
  BY <1>1 DEF AreEvents, Ascends, Precedes
<1>4. TranscriptTyped'
  BY <1>1, <1>2, <1>3 DEF TranscriptInv, TranscriptTyped, AreEvents
<1>5. InOrder'
  BY <1>1, <1>2, <1>3 DEF TranscriptInv, InOrder, Ascends, Precedes
<1>6. Somewhere'
  BY <1>1, <1>2 DEF TranscriptInv, Somewhere
<1>7. Stages'
  BY <1>1 DEF TranscriptInv, Stages
<1> QED
  BY <1>4, <1>5, <1>6, <1>7 DEF TranscriptInv

LEMMA TranscriptStep == TranscriptInv /\ [T!Next]_T!vars => TranscriptInv'
<1> SUFFICES ASSUME TranscriptInv, [T!Next]_T!vars PROVE TranscriptInv'
  OBVIOUS
<1>1. CASE UNCHANGED T!vars
  BY <1>1 DEF T!vars, T!caller, TranscriptInv, TranscriptTyped, AreEvents, InOrder, Ascends,
     Precedes, Somewhere, Stages
<1>2. CASE T!Next
  BY <1>1, <1>2, StageMoves, WriteKeepsInv, TakeKeepsInv, FlushKeepsInv, StopKeepsInv,
     TimeoutKeepsInv, ThreadKeepsInv
  DEF T!Next, T!Done
<1> QED
  BY <1>1, <1>2

\* Whatever inserts fail, and whatever a cancelled task leaves to a thread (_flush_loop,
\* _flush, stop): the table is in the order of the call and has nothing twice; and a row that
\* was closed without a time-out has every event that no failed insert took.
THEOREM TranscriptsAreWhole == T!Spec => []TranscriptIsWhole
<1>1. TranscriptInv => TranscriptIsWhole
  <2> SUFFICES ASSUME TranscriptInv PROVE TranscriptIsWhole
    OBVIOUS
  <2>1. \A i \in DOMAIN table : table[i] \in 1..written /\ table[i] # 0
    BY DEF TranscriptInv, TranscriptTyped, AreEvents
  <2>2. T!TranscriptInOrder
    BY <2>1 DEF TranscriptInv, InOrder, Ascends, T!Sentinel, T!TranscriptInOrder
  <2>3. ASSUME row = "closed", ~late
        PROVE  \A e \in 1..written : e \in ToSet(table) \/ e \in dropped
    <3>1. queue = <<>> /\ batch = <<>>
      BY <2>3 DEF TranscriptInv, Stages
    <3>2. \A e : e \notin ToSet(<<>>)
      BY DEF ToSet
    <3> QED
      BY <2>3, <3>1, <3>2 DEF TranscriptInv, Somewhere
  <2>4. T!ClosedCallIsWhole
    BY <2>3 DEF T!ClosedCallIsWhole, T!ToSet, ToSet
  <2> QED
    BY <2>2, <2>4 DEF TranscriptIsWhole, T!TranscriptIsWhole
<1> QED
  BY <1>1, TranscriptInit, TranscriptStep, PTL DEF T!Spec
-----------------------------------------------------------------------------
(* The recording. *)

(***************************************************************************)
(* The inductive invariant.  While the file is open both buffers begin     *)
(* behind the last sample written, both sides have spoken at least that    *)
(* far, and one of them not a sample further (Paired): that no side is     *)
(* ahead in the file is what makes the leftovers fall into place at the    *)
(* end.  Once closed it is what the run checks, and only what is stored is *)
(* removed or linked (Kept).                                               *)
(***************************************************************************)
Sample == [in : Nat, out : Nat]
IsBuffer(b) == b = [from |-> b.from, to |-> b.to] /\ b.from \in Nat /\ b.to \in Nat

\* Buffers a and b follow on the samples of s, and so far both sides are in each.
Follow(a, b, s) ==
  /\ IsBuffer(a) /\ IsBuffer(b) /\ s \in Seq(Sample)
  /\ a.from = 2 * Len(s) + 1 /\ b.from = 2 * Len(s) + 1
  /\ a.to >= 2 * Len(s) /\ b.to >= 2 * Len(s)
  /\ \A k \in 1..Len(s) : s[k] = [in |-> 2 * k - 1, out |-> 2 * k - 1]

Paired(a, b, s) == Follow(a, b, s) /\ (a.to <= 2 * Len(s) + 1 \/ b.to <= 2 * Len(s) + 1)

Kept ==
  /\ file \in {"open", "closed", "removed"}
  /\ file = "open" => object = "none"
  /\ file = "removed" => object = "stored"
  /\ link => object = "stored"

RecorderInv ==
  /\ Kept
  /\ file = "open" => Paired(inbound, outbound, wav)
  /\ file # "open" => R!PairedByCount /\ R!RecordingIsComplete
-----------------------------------------------------------------------------
\* The whole samples of n bytes.
LEMMA Halves ==
  ASSUME NEW n \in Nat
  PROVE  /\ n \div 2 \in Nat /\ R!Even(n) = 2 * (n \div 2) /\ R!Even(n) \div 2 = n \div 2
         /\ n - 1 <= 2 * (n \div 2) /\ 2 * (n \div 2) <= n
<1>1. n \div 2 \in Nat /\ n % 2 \in 0..1 /\ n = 2 * (n \div 2) + (n % 2)
  OBVIOUS
<1>2. R!Even(n) = 2 * (n \div 2)
  BY <1>1 DEF R!Even
<1>3. \A h \in Nat : (2 * h) \div 2 = h
  OBVIOUS
<1> QED
  BY <1>1, <1>2, <1>3

\* The longer and the shorter of two.
LEMMA OfTwo ==
  ASSUME NEW m \in Nat, NEW n \in Nat
  PROVE  /\ R!Max({m, n}) = (IF m >= n THEN m ELSE n)
         /\ R!Min({m, n}) = (IF m >= n THEN n ELSE m)
BY DEF R!Max, R!Min

\* Samples appended to samples.
LEMMA SamplesAppended ==
  ASSUME NEW s \in Seq(Sample), NEW h \in Nat, NEW f \in [1..h -> Sample]
  PROVE  /\ s \o f \in Seq(Sample) /\ Len(s \o f) = Len(s) + h /\ Len(s) \in Nat
         /\ \A k \in 1..Len(s) : (s \o f)[k] = s[k]
         /\ \A k \in (Len(s) + 1)..(Len(s) + h) : (s \o f)[k] = f[k - Len(s)]
<1>1. f \in Seq(Sample) /\ Len(f) = h
  OBVIOUS
<1> QED
  BY <1>1

\* Mixing writes what both sides have, and leaves one of them without a whole sample.
LEMMA MixPairs ==
  ASSUME NEW a, NEW b, Follow(a, b, wav), R!Mix(a, b)
  PROVE  Paired(inbound', outbound', wav')
<1>1. PICK n \in Nat, p \in Nat, q \in Nat :
      /\ n = Len(wav) /\ p = R!Size(a) /\ q = R!Size(b)
      /\ a = [from |-> 2 * n + 1, to |-> 2 * n + p]
      /\ b = [from |-> 2 * n + 1, to |-> 2 * n + q]
  <2>1. /\ Len(wav) \in Nat /\ R!Size(a) \in Nat /\ R!Size(b) \in Nat
        /\ a = [from |-> 2 * Len(wav) + 1, to |-> 2 * Len(wav) + R!Size(a)]
        /\ b = [from |-> 2 * Len(wav) + 1, to |-> 2 * Len(wav) + R!Size(b)]
    BY DEF Follow, IsBuffer, R!Size
  <2> QED
    BY <2>1
<1> PICK m \in Nat : m = IF p >= q THEN q ELSE p
  OBVIOUS
<1>2. PICK h \in Nat : /\ R!Even(m) = 2 * h /\ R!Even(m) \div 2 = h
                       /\ m - 1 <= 2 * h /\ 2 * h <= m
  BY Halves
<1>3. PICK s : s = [k \in 1..h |-> [in |-> 2 * n + 1 + 2 * (k - 1),
                                    out |-> 2 * n + 1 + 2 * (k - 1)]]
  OBVIOUS
<1>4. /\ wav \in Seq(Sample)
      /\ \A k \in 1..n : wav[k] = [in |-> 2 * k - 1, out |-> 2 * k - 1]
  BY <1>1 DEF Follow
<1>5. /\ wav' = wav \o s
      /\ inbound' = [from |-> 2 * (n + h) + 1, to |-> 2 * n + p]
      /\ outbound' = [from |-> 2 * (n + h) + 1, to |-> 2 * n + q]
  <2>1. R!Min({p, q}) = m
    BY OfTwo
  <2>2. /\ R!Min({R!Size(a), R!Size(b)}) = m /\ a.from = 2 * n + 1 /\ b.from = 2 * n + 1
    BY <1>1, <2>1
  <2>3. /\ wav' = wav \o s
        /\ inbound' = [a EXCEPT !.from = @ + 2 * h]
        /\ outbound' = [b EXCEPT !.from = @ + 2 * h]
    BY <1>2, <1>3, <2>2 DEF R!Mix, R!Paired, R!DropBytes
  <2>4. 2 * n + 1 + 2 * h = 2 * (n + h) + 1
    OBVIOUS
  <2> QED
    BY <1>1, <2>2, <2>3, <2>4
<1>6. s \in [1..h -> Sample]
  <2>1. \A k \in 1..h : 2 * n + 1 + 2 * (k - 1) \in Nat
    OBVIOUS
  <2> QED
    BY <1>3, <2>1 DEF Sample
<1>7. /\ wav' \in Seq(Sample) /\ Len(wav') = n + h
      /\ \A k \in 1..n : wav'[k] = wav[k]
      /\ \A k \in (n + 1)..(n + h) : wav'[k] = s[k - n]
  <2>1. /\ wav' \in Seq(Sample) /\ Len(wav') = Len(wav) + h
        /\ \A k \in 1..Len(wav) : wav'[k] = wav[k]
        /\ \A k \in (Len(wav) + 1)..(Len(wav) + h) : wav'[k] = s[k - Len(wav)]
    BY <1>4, <1>5, <1>6, SamplesAppended
  <2> QED
    BY <1>1, <2>1
<1>8. ASSUME NEW k \in 1..(n + h) PROVE wav'[k] = [in |-> 2 * k - 1, out |-> 2 * k - 1]
  <2>1. CASE k \in 1..n
    BY <1>4, <1>7, <2>1
  <2>2. CASE k \in (n + 1)..(n + h)
    <3>1. PICK j \in Int : j = k - n
      OBVIOUS
    <3>2. j \in 1..h /\ 2 * n + 1 + 2 * (j - 1) = 2 * k - 1
      BY <2>2, <3>1
    <3>3. wav'[k] = s[j]
      BY <1>7, <2>2, <3>1
    <3> QED
      BY <1>3, <3>2, <3>3
  <2> QED
    BY <2>1, <2>2
<1>9. /\ 2 * n + p >= 2 * (n + h) /\ 2 * n + q >= 2 * (n + h)
      /\ 2 * n + p <= 2 * (n + h) + 1 \/ 2 * n + q <= 2 * (n + h) + 1
  BY <1>2
<1>10. /\ 2 * (n + h) + 1 \in Nat /\ 2 * n + p \in Nat /\ 2 * n + q \in Nat
  OBVIOUS
<1>11. /\ IsBuffer(inbound') /\ inbound'.from = 2 * (n + h) + 1 /\ inbound'.to = 2 * n + p
       /\ IsBuffer(outbound') /\ outbound'.from = 2 * (n + h) + 1 /\ outbound'.to = 2 * n + q
  BY <1>5, <1>10 DEF IsBuffer
<1> QED
  BY <1>7, <1>8, <1>9, <1>11 DEF Paired, Follow

\* A buffer follows on the samples when more bytes are in it.
LEMMA MoreBytes ==
  ASSUME NEW b, IsBuffer(b), NEW n \in Nat
  PROVE  LET c == [b EXCEPT !.to = @ + n] IN
         IsBuffer(c) /\ c.from = b.from /\ c.to = b.to + n
<1>1. [b EXCEPT !.to = @ + n] = [from |-> b.from, to |-> b.to + n]
  BY DEF IsBuffer
<1> QED
  BY <1>1 DEF IsBuffer

\* While the file is open a chunk keeps the invariant.
LEMMA ChunksKeepInv ==
  ASSUME Chunks \subseteq Nat, RecorderInv, R!WriteInbound \/ R!WriteOutbound
  PROVE  RecorderInv'
<1>1. /\ file = "open" /\ file' = "open" /\ UNCHANGED <<object, link>>
      /\ Follow(inbound, outbound, wav)
  BY DEF R!WriteInbound, R!WriteOutbound, RecorderInv, Paired
<1>2. CASE R!WriteInbound
  <2> PICK n \in Nat : R!Mix([inbound EXCEPT !.to = @ + n], outbound)
    BY <1>2 DEF R!WriteInbound
  <2>1. Follow([inbound EXCEPT !.to = @ + n], outbound, wav)
    BY <1>1, MoreBytes DEF Follow, IsBuffer
  <2> QED
    BY <1>1, <2>1, MixPairs DEF RecorderInv, Kept
<1>3. CASE R!WriteOutbound
  <2> PICK n \in Nat : R!Mix(inbound, [outbound EXCEPT !.to = @ + n])
    BY <1>3 DEF R!WriteOutbound
  <2>1. Follow(inbound, [outbound EXCEPT !.to = @ + n], wav)
    BY <1>1, MoreBytes DEF Follow, IsBuffer
  <2> QED
    BY <1>1, <2>1, MixPairs DEF RecorderInv, Kept
<1> QED
  BY <1>2, <1>3

\* A sample with a side in it is not silent.
LEMMA SamplesDiffer ==
  ASSUME NEW s, NEW i, NEW o, s = [in |-> i, out |-> o]
  PROVE  s.in = i /\ s.out = o /\ (i # 0 \/ o # 0 => s # [in |-> 0, out |-> 0])
<1>1. [in |-> 0, out |-> 0].in = 0 /\ [in |-> 0, out |-> 0].out = 0
  OBVIOUS
<1>2. s.in = i /\ s.out = o
  OBVIOUS
<1> QED
  BY <1>1, <1>2

\* What is written at the end is of the longer side alone, in its place.
LEMMA CloseKeepsInv ==
  ASSUME RecorderInv, R!Close
  PROVE  RecorderInv'
<1>1. /\ file = "open" /\ file' = "closed" /\ Paired(inbound, outbound, wav)
      /\ wav' = wav \o R!Solo /\ UNCHANGED <<object, link>>
      /\ inbound' = R!Clear(inbound) /\ outbound' = R!Clear(outbound)
  BY DEF R!Close, RecorderInv
<1>2. PICK n \in Nat, p \in Nat, q \in Nat :
      /\ n = Len(wav) /\ p = R!Size(inbound) /\ q = R!Size(outbound) /\ (p <= 1 \/ q <= 1)
      /\ inbound.from = 2 * n + 1 /\ inbound.to = 2 * n + p
      /\ outbound.from = 2 * n + 1 /\ outbound.to = 2 * n + q
  <2>1. /\ Len(wav) \in Nat /\ R!Size(inbound) \in Nat /\ R!Size(outbound) \in Nat
        /\ R!Size(inbound) <= 1 \/ R!Size(outbound) <= 1
        /\ inbound.from = 2 * Len(wav) + 1 /\ inbound.to = 2 * Len(wav) + R!Size(inbound)
        /\ outbound.from = 2 * Len(wav) + 1 /\ outbound.to = 2 * Len(wav) + R!Size(outbound)
    BY <1>1 DEF Paired, Follow, IsBuffer, R!Size
  <2> QED
    BY <2>1
<1> PICK m \in Nat : m = IF p >= q THEN p ELSE q
  OBVIOUS
<1>3. PICK h \in Nat : R!Even(m) \div 2 = h /\ m - 1 <= 2 * h /\ 2 * h <= m
  BY Halves
<1>4. /\ inbound'.to = inbound.to /\ outbound'.to = outbound.to
      /\ wav \in Seq(Sample)
      /\ \A k \in 1..n : wav[k] = [in |-> 2 * k - 1, out |-> 2 * k - 1]
  BY <1>1, <1>2 DEF R!Clear, R!DropBytes, Paired, Follow, IsBuffer
<1>5. PICK f : f = R!Solo
  OBVIOUS
<1>6. f = IF p >= q THEN [k \in 1..h |-> [in |-> 2 * n + 1 + 2 * (k - 1), out |-> 0]]
                    ELSE [k \in 1..h |-> [in |-> 0, out |-> 2 * n + 1 + 2 * (k - 1)]]
  <2>1. R!Max({p, q}) = m
    BY OfTwo
  <2>2. /\ R!Even(R!Max({R!Size(inbound), R!Size(outbound)})) \div 2 = h
        /\ R!Size(inbound) = p /\ R!Size(outbound) = q
        /\ inbound.from = 2 * n + 1 /\ outbound.from = 2 * n + 1
    BY <1>2, <1>3, <2>1
  <2> QED
    BY <1>5, <2>2, Zenon DEF R!Solo, R!Silence
<1>7. f \in [1..h -> Sample]
  <2>1. \A k \in 1..h : 2 * n + 1 + 2 * (k - 1) \in Nat
    OBVIOUS
  <2> QED
    BY <1>6, <2>1 DEF Sample
<1>8. /\ Len(wav') = n + h /\ DOMAIN wav' = 1..(n + h)
      /\ \A k \in 1..n : wav'[k] = wav[k]
      /\ \A k \in (n + 1)..(n + h) : wav'[k] = f[k - n]
  <2>1. /\ wav' \in Seq(Sample) /\ Len(wav') = Len(wav) + h
        /\ \A k \in 1..Len(wav) : wav'[k] = wav[k]
        /\ \A k \in (Len(wav) + 1)..(Len(wav) + h) : wav'[k] = f[k - Len(wav)]
    BY <1>1, <1>4, <1>5, <1>7, SamplesAppended
  <2> QED
    BY <1>2, <2>1
\* A sample of the leftovers is one of the side that has more, at its own place.
<1>9. ASSUME NEW k \in (n + 1)..(n + h)
      PROVE  \/ wav'[k] = [in |-> 2 * k - 1, out |-> 0] /\ outbound.to < 2 * k
             \/ wav'[k] = [in |-> 0, out |-> 2 * k - 1] /\ inbound.to < 2 * k
  <2>1. PICK j \in Int : j = k - n
    OBVIOUS
  <2>2. j \in 1..h /\ 2 * n + 1 + 2 * (j - 1) = 2 * k - 1
    BY <2>1
  <2>3. wav'[k] = f[j]
    BY <1>8, <2>1
  <2>4. CASE p >= q
    <3>1. f[j] = [in |-> 2 * k - 1, out |-> 0]
      BY <1>6, <2>2, <2>4
    <3>2. q <= 1
      BY <1>2, <2>4
    <3>3. outbound.to < 2 * k
      BY <1>2, <3>2
    <3> QED
      BY <2>3, <3>1, <3>3
  <2>5. CASE ~(p >= q)
    <3>1. f[j] = [in |-> 0, out |-> 2 * k - 1]
      BY <1>6, <2>2, <2>5
    <3>2. p <= 1
      BY <1>2, <2>5
    <3>3. inbound.to < 2 * k
      BY <1>2, <3>2
    <3> QED
      BY <2>3, <3>1, <3>3
  <2> QED
    BY <2>4, <2>5
<1>10. ASSUME NEW k \in DOMAIN wav'
       PROVE  /\ wav'[k].in \in {2 * k - 1, 0} /\ wav'[k].out \in {2 * k - 1, 0}
              /\ wav'[k] # [in |-> 0, out |-> 0]
              /\ wav'[k].in # 0 \/ inbound.to < 2 * k
              /\ wav'[k].out # 0 \/ outbound.to < 2 * k
  <2>1. k \in 1..(n + h)
    BY <1>8
  <2>2. PICK d \in Nat \ {0} : d = 2 * k - 1
    BY <2>1
  <2>3. \/ wav'[k] = [in |-> d, out |-> d]
        \/ wav'[k] = [in |-> d, out |-> 0] /\ outbound.to < 2 * k
        \/ wav'[k] = [in |-> 0, out |-> d] /\ inbound.to < 2 * k
    <3>1. CASE k \in 1..n
      BY <1>4, <1>8, <2>2, <3>1
    <3>2. CASE k \in (n + 1)..(n + h)
      BY <1>9, <2>2, <3>2
    <3> QED
      BY <2>1, <3>1, <3>2
  <2>4. /\ wav'[k].in \in {d, 0} /\ wav'[k].out \in {d, 0}
        /\ wav'[k] # [in |-> 0, out |-> 0]
        /\ wav'[k].in # 0 \/ inbound.to < 2 * k
        /\ wav'[k].out # 0 \/ outbound.to < 2 * k
    BY <2>3, SamplesDiffer
  <2> QED
    BY <2>2, <2>4
<1>11. R!PairedByCount'
  BY <1>1, <1>10 DEF R!PairedByCount, R!Silence
<1>12. 2 * Len(wav') = R!Even(R!Max({inbound.to, outbound.to}))
  <2>1. inbound.to = 2 * n + p /\ outbound.to = 2 * n + q
    BY <1>2
  <2>2. R!Max({2 * n + p, 2 * n + q}) = 2 * n + m
    BY OfTwo
  <2>3. PICK g \in Nat : /\ R!Even(2 * n + m) = 2 * g
                         /\ 2 * n + m - 1 <= 2 * g /\ 2 * g <= 2 * n + m
    <3>1. 2 * n + m \in Nat
      OBVIOUS
    <3> QED
      BY <3>1, Halves
  <2>4. g = n + h
    BY <1>3, <2>3
  <2> QED
    BY <1>8, <2>1, <2>2, <2>3, <2>4
<1>13. R!RecordingIsComplete'
  BY <1>4, <1>10, <1>12 DEF R!RecordingIsComplete, R!Silence
<1>14. Kept'
  BY <1>1 DEF RecorderInv, Kept
<1> QED
  BY <1>1, <1>11, <1>13, <1>14 DEF RecorderInv

\* Every step keeps the invariant, and the invariant says what the run checks.
LEMMA RecorderStep ==
  ASSUME Chunks \subseteq Nat, RecorderInv, [R!Next]_R!vars
  PROVE  RecorderInv'
<1>1. CASE R!WriteInbound \/ R!WriteOutbound
  BY <1>1, ChunksKeepInv
<1>2. CASE R!Close
  BY <1>2, CloseKeepsInv
<1>3. CASE R!Upload \/ R!LinkRow
  <2>1. UNCHANGED <<inbound, outbound, wav>> /\ file # "open" /\ file' # "open" /\ Kept'
    BY <1>3 DEF R!Upload, R!LinkRow, RecorderInv, Kept
  <2>2. R!PairedByCount' /\ R!RecordingIsComplete'
    BY <2>1 DEF RecorderInv, R!PairedByCount, R!RecordingIsComplete
  <2> QED
    BY <2>1, <2>2 DEF RecorderInv
<1>4. CASE UNCHANGED R!vars
  BY <1>4 DEF R!vars, RecorderInv, Kept, Paired, Follow, IsBuffer, R!PairedByCount,
     R!RecordingIsComplete
<1> QED
  BY <1>1, <1>2, <1>3, <1>4 DEF R!Next, R!Done

LEMMA RecorderSays == RecorderInv => R!RecordingIsSound
<1> SUFFICES ASSUME RecorderInv PROVE R!RecordingIsSound
  OBVIOUS
<1>1. CASE file = "open"
  <2>1. /\ Len(wav) \in Nat /\ DOMAIN wav = 1..Len(wav)
        /\ inbound.to \in Nat /\ inbound.to >= 2 * Len(wav)
        /\ outbound.to \in Nat /\ outbound.to >= 2 * Len(wav)
        /\ \A k \in 1..Len(wav) : wav[k] = [in |-> 2 * k - 1, out |-> 2 * k - 1]
    BY <1>1 DEF RecorderInv, Paired, Follow, IsBuffer
  <2>2. ASSUME NEW k \in DOMAIN wav
        PROVE  /\ wav[k].in = 2 * k - 1 /\ wav[k].out = 2 * k - 1 /\ 2 * k - 1 # 0
               /\ wav[k] # [in |-> 0, out |-> 0]
               /\ wav[k].in <= inbound.to /\ wav[k].out <= outbound.to
    <3>1. wav[k] = [in |-> 2 * k - 1, out |-> 2 * k - 1]
      BY <2>1
    <3>2. 2 * k - 1 \in Nat \ {0} /\ 2 * k - 1 <= inbound.to /\ 2 * k - 1 <= outbound.to
      BY <2>1
    <3>3. PICK d \in Nat \ {0} : d = 2 * k - 1
      BY <3>2
    <3>4. wav[k] = [in |-> d, out |-> d]
      BY <3>1, <3>3
    <3>5. wav[k].in = d /\ wav[k].out = d /\ wav[k] # [in |-> 0, out |-> 0]
      BY <3>4, SamplesDiffer
    <3> QED
      BY <3>2, <3>3, <3>5
  <2>3. R!PairedByCount
    BY <2>2 DEF R!PairedByCount, R!Silence
  <2>4. R!RecordingIsComplete
    BY <1>1, <2>2 DEF R!RecordingIsComplete, R!Silence
  <2> QED
    BY <2>3, <2>4 DEF R!RecordingIsSound, R!RecordingIsKept, RecorderInv, Kept
<1>2. CASE file # "open"
  BY <1>2 DEF RecorderInv, Kept, R!RecordingIsSound, R!RecordingIsKept
<1> QED
  BY <1>1, <1>2

\* Whatever the lengths of the chunks, also odd ones, and however the two sides
\* interleave, the recording is paired by count, complete and kept (recorder.py:77-135).
THEOREM RecordingsAreSound ==
  ASSUME Chunks \subseteq Nat
  PROVE  R!Spec => []RecordingIsSound
<1>1. R!Init => RecorderInv
  <2> SUFFICES ASSUME R!Init PROVE RecorderInv
    OBVIOUS
  <2>1. wav = <<>> /\ Len(wav) = 0 /\ wav \in Seq(Sample)
    BY DEF R!Init
  <2>2. Paired(inbound, outbound, wav)
    BY <2>1 DEF R!Init, R!Empty, Paired, Follow, IsBuffer
  <2> QED
    BY <2>2 DEF R!Init, RecorderInv, Kept
<1>2. RecorderInv /\ [R!Next]_R!vars => RecorderInv'
  BY RecorderStep
<1>3. RecorderInv => RecordingIsSound
  BY RecorderSays DEF RecordingIsSound
<1> QED
  BY <1>1, <1>2, <1>3, PTL DEF R!Spec
-----------------------------------------------------------------------------
(* The chunks. *)

(***************************************************************************)
(* Induction, which the tail and the token counts need, is by the least    *)
(* number of a set: the library's well-foundedness of the naturals takes   *)
(* no operator.                                                            *)
(***************************************************************************)
LEMMA LeastNumber ==
  ASSUME NEW S, S \subseteq Nat, S # {}
  PROVE  \E n \in S : \A m \in S : n <= m
<1> DEFINE Less == OpToRel(<, Nat)
<1>1. \A m, n \in Nat : <<m, n>> \in Less <=> m < n
  BY DEF OpToRel
<1>2. IsWellFoundedOn(Less, Nat)
  BY NatLessThanWellFounded
<1> HIDE DEF Less
<1>3. PICK n \in S : \A m \in S : ~(<<m, n>> \in Less)
  BY <1>2, WFMin
<1>4. n \in Nat /\ \A m \in S : m \in Nat
  OBVIOUS
<1>5. \A m \in S : ~(m < n)
  BY <1>1, <1>3, <1>4
<1> QED
  BY <1>4, <1>5

\* The function that Upto defines exists: its first m values do, for every m.
Totals(s, m) == {f \in [0..m -> Nat] : f[0] = 0 /\ \A n \in 1..m : f[n] = f[n - 1] + s[n]}

LEMMA TotalsExist ==
  ASSUME NEW s \in Seq(Nat)
  PROVE  \E f : f = [n \in 0..Len(s) |-> IF n = 0 THEN 0 ELSE f[n - 1] + s[n]]
<1>1. PICK len \in Nat : len = Len(s) /\ \A n \in 1..len : s[n] \in Nat
  OBVIOUS
<1>2. \A m \in 0..len : Totals(s, m) # {}
  <2> DEFINE Without == {m \in 0..len : Totals(s, m) = {}}
  <2> SUFFICES ASSUME Without # {} PROVE FALSE
    OBVIOUS
  <2>1. PICK m \in Without : \A k \in Without : m <= k
    <3>1. Without \subseteq Nat
      OBVIOUS
    <3> HIDE DEF Without
    <3> QED
      BY <3>1, LeastNumber
  <2>2. m \in 0..len /\ Totals(s, m) = {}
    OBVIOUS
  <2>3. CASE m = 0
    <3>1. [n \in 0..0 |-> 0] \in Totals(s, 0)
      BY DEF Totals
    <3> QED
      BY <2>2, <2>3, <3>1
  <2>4. CASE m # 0
    <3>1. m - 1 \in 0..len /\ m \in 1..len /\ ~(m <= m - 1)
      BY <2>2, <2>4
    <3>2. m - 1 \notin Without
      BY <2>1, <3>1
    <3>3. PICK f : f \in Totals(s, m - 1)
      BY <3>1, <3>2
    <3>4. f \in [0..(m - 1) -> Nat] /\ f[0] = 0 /\ \A n \in 1..(m - 1) : f[n] = f[n - 1] + s[n]
      BY <3>3 DEF Totals
    <3> DEFINE g == [n \in 0..m |-> IF n = m THEN f[m - 1] + s[m] ELSE f[n]]
    <3>5. f[m - 1] \in Nat /\ s[m] \in Nat
      BY <1>1, <3>1, <3>4
    <3>6. g \in [0..m -> Nat] /\ g[0] = 0
      BY <3>1, <3>4, <3>5
    <3>7. ASSUME NEW n \in 1..m PROVE g[n] = g[n - 1] + s[n]
      BY <3>1, <3>4
    <3> HIDE DEF g
    <3>8. g \in Totals(s, m)
      BY <3>6, <3>7 DEF Totals
    <3> QED
      BY <2>2, <3>8
  <2> QED
    BY <2>3, <2>4
<1>3. PICK f : f \in Totals(s, len)
  BY <1>2
<1>4. f = [n \in 0..len |-> IF n = 0 THEN 0 ELSE f[n - 1] + s[n]]
  <2>1. \A n \in 0..len : f[n] = IF n = 0 THEN 0 ELSE f[n - 1] + s[n]
    BY <1>3 DEF Totals
  <2> QED
    BY <1>3, <2>1 DEF Totals
<1> QED
  BY <1>1, <1>4

\* What Upto is: it begins with none and grows by the sentence, and is never negative.
LEMMA UptoIs ==
  ASSUME text \in Seq(Nat)
  PROVE  /\ B!Upto[0] = 0
         /\ \A n \in 1..Len(text) : B!Upto[n] = B!Upto[n - 1] + text[n]
         /\ \A n \in 0..Len(text) : B!Upto[n] \in Nat
<1>1. B!Upto = [n \in 0..Len(text) |-> IF n = 0 THEN 0 ELSE B!Upto[n - 1] + text[n]]
  <2>1. \E f : f = [n \in 0..Len(text) |-> IF n = 0 THEN 0 ELSE f[n - 1] + text[n]]
    BY TotalsExist
  <2> QED
    BY <2>1, Zenon DEF B!Upto
<1>2. PICK len \in Nat : len = Len(text) /\ \A n \in 1..len : text[n] \in Nat
  OBVIOUS
<1>3. PICK f : f = B!Upto
  OBVIOUS
<1>4. f[0] = 0 /\ \A n \in 1..len : f[n] = f[n - 1] + text[n]
  <2>1. \A n \in 0..len : f[n] = IF n = 0 THEN 0 ELSE f[n - 1] + text[n]
    BY <1>1, <1>2, <1>3
  <2> QED
    BY <2>1
<1>5. \A n \in 0..len : f[n] \in Nat
  <2> DEFINE Wrong == {n \in 0..len : f[n] \notin Nat}
  <2> SUFFICES ASSUME Wrong # {} PROVE FALSE
    OBVIOUS
  <2>1. PICK n \in Wrong : \A k \in Wrong : n <= k
    <3>1. Wrong \subseteq Nat
      OBVIOUS
    <3> HIDE DEF Wrong
    <3> QED
      BY <3>1, LeastNumber
  <2>2. n # 0 /\ n \in 1..len
    BY <1>4, <2>1
  <2>3. n - 1 \in 0..len /\ n - 1 \notin Wrong
    BY <2>1, <2>2
  <2> QED
    BY <1>2, <1>4, <2>1, <2>2, <2>3
<1> QED
  BY <1>2, <1>3, <1>4, <1>5

(***************************************************************************)
(* The inductive invariant.  The chunks yielded are intervals of sentences *)
(* that follow on each other without a gap, and small (Yielded); the one   *)
(* being gathered reaches to the sentence before the loop's, begins in or  *)
(* right behind the last yielded one, and goes on further (Gathering).     *)
(***************************************************************************)
Counted == /\ Tokens \subseteq Nat /\ Sentences \in Nat
           /\ Target \in Nat /\ Overlap \in Nat

Interval(c) == /\ c = [from |-> c.from, to |-> c.to]
               /\ c.from \in Nat \ {0} /\ c.to \in 1..Len(text) /\ c.from <= c.to
Small(c) == B!Weight(c) <= Target \/ B!Weight([c EXCEPT !.to = @ - 1]) <= Overlap
LastOf(o) == IF o = <<>> THEN 0 ELSE o[Len(o)].to

Yielded(o) ==
  /\ o \in Seq([from : Nat, to : Nat])
  /\ \A k \in 1..Len(o) : Interval(o[k]) /\ Small(o[k])
  /\ \A k \in 2..Len(o) : o[k - 1].to < o[k].to /\ o[k].from <= o[k - 1].to + 1
  /\ \A i \in 1..LastOf(o) : \E k \in 1..Len(o) : o[k].from <= i /\ i <= o[k].to

Gathering ==
  /\ cur.to = chunksNext - 1
  /\ chunksNext = 1 => cur = [from |-> 1, to |-> 0] /\ out = <<>>
  /\ chunksNext > 1 => /\ Interval(cur) /\ Small(cur)
                 /\ LastOf(out) < cur.to /\ cur.from <= LastOf(out) + 1

ChunksInv ==
  /\ text \in Seq(Nat) /\ chunksNext \in 1..(Len(text) + 1)
  /\ Yielded(out)
  /\ ~done => Gathering
  /\ done => LastOf(out) = Len(text)
-----------------------------------------------------------------------------
\* The token counts, which the prover does not see through, depend on the text alone.
LEMMA TextStays ==
  ASSUME UNCHANGED text
  PROVE  \A c : (Interval(c)' <=> Interval(c)) /\ (Small(c)' <=> Small(c))
                /\ (Yielded(c)' <=> Yielded(c))
<1>1. B!Upto' = B!Upto
  BY DEF B!Upto
<1>2. \A c : B!Weight(c)' = B!Weight(c)
  BY <1>1 DEF B!Weight
<1>3. \A c : (Interval(c)' <=> Interval(c)) /\ (Small(c)' <=> Small(c))
  BY <1>2 DEF Interval, Small
<1> QED
  BY <1>3 DEF Yielded, LastOf

LEMMA Members ==
  ASSUME NEW S, NEW o \in Seq(S)
  PROVE  \A k \in 1..Len(o) : o[k] \in S
OBVIOUS

\* A chunk that goes on where the last one ended is fit to be yielded next.
LEMMA YieldKeeps ==
  ASSUME NEW o, Yielded(o), NEW c, Interval(c), Small(c), LastOf(o) < c.to,
         c.from <= LastOf(o) + 1
  PROVE  Yielded(Append(o, c)) /\ LastOf(Append(o, c)) = c.to
<1>1. PICK len \in Nat : len = Len(o)
  BY DEF Yielded
<1>2. o \in Seq([from : Nat, to : Nat])
  BY DEF Yielded
<1>3. o = <<>> <=> len = 0
  BY <1>1, <1>2
<1>4. \A k \in 1..len : o[k] \in [from : Nat, to : Nat]
  BY <1>1, <1>2, Members
<1>5. \A k \in 1..len : o[k].from \in Nat /\ o[k].to \in Nat
  BY <1>4
<1>6. /\ o \in Seq([from : Nat, to : Nat]) /\ (o = <<>> <=> len = 0)
      /\ \A k \in 1..len : o[k].from \in Nat /\ o[k].to \in Nat
  BY <1>2, <1>3, <1>5
<1>7. /\ \A k \in 1..len : Interval(o[k]) /\ Small(o[k])
      /\ \A k \in 2..len : o[k - 1].to < o[k].to /\ o[k].from <= o[k - 1].to + 1
      /\ \A i \in 1..LastOf(o) : \E k \in 1..len : o[k].from <= i /\ i <= o[k].to
  BY <1>1 DEF Yielded
<1>8. PICK p : p = Append(o, c)
  OBVIOUS
<1>9. c \in [from : Nat, to : Nat] /\ c.from \in Nat /\ c.to \in Nat
  BY DEF Interval
<1>10. /\ p \in Seq([from : Nat, to : Nat]) /\ Len(p) = len + 1 /\ p[len + 1] = c /\ p # <<>>
      /\ \A k \in 1..len : p[k] = o[k]
  BY <1>1, <1>6, <1>8, <1>9
<1>11. LastOf(p) = c.to
  BY <1>10 DEF LastOf
<1>12. LastOf(o) \in Nat /\ (len > 0 => LastOf(o) = o[len].to)
  BY <1>1, <1>6 DEF LastOf
<1>13. ASSUME NEW k \in 1..(len + 1) PROVE Interval(p[k]) /\ Small(p[k])
  <2>1. CASE k = len + 1
    BY <1>10, <2>1
  <2>2. CASE k \in 1..len
    BY <1>7, <1>10, <2>2
  <2> QED
    BY <2>1, <2>2
<1>14. ASSUME NEW k \in 2..(len + 1)
       PROVE  p[k - 1].to < p[k].to /\ p[k].from <= p[k - 1].to + 1
  <2>1. k - 1 \in 1..len /\ p[k - 1] = o[k - 1]
    BY <1>10
  <2>2. CASE k \in 2..len
    <3>1. p[k] = o[k]
      BY <1>10, <2>2
    <3> QED
      BY <1>7, <2>1, <2>2, <3>1
  <2>3. CASE k = len + 1
    BY <1>10, <1>12, <2>1, <2>3
  <2> QED
    BY <2>2, <2>3
<1>15. ASSUME NEW i \in 1..c.to
      PROVE  \E k \in 1..(len + 1) : p[k].from <= i /\ i <= p[k].to
  <2>1. CASE i <= LastOf(o)
    <3>1. i \in 1..LastOf(o)
      BY <1>9, <1>12, <2>1
    <3>2. PICK k \in 1..len : o[k].from <= i /\ i <= o[k].to
      BY <1>7, <3>1
    <3>3. k \in 1..(len + 1) /\ p[k] = o[k]
      BY <1>10
    <3> QED
      BY <3>2, <3>3
  <2>2. CASE i > LastOf(o)
    <3>1. c.from <= i /\ i <= c.to /\ len + 1 \in 1..(len + 1)
      BY <1>9, <1>12, <2>2
    <3> QED
      BY <1>10, <3>1
  <2> QED
    BY <1>9, <1>12, <2>1, <2>2
<1>16. Yielded(p)
  BY <1>10, <1>11, <1>13, <1>14, <1>15 DEF Yielded
<1> QED
  BY <1>8, <1>11, <1>16

\* The tail of a chunk is one: none of it, at the least, has no tokens.
LEMMA TailExists ==
  ASSUME Counted, text \in Seq(Nat), NEW c, Interval(c)
  PROVE  /\ B!TailOf(c) \in c.from..(c.to + 1)
         /\ B!Weight([from |-> B!TailOf(c), to |-> c.to]) <= Overlap
<1> DEFINE Fits == {k \in c.from..(c.to + 1) : B!Weight([from |-> k, to |-> c.to]) <= Overlap}
<1>1. c.from \in Nat \ {0} /\ c.to \in 1..Len(text) /\ c.from <= c.to /\ Len(text) \in Nat
  BY DEF Interval
<1>2. B!Weight([from |-> c.to + 1, to |-> c.to]) = 0
  <2>1. PICK d \in Nat : d = c.to
    BY <1>1
  <2>2. B!Upto[d] \in Nat
    BY <1>1, <2>1, UptoIs
  <2>3. B!Weight([from |-> d + 1, to |-> d]) = B!Upto[d] - B!Upto[d + 1 - 1]
    BY DEF B!Weight
  <2>4. d + 1 - 1 = d
    OBVIOUS
  <2> QED
    BY <2>1, <2>2, <2>3, <2>4
<1>3. c.to + 1 \in Fits /\ Fits \subseteq Nat
  BY <1>1, <1>2 DEF Counted
<1>4. PICK k \in Fits : \A j \in Fits : k <= j
  <2> HIDE DEF Fits
  <2> QED
    BY <1>3, LeastNumber
<1>5. ASSUME k > c.from PROVE B!Weight([from |-> k - 1, to |-> c.to]) > Overlap
  <2>1. k - 1 \in c.from..(c.to + 1) /\ ~(k <= k - 1)
    BY <1>1, <1>5
  <2>2. k - 1 \notin Fits
    BY <1>4, <2>1
  <2>3. B!Weight([from |-> k - 1, to |-> c.to]) \in Int
    <3>1. k - 1 - 1 \in 0..Len(text) /\ c.to \in 0..Len(text)
      BY <1>1, <1>5, <2>1
    <3>2. B!Upto[c.to] \in Nat /\ B!Upto[k - 1 - 1] \in Nat
      BY <3>1, UptoIs
    <3> QED
      BY <3>2 DEF B!Weight
  <2> QED
    BY <2>1, <2>2, <2>3 DEF Counted
<1>6. /\ k \in c.from..(c.to + 1)
      /\ B!Weight([from |-> k, to |-> c.to]) <= Overlap
      /\ k > c.from => B!Weight([from |-> k - 1, to |-> c.to]) > Overlap
  BY <1>5
<1> QED
  BY <1>6, Zenon DEF B!TailOf

\* The bounds of the text and of the counts, for the steps.
LEMMA NextCount ==
  ASSUME text \in Seq(Nat), chunksNext \in 1..Len(text)
  PROVE  /\ text[chunksNext] \in Nat
         /\ \A f \in 1..chunksNext :
              /\ B!Weight([from |-> f, to |-> chunksNext])
                   = B!Weight([from |-> f, to |-> chunksNext - 1]) + text[chunksNext]
              /\ B!Weight([from |-> f, to |-> chunksNext - 1]) \in Int
<1>1. PICK n \in Nat, t \in Nat, len \in Nat :
        n = chunksNext /\ t = text[chunksNext] /\ len = Len(text) /\ n \in 1..len
  <2>1. PICK len \in Nat : len = Len(text)
    OBVIOUS
  <2>2. chunksNext \in 1..len /\ chunksNext \in Nat
    BY <2>1
  <2>3. text[chunksNext] \in Nat
    BY Members
  <2> QED
    BY <2>1, <2>2, <2>3
<1>2. /\ B!Upto[n] = B!Upto[n - 1] + t
      /\ \A i \in 0..len : B!Upto[i] \in Nat
  BY <1>1, UptoIs
<1>3. PICK g : g = B!Upto
  OBVIOUS
<1>4. g[n] = g[n - 1] + t /\ \A i \in 0..len : g[i] \in Nat
  BY <1>2, <1>3
<1>5. ASSUME NEW f \in 1..n
      PROVE  /\ B!Weight([from |-> f, to |-> n]) = g[n] - g[f - 1]
             /\ B!Weight([from |-> f, to |-> n - 1]) = g[n - 1] - g[f - 1]
             /\ g[n - 1] \in Nat /\ g[f - 1] \in Nat
  <2>1. n - 1 \in 0..len /\ f - 1 \in 0..len
    BY <1>1
  <2> QED
    BY <1>3, <1>4, <2>1 DEF B!Weight
<1>6. ASSUME NEW f \in 1..n
      PROVE  /\ B!Weight([from |-> f, to |-> n]) = B!Weight([from |-> f, to |-> n - 1]) + t
             /\ B!Weight([from |-> f, to |-> n - 1]) \in Int
  <2>1. PICK x \in Nat, y \in Nat, z \in Nat : x = g[n] /\ y = g[n - 1] /\ z = g[f - 1]
    <3>1. n \in 0..len
      BY <1>1
    <3>2. g[n] \in Nat /\ g[n - 1] \in Nat /\ g[f - 1] \in Nat
      BY <1>4, <1>5, <3>1
    <3> QED
      BY <3>2
  <2>2. /\ B!Weight([from |-> f, to |-> n]) = x - z
        /\ B!Weight([from |-> f, to |-> n - 1]) = y - z
    BY <1>5, <2>1
  <2>3. x = y + t /\ t \in Nat
    BY <1>1, <1>4, <2>1
  <2>4. x - z = (y - z) + t /\ y - z \in Int
    BY <2>3
  <2> QED
    BY <2>2, <2>4
<1> QED
  BY <1>1, <1>6

\* A chunk with the loop's sentence at its end, and what the invariant says of it.
LEMMA Gathered ==
  ASSUME Counted, text \in Seq(Nat), chunksNext \in 1..Len(text), NEW f \in 1..chunksNext,
         \/ B!Weight([from |-> f, to |-> chunksNext - 1]) <= Overlap
         \/ B!Weight([from |-> f, to |-> chunksNext - 1]) + text[chunksNext] <= Target
  PROVE  Interval([from |-> f, to |-> chunksNext]) /\ Small([from |-> f, to |-> chunksNext])
<1>1. Interval([from |-> f, to |-> chunksNext])
  BY DEF Interval
<1>2. [[from |-> f, to |-> chunksNext] EXCEPT !.to = @ - 1] = [from |-> f,
to |-> chunksNext - 1]
  OBVIOUS
<1>3. B!Weight([from |-> f, to |-> chunksNext])
        = B!Weight([from |-> f, to |-> chunksNext - 1]) + text[chunksNext]
  BY NextCount
<1>4. Small([from |-> f, to |-> chunksNext])
  BY <1>2, <1>3 DEF Small
<1> QED
  BY <1>1, <1>4

LEMMA LastIsNat ==
  ASSUME NEW o, Yielded(o)
  PROVE  LastOf(o) \in Nat
<1>1. o \in Seq([from : Nat, to : Nat])
  BY DEF Yielded
<1>2. \A k \in 1..Len(o) : o[k] \in [from : Nat, to : Nat]
  BY <1>1, Members
<1>3. o # <<>> => Len(o) \in 1..Len(o)
  BY <1>1
<1> QED
  BY <1>2, <1>3 DEF LastOf

\* What holds of the next chunks by this state's text holds by the next state's.
LEMMA StepTo ==
  ASSUME text' = text
  PROVE  /\ Interval(cur') => Interval(cur)'
         /\ Small(cur') => Small(cur)'
         /\ Yielded(out') => Yielded(out)'
<1>1. B!Upto' = B!Upto
  BY DEF B!Upto
<1>2. \A c : B!Weight(c)' = B!Weight(c)
  BY <1>1 DEF B!Weight
<1> QED
  BY <1>2 DEF Interval, Small, Yielded, LastOf

LEMMA GatherKeeps ==
  ASSUME Counted, ChunksInv, B!Add
  PROVE  ChunksInv'
<1>1. /\ text \in Seq(Nat) /\ chunksNext \in 1..Len(text) /\ Yielded(out) /\ Gathering
      /\ text' = text /\ done' = done /\ chunksNext' = chunksNext + 1 /\ ~done
  BY DEF ChunksInv, B!Add
<1>2. PICK n \in Nat, len \in Nat : n = chunksNext /\ len = Len(text) /\ n \in 1..len
  <2>1. text \in Seq(Nat) /\ chunksNext \in 1..Len(text)
    BY <1>1
  <2>2. Len(text) \in Nat
    BY <2>1
  <2>3. PICK len \in Nat : len = Len(text)
    BY <2>2
  <2>4. chunksNext \in 1..len
    BY <2>1, <2>3
  <2>5. chunksNext \in Nat
    BY <2>4
  <2> QED
    BY <2>3, <2>4, <2>5
<1>3. PICK last : last = LastOf(out)
  OBVIOUS
<1>4. \A c : (Interval(c)' <=> Interval(c)) /\ (Small(c)' <=> Small(c))
             /\ (Yielded(c)' <=> Yielded(c))
  BY <1>1, TextStays
<1>5. /\ n = 1 => cur = [from |-> 1, to |-> 0] /\ last = 0
      /\ n > 1 => Interval(cur) /\ Small(cur) /\ last < cur.to /\ cur.from <= last + 1
      /\ cur.to = n - 1
  BY <1>1, <1>2, <1>3 DEF Gathering, LastOf
<1>6. ASSUME n > 1
      PROVE  /\ cur = [from |-> cur.from, to |-> n - 1]
             /\ cur.from \in 1..(n - 1)
  BY <1>2, <1>5, <1>6 DEF Interval
<1>7. \E f \in 1..n : /\ cur' = [from |-> f, to |-> n]
                      /\ Interval([from |-> f, to |-> n]) /\ Small([from |-> f, to |-> n])
                      /\ Yielded(out') /\ LastOf(out') < n /\ f <= LastOf(out') + 1
  <2>1. CASE ~B!IsEmpty(cur) /\ B!Weight(cur) + text[chunksNext] > Target
    <3>1. n > 1
      BY <1>2, <1>5, <2>1 DEF B!IsEmpty
    <3>2. out' = Append(out, cur) /\ cur' = [from |-> B!TailOf(cur), to |-> n]
      BY <1>2, <2>1 DEF B!Add
    <3>3. Yielded(out') /\ LastOf(out') = n - 1
      BY <1>1, <1>3, <1>5, <3>1, <3>2, YieldKeeps
    <3>4. PICK k : k = B!TailOf(cur)
      OBVIOUS
    <3>5. k \in cur.from..n /\ B!Weight([from |-> k, to |-> n - 1]) <= Overlap
      <4>1. n - 1 + 1 = n
        OBVIOUS
      <4> QED
        BY <1>1, <1>5, <3>1, <3>4, <4>1, TailExists
    <3>6. k \in 1..n /\ k <= n - 1 + 1
      BY <1>6, <3>1, <3>5
    <3>7. Interval([from |-> k, to |-> n]) /\ Small([from |-> k, to |-> n])
      BY <1>1, <1>2, <3>5, <3>6, Gathered
    <3> QED
      BY <3>2, <3>3, <3>4, <3>6, <3>7
  <2>2. CASE ~(~B!IsEmpty(cur) /\ B!Weight(cur) + text[chunksNext] > Target)
    <3>1. out' = out /\ cur' = [cur EXCEPT !.to = n]
      BY <1>2, <2>2 DEF B!Add
    <3>2. CASE n = 1
      <4>1. cur' = [from |-> 1, to |-> n]
        BY <1>5, <3>1, <3>2
      <4>2. B!Weight([from |-> 1, to |-> n - 1]) <= Overlap
        <5>1. B!Upto[0] = 0
          BY <1>1, UptoIs
        <5>2. B!Weight([from |-> 1, to |-> 0]) = B!Upto[0] - B!Upto[1 - 1]
          BY DEF B!Weight
        <5>3. B!Weight([from |-> 1, to |-> 0]) = 0
          BY <5>1, <5>2
        <5> QED
          BY <3>2, <5>3 DEF Counted
      <4>3. Interval([from |-> 1, to |-> n]) /\ Small([from |-> 1, to |-> n])
        BY <1>1, <1>2, <4>2, Gathered
      <4> QED
        BY <1>1, <1>3, <1>5, <3>1, <3>2, <4>1, <4>3
    <3>3. CASE n > 1
      <4>1. PICK f \in 1..(n - 1) : cur = [from |-> f, to |-> n - 1] /\ f = cur.from
        BY <1>6, <3>3
      <4>2. cur' = [from |-> f, to |-> n]
        BY <3>1, <4>1
      <4>3. ~B!IsEmpty(cur)
        BY <1>2, <4>1 DEF B!IsEmpty
      <4>4. B!Weight([from |-> f, to |-> n - 1]) + text[chunksNext] <= Target
        <5>1. ~(B!Weight([from |-> f, to |-> n - 1]) + text[chunksNext] > Target)
          BY <2>2, <4>1, <4>3
        <5>2. /\ B!Weight([from |-> f, to |-> chunksNext - 1]) \in Int
              /\ text[chunksNext] \in Nat
          <6>1. text \in Seq(Nat) /\ chunksNext \in 1..Len(text) /\ f \in 1..chunksNext
            BY <1>1, <1>2
          <6> QED
            BY <6>1, NextCount
        <5> QED
          BY <1>2, <5>1, <5>2 DEF Counted
      <4>5. Interval([from |-> f, to |-> n]) /\ Small([from |-> f, to |-> n])
        BY <1>1, <1>2, <4>4, Gathered
      <4>6. last < n /\ f <= last + 1
        <5>1. last < n - 1 /\ f <= last + 1
          BY <1>5, <3>3, <4>1
        <5>2. last \in Nat
          BY <1>1, <1>3, LastIsNat
        <5> QED
          BY <5>1, <5>2
      <4>7. Yielded(out') /\ LastOf(out') = last /\ f \in 1..n
        BY <1>1, <1>3, <3>1
      <4> QED
        BY <4>2, <4>5, <4>6, <4>7
    <3> QED
      BY <1>2, <3>2, <3>3
  <2> QED
    BY <2>1, <2>2
<1>8. PICK f \in 1..n : /\ cur' = [from |-> f, to |-> n]
                        /\ Interval([from |-> f, to |-> n]) /\ Small([from |-> f, to |-> n])
                        /\ Yielded(out') /\ LastOf(out') < n /\ f <= LastOf(out') + 1
  BY <1>7
<1>9. Interval(cur)' /\ Small(cur)' /\ Yielded(out)'
  BY <1>1, <1>8, StepTo
<1>10. Gathering'
  BY <1>1, <1>2, <1>8, <1>9 DEF Gathering, LastOf
<1> QED
  BY <1>1, <1>2, <1>9, <1>10 DEF ChunksInv

\* The last chunk is yielded, and the text is over.
LEMMA FlushKeeps ==
  ASSUME Counted, ChunksInv, B!Flush
  PROVE  ChunksInv'
<1>1. /\ text \in Seq(Nat) /\ chunksNext = Len(text) + 1 /\ Yielded(out) /\ Gathering
      /\ text' = text /\ chunksNext' = chunksNext /\ done' /\ cur' = cur
      /\ out' = IF B!IsEmpty(cur) THEN out ELSE Append(out, cur)
  BY DEF ChunksInv, B!Flush
<1>2. PICK len \in Nat : len = Len(text)
  BY <1>1
<1>3. CASE len = 0
  <2>1. cur = [from |-> 1, to |-> 0] /\ out = <<>> /\ B!IsEmpty(cur)
    BY <1>1, <1>2, <1>3 DEF Gathering, B!IsEmpty
  <2>2. Yielded(out)' /\ LastOf(out') = 0
    BY <1>1, <2>1, StepTo DEF LastOf
  <2> QED
    BY <1>1, <1>2, <1>3, <2>2 DEF ChunksInv, LastOf
<1>4. CASE len > 0
  <2>1. /\ Interval(cur) /\ Small(cur) /\ LastOf(out) < cur.to /\ cur.from <= LastOf(out) + 1
        /\ cur.to = len
    BY <1>1, <1>2, <1>4 DEF Gathering
  <2>2. ~B!IsEmpty(cur)
    BY <2>1 DEF Interval, B!IsEmpty
  <2>3. Yielded(out') /\ LastOf(out') = len
    BY <1>1, <2>1, <2>2, YieldKeeps
  <2>4. Yielded(out)'
    BY <1>1, <2>3, StepTo
  <2> QED
    BY <1>1, <1>2, <2>3, <2>4 DEF ChunksInv, LastOf
<1> QED
  BY <1>2, <1>3, <1>4

LEMMA ChunksBegin ==
  ASSUME Counted, B!Init
  PROVE  ChunksInv
<1>1. text \in B!SeqOf(Tokens, Sentences) /\ chunksNext = 1 /\ cur = [from |-> 1, to |-> 0]
      /\ out = <<>> /\ done = FALSE
  BY DEF B!Init
<1>2. text \in Seq(Nat)
  <2>1. PICK n \in Nat : text \in [1..n -> Tokens]
    BY <1>1 DEF B!SeqOf, Counted
  <2>2. text \in [1..n -> Nat]
    BY <2>1 DEF Counted
  <2> QED
    BY <2>2
<1>3. Yielded(out)
  BY <1>1 DEF Yielded, LastOf
<1> QED
  BY <1>1, <1>2, <1>3 DEF ChunksInv, Gathering

\* What is to be shown of the chunks is what the invariant says of them.
LEMMA ChunksInvIsEnough ==
  ASSUME ChunksInv
  PROVE  B!ChunksAreSound
<1>1. PICK len \in Nat, tlen \in Nat : len = Len(out) /\ tlen = Len(text)
  BY DEF ChunksInv, Yielded
<1>2. DOMAIN out = 1..len /\ DOMAIN text = 1..tlen
  BY <1>1 DEF ChunksInv, Yielded
<1>3. /\ \A k \in 1..len : Interval(out[k]) /\ Small(out[k])
      /\ \A k \in 2..len : out[k - 1].to < out[k].to /\ out[k].from <= out[k - 1].to + 1
      /\ done => \A i \in 1..tlen : \E k \in 1..len : out[k].from <= i /\ i <= out[k].to
  BY <1>1 DEF ChunksInv, Yielded
<1>4. B!ChunksCoverText
  <2>1. ASSUME done, NEW i \in DOMAIN text
        PROVE  \E k \in DOMAIN out : out[k].from <= i /\ i <= out[k].to
    BY <1>2, <1>3, <2>1
  <2>2. ASSUME NEW k \in DOMAIN out, k > 1
        PROVE  out[k - 1].to < out[k].to /\ out[k].from <= out[k - 1].to + 1
    <3>1. k \in 2..len
      BY <1>2, <2>2
    <3> QED
      BY <1>3, <3>1
  <2> QED
    BY <2>1, <2>2 DEF B!ChunksCoverText
<1>5. B!ChunksStaySmall
  BY <1>2, <1>3 DEF B!ChunksStaySmall, Small
<1> QED
  BY <1>4, <1>5 DEF B!ChunksAreSound

\* For every text, target and overlap: when the chunker is through, every sentence is in a
\* chunk and every chunk brings one that no earlier chunk had; and at any time a chunk is
\* over the target by its last sentence alone (_chunk).
THEOREM ChunksAreFit ==
  ASSUME Counted
  PROVE  B!Spec => []ChunksAreSound
<1>1. B!Init => ChunksInv
  BY ChunksBegin
<1>2. ChunksInv /\ [B!Next]_B!vars => ChunksInv'
  <2>1. SUFFICES ASSUME ChunksInv, [B!Next]_B!vars PROVE ChunksInv'
    OBVIOUS
  <2>2. CASE B!Add
    BY <2>1, <2>2, GatherKeeps
  <2>3. CASE B!Flush
    BY <2>1, <2>3, FlushKeeps
  <2>4. CASE UNCHANGED B!vars
    <3>1. text' = text /\ chunksNext' = chunksNext /\ cur' = cur /\ out' = out /\ done' = done
      BY <2>4 DEF B!vars
    <3>2. B!Upto' = B!Upto
      BY <3>1 DEF B!Upto
    <3>3. \A c : B!Weight(c)' = B!Weight(c)
      BY <3>2 DEF B!Weight
    <3> QED
      BY <2>1, <3>1, <3>3 DEF ChunksInv, Yielded, Gathering, Interval, Small, LastOf
  <2> QED
    BY <2>1, <2>2, <2>3, <2>4 DEF B!Next
<1>3. ChunksInv => ChunksAreSound
  BY ChunksInvIsEnough DEF ChunksAreSound
<1> QED
  BY <1>1, <1>2, <1>3, PTL DEF B!Spec
-----------------------------------------------------------------------------
(* The pool. *)

(***************************************************************************)
(* The inductive invariant.  The candidates are, each once, the good       *)
(* exchanges of the rows that the loop has been over, with their scores.   *)
(***************************************************************************)
Found(s, n) ==
  /\ s \in Seq([call : Nat, at : Nat, score : Int])
  /\ \A k \in 1..Len(s) : /\ s[k].call \in M!Rows /\ s[k].call < n
                          /\ s[k].at \in M!Good(s[k].call)
                          /\ s[k] = M!Scored(s[k].call, s[k].at)
  /\ \A c \in M!Rows : c < n => \A i \in M!Good(c) : \E k \in 1..Len(s) : s[k] = M!Scored(c, i)
  /\ \A j, k \in 1..Len(s) : s[j] = s[k] => j = k

TalkOf(c) == [1..Len(miningCalls[c].events) -> [who : {"user", "agent"}, worth : Nat]]

MiningInv ==
  /\ Len(miningCalls) \in Nat /\ DOMAIN miningCalls = 1..Len(miningCalls)
  /\ \A c \in 1..Len(miningCalls) : /\ Len(miningCalls[c].events) \in Nat
                                    /\ miningCalls[c].events \in TalkOf(c)
  /\ next \in 1..(Len(miningCalls) + 1)
  /\ job = "off" => next = 1 /\ candidates = <<>>
  /\ job # "done" => Found(candidates, next)
  /\ M!PoolIsBest
-----------------------------------------------------------------------------
\* What is good, and its score, depend on the calls alone.
LEMMA CallsStay ==
  ASSUME UNCHANGED miningCalls
  PROVE  /\ M!Won' = M!Won /\ M!Rows' = M!Rows
         /\ \A c, i : M!Scored(c, i)' = M!Scored(c, i) /\ M!Worth(c, i)' = M!Worth(c, i)
         /\ \A c : M!Good(c)' = M!Good(c)
<1>1. M!Won' = M!Won
  BY DEF M!Won
<1>2. M!Rows' = M!Rows
  BY <1>1 DEF M!Rows
<1>3. \A c, i : M!Scored(c, i)' = M!Scored(c, i) /\ M!Worth(c, i)' = M!Worth(c, i)
  BY DEF M!Scored, M!Worth
<1>4. \A c : M!Good(c)' = M!Good(c)
  BY DEF M!Good
<1> QED
  BY <1>1, <1>2, <1>3, <1>4

LEMMA SameCount ==
  ASSUME NEW S
  PROVE  M!Cardinality(S) = Cardinality(S)
BY DEF M!Cardinality, Cardinality

\* A good exchange is one of two events of the call, worth its score, of at least a half.
LEMMA GoodIs ==
  ASSUME MiningInv, NEW c \in 1..Len(miningCalls)
  PROVE  /\ \A i \in M!Good(c) : /\ M!Scored(c, i) \in [call : Nat, at : Nat, score : Int]
                                 /\ M!Scored(c, i).call = c /\ M!Scored(c, i).at = i
                                 /\ M!Scored(c, i).score = M!Worth(c, i)
                                 /\ M!Worth(c, i) >= 500
         /\ M!Good(c) \subseteq Nat /\ M!Cardinality(M!Good(c)) \in Nat
         /\ \A i \in DOMAIN miningCalls[c].events :
              M!Worth(c, i) \in Int /\ (M!Worth(c, i) >= 500 => i \in M!Good(c))
<1>1. PICK ev : /\ ev = miningCalls[c].events /\ Len(ev) \in Nat
                /\ ev \in [1..Len(ev) -> [who : {"user", "agent"}, worth : Nat]]
  BY DEF MiningInv, TalkOf
<1>2. PICK len \in Nat : len = Len(ev)
  BY <1>1
<1>3. ev \in [1..len -> [who : {"user", "agent"}, worth : Nat]]
  BY <1>1, <1>2
<1>4. M!Good(c) = {i \in 1..(len - 1) : /\ ev[i].who = "user" /\ ev[i + 1].who = "agent"
                                        /\ M!Score(ev[i], ev[i + 1]) >= 500}
  BY <1>1, <1>2 DEF M!Good
<1>5. ASSUME NEW i \in 1..(len - 1)
      PROVE  M!Score(ev[i], ev[i + 1]) \in Nat
  <2>1. i \in 1..len /\ i + 1 \in 1..len
    OBVIOUS
  <2>2. ev[i].worth \in Nat /\ ev[i + 1].worth \in Nat
    BY <1>3, <2>1
  <2> QED
    BY <2>2 DEF M!Score
<1>6. ASSUME NEW i \in 1..(len - 1)
      PROVE  M!Worth(c, i) = IF ev[i].who = "user" /\ ev[i + 1].who = "agent"
                             THEN M!Score(ev[i], ev[i + 1]) ELSE 0
  <2>1. i < len
    OBVIOUS
  <2> QED
    BY <1>1, <1>2, <2>1 DEF M!Worth
<1>7. ASSUME NEW i \in M!Good(c)
      PROVE  /\ M!Scored(c, i) \in [call : Nat, at : Nat, score : Int]
             /\ M!Scored(c, i).call = c /\ M!Scored(c, i).at = i
             /\ M!Scored(c, i).score = M!Worth(c, i)
             /\ M!Worth(c, i) >= 500
  <2>1. /\ i \in 1..(len - 1) /\ ev[i].who = "user" /\ ev[i + 1].who = "agent"
        /\ M!Score(ev[i], ev[i + 1]) >= 500
    BY <1>4
  <2>2. M!Scored(c, i) = [call |-> c, at |-> i, score |-> M!Score(ev[i], ev[i + 1])]
    BY <1>1 DEF M!Scored
  <2>3. M!Worth(c, i) = M!Score(ev[i], ev[i + 1])
    BY <1>6, <2>1
  <2>4. PICK v \in Nat : v = M!Score(ev[i], ev[i + 1])
    BY <1>5, <2>1
  <2> QED
    BY <2>1, <2>2, <2>3, <2>4
<1>8. M!Good(c) \subseteq Nat /\ M!Cardinality(M!Good(c)) \in Nat
  <2>1. M!Good(c) \subseteq 1..(len - 1)
    BY <1>4
  <2>2. IsFiniteSet(M!Good(c))
    <3>1. IsFiniteSet(1..(len - 1))
      BY FS_Interval
    <3> QED
      BY <2>1, <3>1, FS_Subset
  <2>3. M!Cardinality(M!Good(c)) \in Nat
    <3>1. Cardinality(M!Good(c)) \in Nat
      BY <2>2, FS_CardinalityType
    <3> QED
      BY <3>1, SameCount
  <2> QED
    BY <2>1, <2>3
<1>9. ASSUME NEW i \in DOMAIN ev
      PROVE  M!Worth(c, i) \in Int /\ (M!Worth(c, i) >= 500 => i \in M!Good(c))
  <2>1. i \in 1..len
    BY <1>3
  <2>2. CASE i = len
    BY <1>1, <1>2, <2>2 DEF M!Worth
  <2>3. CASE i \in 1..(len - 1)
    <3>1. CASE ev[i].who = "user" /\ ev[i + 1].who = "agent"
      BY <1>4, <1>5, <1>6, <2>3, <3>1
    <3>2. CASE ~(ev[i].who = "user" /\ ev[i + 1].who = "agent")
      BY <1>6, <2>3, <3>2
    <3> QED
      BY <3>1, <3>2
  <2> QED
    BY <2>1, <2>2, <2>3
<1> QED
  BY <1>1, <1>7, <1>8, <1>9

LEMMA Concatenated ==
  ASSUME NEW S, NEW s \in Seq(S), NEW t \in Seq(S)
  PROVE  /\ s \o t \in Seq(S) /\ Len(s \o t) = Len(s) + Len(t)
         /\ \A k \in 1..Len(s) : (s \o t)[k] = s[k]
         /\ \A n \in 1..Len(t) : (s \o t)[Len(s) + n] = t[n]
OBVIOUS

LEMMA IsSequence ==
  ASSUME NEW S, NEW n \in Nat, NEW s \in [1..n -> S]
  PROVE  s \in Seq(S) /\ Len(s) = n
OBVIOUS

\* What a turn of the loop adds is found in the row it is at, and nothing twice.
LEMMA FindKeeps ==
  ASSUME MiningInv, next \in 1..Len(miningCalls), Found(candidates, next), next \in M!Rows,
         NEW s \in M!Ascending(M!Good(next))
  PROVE  Found(candidates \o [n \in DOMAIN s |-> M!Scored(next, s[n])], next + 1)
<1>1. PICK c \in Nat : c = next /\ c \in 1..Len(miningCalls)
  BY DEF MiningInv
<1>2. PICK new \in Nat : new = M!Cardinality(M!Good(c))
  BY <1>1, GoodIs
<1>3. /\ s \in [1..new -> M!Good(c)]
      /\ \A i \in M!Good(c) : \E n \in 1..new : s[n] = i
      /\ \A m, n \in 1..new : s[m] = s[n] => m = n
  <2>1. s \in M!Bijection(1..new, M!Good(c))
    BY <1>1, <1>2 DEF M!Ascending
  <2>2. s \in M!Injection(1..new, M!Good(c)) /\ s \in M!Surjection(1..new, M!Good(c))
    BY <2>1 DEF M!Bijection
  <2>3. s \in [1..new -> M!Good(c)] /\ \A i \in M!Good(c) : \E n \in 1..new : s[n] = i
    BY <2>2 DEF M!Surjection
  <2>4. M!IsInjective(s)
    BY <2>2 DEF M!Injection
  <2>5. \A m, n \in 1..new : s[m] = s[n] => m = n
    BY <2>3, <2>4 DEF M!IsInjective
  <2> QED
    BY <2>3, <2>5
<1>4. PICK more, p : /\ more = [n \in DOMAIN s |-> M!Scored(next, s[n])]
                     /\ p = candidates \o more
  OBVIOUS
<1>5. PICK old \in Nat : old = Len(candidates)
  <2>1. candidates \in Seq([call : Nat, at : Nat, score : Int])
    BY DEF Found
  <2> QED
    BY <2>1
<1>6. /\ candidates \in Seq([call : Nat, at : Nat, score : Int])
      /\ \A k \in 1..old : /\ candidates[k].call \in M!Rows /\ candidates[k].call < c
                           /\ candidates[k].at \in M!Good(candidates[k].call)
                           /\ candidates[k] = M!Scored(candidates[k].call, candidates[k].at)
      /\ \A d \in M!Rows : d < c => \A i \in M!Good(d) :
                             \E k \in 1..old : candidates[k] = M!Scored(d, i)
      /\ \A j, k \in 1..old : candidates[j] = candidates[k] => j = k
  BY <1>1, <1>5 DEF Found
<1>7. \A i \in M!Good(c) : /\ M!Scored(c, i) \in [call : Nat, at : Nat, score : Int]
                           /\ M!Scored(c, i).call = c /\ M!Scored(c, i).at = i
  BY <1>1, GoodIs
<1>8. /\ more \in Seq([call : Nat, at : Nat, score : Int]) /\ Len(more) = new
      /\ \A n \in 1..new : more[n] = M!Scored(c, s[n]) /\ s[n] \in M!Good(c)
  <2>1. DOMAIN s = 1..new
    BY <1>3
  <2>2. more = [n \in 1..new |-> M!Scored(c, s[n])]
    BY <1>1, <1>4, <2>1
  <2>3. \A n \in 1..new : more[n] = M!Scored(c, s[n]) /\ s[n] \in M!Good(c)
    BY <1>3, <2>2
  <2>4. more \in [1..new -> [call : Nat, at : Nat, score : Int]]
    BY <1>7, <2>2, <2>3
  <2>5. more \in Seq([call : Nat, at : Nat, score : Int]) /\ Len(more) = new
    BY <2>4, IsSequence
  <2> QED
    BY <2>3, <2>5
<1>9. /\ p \in Seq([call : Nat, at : Nat, score : Int]) /\ Len(p) = old + new
      /\ \A k \in 1..old : p[k] = candidates[k]
      /\ \A n \in 1..new : p[old + n] = more[n]
  BY <1>4, <1>5, <1>6, <1>8, Concatenated
<1>10. \A k \in 1..(old + new) : k \in 1..old \/ \E n \in 1..new : k = old + n
  <2>1. ASSUME NEW k \in 1..(old + new), k \notin 1..old
        PROVE  k - old \in 1..new /\ k = old + (k - old)
    BY <2>1
  <2> QED
    BY <2>1
<1>11. ASSUME NEW k \in 1..(old + new)
       PROVE  /\ p[k].call \in M!Rows /\ p[k].call < c + 1
              /\ p[k].at \in M!Good(p[k].call)
              /\ p[k] = M!Scored(p[k].call, p[k].at)
  <2>1. CASE k \in 1..old
    <3>1. /\ p[k] = candidates[k] /\ candidates[k].call \in Nat /\ candidates[k].call < c
          /\ p[k].call \in M!Rows /\ p[k].at \in M!Good(p[k].call)
          /\ p[k] = M!Scored(p[k].call, p[k].at)
      <4>1. candidates[k] \in [call : Nat, at : Nat, score : Int]
        BY <1>5, <1>6, <2>1, Members
      <4> QED
        BY <1>6, <1>9, <2>1, <4>1
    <3>2. PICK d \in Nat : d = candidates[k].call
      BY <3>1
    <3>3. d < c + 1
      BY <3>1, <3>2
    <3> QED
      BY <3>1, <3>2, <3>3
  <2>2. ASSUME NEW n \in 1..new, k = old + n
        PROVE  /\ p[k].call = c /\ p[k].at = s[n] /\ s[n] \in M!Good(c)
               /\ p[k] = M!Scored(c, s[n])
    <3>1. p[k] = M!Scored(c, s[n]) /\ s[n] \in M!Good(c)
      BY <1>8, <1>9, <2>2
    <3> QED
      BY <1>7, <3>1
  <2>3. c < c + 1 /\ c \in M!Rows
    BY <1>1
  <2> QED
    BY <1>10, <2>1, <2>2, <2>3
<1>12. ASSUME NEW d \in M!Rows, d < c + 1, NEW i \in M!Good(d)
       PROVE  \E k \in 1..(old + new) : p[k] = M!Scored(d, i)
  <2>1. d \in Nat
    BY DEF M!Rows, M!Won, MiningInv
  <2>2. CASE d < c
    <3>1. PICK k \in 1..old : candidates[k] = M!Scored(d, i)
      BY <1>6, <2>2
    <3>2. k \in 1..(old + new) /\ p[k] = candidates[k]
      BY <1>9
    <3> QED
      BY <3>1, <3>2
  <2>3. CASE d = c
    <3>1. PICK n \in 1..new : s[n] = i
      BY <1>3, <2>3
    <3>2. p[old + n] = M!Scored(d, i)
      BY <1>8, <1>9, <2>3, <3>1
    <3>3. old + n \in 1..(old + new)
      OBVIOUS
    <3> QED
      BY <3>2, <3>3
  <2> QED
    BY <1>12, <2>1, <2>2, <2>3
<1>13. ASSUME NEW j \in 1..(old + new), NEW k \in 1..(old + new), p[j] = p[k]
       PROVE  j = k
  <2>1. ASSUME NEW x \in 1..old, NEW n \in 1..new
        PROVE  p[x] # p[old + n]
    <3>1. p[x].call < c
      BY <1>6, <1>9
    <3>2. p[old + n].call = c
      <4>1. p[old + n] = M!Scored(c, s[n]) /\ s[n] \in M!Good(c)
        BY <1>8, <1>9
      <4> QED
        BY <1>7, <4>1
    <3> QED
      BY <3>1, <3>2
  <2>2. ASSUME NEW x \in 1..new, NEW n \in 1..new, p[old + x] = p[old + n]
        PROVE  x = n
    <3>1. s[x] = s[n]
      <4>1. p[old + x].at = s[x] /\ p[old + n].at = s[n]
        BY <1>7, <1>8, <1>9
      <4> QED
        BY <2>2, <4>1
    <3> QED
      BY <1>3, <3>1
  <2>3. CASE j \in 1..old /\ k \in 1..old
    <3>1. candidates[j] = candidates[k]
      BY <1>9, <1>13, <2>3
    <3> QED
      BY <1>6, <2>3, <3>1
  <2>4. CASE \E x \in 1..new : j = old + x
    BY <1>10, <1>13, <2>1, <2>2, <2>4
  <2>5. CASE j \in 1..old /\ \E n \in 1..new : k = old + n
    BY <1>13, <2>1, <2>5
  <2> QED
    BY <1>10, <2>3, <2>4, <2>5
<1>14. Len(p) = old + new /\ p \in Seq([call : Nat, at : Nat, score : Int])
  BY <1>9
<1>15. Found(p, c + 1)
  <2>1. \A k \in 1..Len(p) : /\ p[k].call \in M!Rows /\ p[k].call < c + 1
                             /\ p[k].at \in M!Good(p[k].call)
                             /\ p[k] = M!Scored(p[k].call, p[k].at)
    BY <1>11, <1>14
  <2>2. \A d \in M!Rows : d < c + 1 => \A i \in M!Good(d) :
                            \E k \in 1..Len(p) : p[k] = M!Scored(d, i)
    BY <1>12, <1>14
  <2>3. \A j, k \in 1..Len(p) : p[j] = p[k] => j = k
    BY <1>13, <1>14
  <2> QED
    BY <1>14, <2>1, <2>2, <2>3, Zenon DEF Found
<1> QED
  BY <1>1, <1>4, <1>15

LEMMA DomainIs ==
  ASSUME NEW S, NEW s \in Seq(S)
  PROVE  DOMAIN s = 1..Len(s)
OBVIOUS

\* p arranges s as t, the best first.
BestFirst(p, s, len, t) ==
  /\ p \in [1..len -> 1..len]
  /\ t = [n \in 1..len |-> s[p[n]]]
  /\ \A k \in 1..len : \E n \in 1..len : p[n] = k
  /\ \A m, n \in 1..len : p[m] = p[n] => m = n
  /\ \A m, n \in 1..len : m < n => t[m].score >= t[n].score

\* What a stable sort makes of the candidates: the same, each once, the best first.
LEMMA SortedIs ==
  ASSUME NEW s \in Seq([call : Nat, at : Nat, score : Int]), NEW t \in M!Sorted(s),
         NEW len \in Nat, len = Len(s)
  PROVE  \E p : BestFirst(p, s, len, t)
<1>1. DOMAIN s = 1..len
  OBVIOUS
<1>2. PICK key : key = [k \in DOMAIN s |-> s[k].score]
  OBVIOUS
<1>3. t \in M!Arranged(s, key)
  BY <1>2 DEF M!Sorted
<1>4. PICK p : /\ p \in M!Bijection(1..len, 1..len)
                /\ t = [n \in 1..len |-> s[p[n]]]
                /\ \A m, n \in 1..len : m < n => \/ key[p[m]] > key[p[n]]
                                                 \/ key[p[m]] = key[p[n]] /\ p[m] < p[n]
  BY <1>1, <1>3 DEF M!Arranged
<1>5. /\ p \in M!Bijection(1..len, 1..len)
      /\ t = [n \in 1..len |-> s[p[n]]]
      /\ \A k \in 1..len : key[k] = s[k].score
  BY <1>1, <1>2, <1>4
<1>6. \A m, n \in 1..len : m < n => key[p[m]] > key[p[n]] \/ key[p[m]] = key[p[n]]
  BY <1>4
<1>7. p \in M!Injection(1..len, 1..len) /\ p \in M!Surjection(1..len, 1..len)
  BY <1>5 DEF M!Bijection
<1>8. /\ p \in [1..len -> 1..len]
      /\ \A k \in 1..len : \E n \in 1..len : p[n] = k
  BY <1>7 DEF M!Surjection
<1>9. M!IsInjective(p)
  BY <1>7 DEF M!Injection
<1>10. \A m, n \in 1..len : p[m] = p[n] => m = n
  BY <1>8, <1>9 DEF M!IsInjective
<1>11. ASSUME NEW m \in 1..len, NEW n \in 1..len, m < n
      PROVE  t[m].score >= t[n].score
  <2>1. s[p[m]] \in [call : Nat, at : Nat, score : Int]
        /\ s[p[n]] \in [call : Nat, at : Nat, score : Int]
    <3>1. p[m] \in 1..Len(s) /\ p[n] \in 1..Len(s)
      BY <1>8
    <3> QED
      BY <3>1, Members
  <2>2. t[m] = s[p[m]] /\ t[n] = s[p[n]]
    BY <1>5
  <2>3. PICK x \in Int, y \in Int : x = s[p[m]].score /\ y = s[p[n]].score
    BY <2>1
  <2>4. x > y \/ x = y
    <3>1. key[p[m]] = x /\ key[p[n]] = y
      BY <1>5, <1>8, <2>3
    <3>2. key[p[m]] > key[p[n]] \/ key[p[m]] = key[p[n]]
      BY <1>11, <1>6
    <3> QED
      BY <3>1, <3>2
  <2>5. x >= y
    BY <2>4
  <2> QED
    BY <2>2, <2>3, <2>5
<1> QED
  BY <1>5, <1>8, <1>10, <1>11, Zenon DEF BestFirst

\* The first of a sequence: what it begins with, all of it if it is no longer.
LEMMA FirstIs ==
  ASSUME NEW S, NEW s \in Seq(S), NEW n \in Nat
  PROVE  /\ M!First(s, n) \in Seq(S)
         /\ Len(M!First(s, n)) = IF Len(s) <= n THEN Len(s) ELSE n
         /\ \A k \in 1..Len(M!First(s, n)) : M!First(s, n)[k] = s[k]
BY DEF M!First

\* The sorted and cut candidates are the pool that is promised.
LEMMA KeepKeeps ==
  ASSUME KeepTopK \in Nat, MiningInv, M!Keep
  PROVE  M!PoolIsBest'
<1>1. /\ Found(candidates, next) /\ UNCHANGED miningCalls
      /\ next \notin DOMAIN miningCalls
      /\ \E t \in M!Sorted(candidates) : pool' = M!First(t, KeepTopK)
  BY DEF M!Keep, MiningInv
<1>2. PICK t \in M!Sorted(candidates) : pool' = M!First(t, KeepTopK)
  BY <1>1
<1>3. candidates \in Seq([call : Nat, at : Nat, score : Int])
  BY <1>1 DEF Found
<1>4. PICK len \in Nat : len = Len(candidates)
  BY <1>3
<1>5. PICK p : BestFirst(p, candidates, len, t)
  BY <1>3, <1>4, SortedIs
<1>6. /\ p \in [1..len -> 1..len]
      /\ t = [n \in 1..len |-> candidates[p[n]]]
      /\ \A k \in 1..len : \E n \in 1..len : p[n] = k
      /\ \A m, n \in 1..len : p[m] = p[n] => m = n
      /\ \A m, n \in 1..len : m < n => t[m].score >= t[n].score
  BY <1>5 DEF BestFirst
<1>7. \A k \in 1..len : candidates[k] \in [call : Nat, at : Nat, score : Int]
  BY <1>3, <1>4, Members
<1>8. t \in Seq([call : Nat, at : Nat, score : Int]) /\ Len(t) = len
  <2>1. t \in [1..len -> [call : Nat, at : Nat, score : Int]]
    BY <1>6, <1>7
  <2> QED
    BY <2>1, IsSequence
<1>9. PICK best : best = pool'
  OBVIOUS
<1>10. PICK kept \in Nat :
        /\ kept = Len(best) /\ best \in Seq([call : Nat, at : Nat, score : Int])
        /\ kept = IF len <= KeepTopK THEN len ELSE KeepTopK
        /\ \A k \in 1..kept : best[k] = t[k]
  <2>1. /\ best \in Seq([call : Nat, at : Nat, score : Int])
        /\ Len(best) = IF len <= KeepTopK THEN len ELSE KeepTopK
        /\ \A k \in 1..Len(best) : best[k] = t[k]
    BY <1>2, <1>8, <1>9, FirstIs
  <2>2. Len(best) \in Nat
    BY <2>1
  <2> QED
    BY <2>1, <2>2
<1>11. \A k \in 1..kept : k \in 1..len /\ best[k] = candidates[p[k]] /\ p[k] \in 1..len
  <2>1. kept <= len
    BY <1>10
  <2>2. ASSUME NEW k \in 1..kept
        PROVE  k \in 1..len /\ best[k] = candidates[p[k]] /\ p[k] \in 1..len
    <3>1. k \in 1..len
      BY <2>1
    <3>2. best[k] = t[k]
      BY <1>10
    <3> QED
      BY <1>6, <3>1, <3>2
  <2> QED
    BY <2>2
<1>12. M!Rows \subseteq M!Won /\ M!Won \subseteq 1..Len(miningCalls)
  BY DEF MiningInv, M!Rows, M!Won
<1>13. \A c \in M!Rows : c < next
  <2>1. PICK size \in Nat : size = Len(miningCalls)
    BY DEF MiningInv
  <2>2. next \in 1..(size + 1) /\ next \notin 1..size
    BY <1>1, <2>1 DEF MiningInv
  <2>3. M!Rows \subseteq 1..size
    BY <1>12, <2>1
  <2> QED
    BY <2>2, <2>3
<1>14. /\ \A k \in 1..len : /\ candidates[k].call \in M!Rows
                            /\ candidates[k].at \in M!Good(candidates[k].call)
                            /\ candidates[k] = M!Scored(candidates[k].call, candidates[k].at)
       /\ \A c \in M!Rows : \A i \in M!Good(c) :
            \E k \in 1..len : candidates[k] = M!Scored(c, i)
       /\ \A j, k \in 1..len : candidates[j] = candidates[k] => j = k
  BY <1>1, <1>4, <1>13 DEF Found
<1>15. ASSUME NEW k \in 1..kept
       PROVE  /\ best[k].call \in M!Won
              /\ best[k].score = M!Worth(best[k].call, best[k].at)
              /\ best[k].score >= 500
              /\ best[k] = M!Scored(best[k].call, best[k].at)
  <2>1. /\ best[k].call \in M!Rows /\ best[k].at \in M!Good(best[k].call)
        /\ best[k] = M!Scored(best[k].call, best[k].at)
    BY <1>11, <1>14
  <2>2. PICK c, i : /\ c = best[k].call /\ i = best[k].at /\ best[k] = M!Scored(c, i)
                    /\ c \in 1..Len(miningCalls) /\ i \in M!Good(c)
    BY <1>12, <2>1
  <2>3. best[k].score = M!Worth(c, i) /\ M!Worth(c, i) >= 500
    BY <2>2, GoodIs
  <2> QED
    BY <1>12, <2>1, <2>2, <2>3
<1>16. ASSUME NEW k \in 1..kept, NEW m \in 1..kept, k < m
       PROVE  /\ best[k].score >= best[m].score
              /\ best[k].call # best[m].call \/ best[k].at # best[m].at
  <2>1. best[k].score >= best[m].score
    BY <1>6, <1>10, <1>11, <1>16
  <2>2. best[k] # best[m]
    <3>1. best[k] = best[m] => p[k] = p[m]
      BY <1>11, <1>14
    <3> QED
      BY <1>6, <1>11, <1>16, <3>1
  <2> QED
    BY <1>15, <2>1, <2>2
<1>17. ASSUME NEW c \in M!Rows, NEW i \in DOMAIN miningCalls[c].events, M!Worth(c, i) >= 500
       PROVE  \/ \E k \in 1..kept : best[k].call = c /\ best[k].at = i
              \/ kept = KeepTopK /\ \A k \in 1..kept : best[k].score >= M!Worth(c, i)
  <2>1. c \in 1..Len(miningCalls)
    BY <1>12
  <2>2. i \in M!Good(c)
    BY <1>17, <2>1, GoodIs
  <2>3. PICK x : /\ x = M!Scored(c, i) /\ x.call = c /\ x.at = i /\ x.score = M!Worth(c, i)
    BY <2>1, <2>2, GoodIs
  <2>4. PICK n \in 1..len : candidates[p[n]] = x
    <3>1. PICK k \in 1..len : candidates[k] = x
      BY <1>14, <2>2, <2>3
    <3> QED
      BY <1>6, <3>1
  <2>5. CASE n <= kept
    <3>1. n \in 1..kept
      BY <2>5
    <3> QED
      BY <1>11, <2>3, <2>4, <3>1
  <2>6. CASE n > kept
    <3>1. kept = KeepTopK
      BY <1>10, <2>6
    <3>2. ASSUME NEW k \in 1..kept PROVE best[k].score >= x.score
      <4>1. k \in 1..len /\ k < n
        BY <1>11, <2>6
      <4>2. t[k].score >= t[n].score
        BY <1>6, <4>1
      <4>3. t[n] = x /\ best[k] = t[k]
        BY <1>6, <1>10, <2>4
      <4> QED
        BY <4>2, <4>3
    <3> QED
      BY <2>3, <3>1, <3>2
  <2> QED
    BY <2>5, <2>6
<1>18. kept <= KeepTopK /\ DOMAIN best = 1..kept
  <2>1. kept <= KeepTopK
    BY <1>10
  <2>2. DOMAIN best = 1..Len(best)
    BY <1>10, DomainIs
  <2> QED
    BY <1>10, <2>1, <2>2
<1>19. /\ M!Won' = M!Won /\ M!Rows' = M!Rows
       /\ \A c, i : M!Worth(c, i)' = M!Worth(c, i)
  BY <1>1, CallsStay
<1>20. \A k \in 1..kept : M!Worth(pool[k].call, pool[k].at)' = M!Worth(best[k].call, best[k].at)
  BY <1>1, <1>9 DEF M!Worth
<1>21. /\ \A k \in 1..kept : /\ best[k].call \in M!Won'
                             /\ best[k].score = M!Worth(pool[k].call, pool[k].at)'
                             /\ best[k].score >= 500
       /\ \A k, m \in 1..kept :
            k < m => /\ best[k].score >= best[m].score
                     /\ best[k].call # best[m].call \/ best[k].at # best[m].at
       /\ kept <= KeepTopK
  <2>1. \A k \in 1..kept : /\ best[k].call \in M!Won'
                           /\ best[k].score = M!Worth(pool[k].call, pool[k].at)'
                           /\ best[k].score >= 500
    BY <1>15, <1>19, <1>20
  <2> QED
    BY <1>16, <1>18, <2>1
<1>22. \A c \in M!Rows' : \A i \in DOMAIN miningCalls'[c].events :
         M!Worth(c, i)' >= 500 =>
           \/ \E k \in 1..kept : best[k].call = c /\ best[k].at = i
           \/ kept = KeepTopK /\ \A k \in 1..kept : best[k].score >= M!Worth(c, i)'
  <2>1. SUFFICES ASSUME NEW c \in M!Rows, NEW i \in DOMAIN miningCalls[c].events,
                        M!Worth(c, i)' >= 500
                 PROVE  \/ \E k \in 1..kept : best[k].call = c /\ best[k].at = i
                        \/ /\ kept = KeepTopK
                           /\ \A k \in 1..kept : best[k].score >= M!Worth(c, i)'
    BY <1>1, <1>19
  <2>2. M!Worth(c, i)' = M!Worth(c, i)
    BY <1>19
  <2> QED
    BY <1>17, <2>1, <2>2
<1>23. pool' = best /\ DOMAIN pool' = 1..kept /\ Len(pool') = kept
  BY <1>9, <1>10, <1>18
<1>24. /\ \A k \in DOMAIN pool' : /\ pool'[k].call \in M!Won'
                                 /\ pool'[k].score = M!Worth(pool[k].call, pool[k].at)'
                                 /\ pool'[k].score >= 500
       /\ \A k, m \in DOMAIN pool' :
            k < m => /\ pool'[k].score >= pool'[m].score
                     /\ pool'[k].call # pool'[m].call \/ pool'[k].at # pool'[m].at
       /\ Len(pool') <= KeepTopK
  BY <1>21, <1>23
<1>25. \A c \in M!Rows' : \A i \in DOMAIN miningCalls'[c].events :
         M!Worth(c, i)' >= 500 =>
           \/ M!InPool(c, i)'
           \/ Len(pool') = KeepTopK /\ \A k \in DOMAIN pool' : pool'[k].score >= M!Worth(c, i)'
  BY <1>22, <1>23 DEF M!InPool
<1> QED
  BY <1>24, <1>25 DEF M!PoolIsBest

\* The bounds of the job and of the talks.
Bounded == KeepTopK \in Nat /\ Long \in Nat /\ Short \in Nat

LEMMA TalksAre ==
  ASSUME NEW n \in Nat, NEW talk \in M!Talks(n)
  PROVE  /\ Len(talk) \in Nat
         /\ talk \in [1..Len(talk) -> [who : {"user", "agent"}, worth : Nat]]
<1>1. PICK m \in Nat : talk \in [1..m -> M!Said]
  BY DEF M!Talks
<1>2. M!Said \subseteq [who : {"user", "agent"}, worth : Nat]
  BY DEF M!Said
<1>3. talk \in [1..m -> [who : {"user", "agent"}, worth : Nat]]
  BY <1>1, <1>2
<1>4. Len(talk) = m
  BY <1>3, IsSequence
<1> QED
  BY <1>3, <1>4

LEMMA MiningBegins ==
  ASSUME Bounded, M!Init
  PROVE  MiningInv
<1>1. PICK k1, k2, t1, t2 :
        /\ t1 \in M!Talks(Long) /\ t2 \in M!Talks(Short)
        /\ miningCalls = <<M!Call(k1, t1), M!Call(k2, t2), M!OldCall>>
  BY DEF M!Init
<1>2. PICK t3 : /\ M!OldCall.events = t3
                /\ t3 = <<[who |-> "user", worth |-> 600], [who |-> "agent", worth |-> 200]>>
  BY DEF M!OldCall, M!Call
<1>3. Len(miningCalls) = 3 /\ DOMAIN miningCalls = 1..3
  BY <1>1
<1>4. /\ miningCalls[1].events = t1 /\ miningCalls[2].events = t2
      /\ miningCalls[3].events = t3
  BY <1>1, <1>2 DEF M!Call
<1>5. /\ Len(t1) \in Nat /\ t1 \in [1..Len(t1) -> [who : {"user", "agent"}, worth : Nat]]
      /\ Len(t2) \in Nat /\ t2 \in [1..Len(t2) -> [who : {"user", "agent"}, worth : Nat]]
  BY <1>1, TalksAre DEF Bounded
<1>6. Len(t3) \in Nat /\ t3 \in [1..Len(t3) -> [who : {"user", "agent"}, worth : Nat]]
  <2>1. Len(t3) = 2
    BY <1>2
  <2>2. t3 \in [1..2 -> [who : {"user", "agent"}, worth : Nat]]
    BY <1>2
  <2> QED
    BY <2>1, <2>2
<1>7. ASSUME NEW c \in 1..3
      PROVE  /\ Len(miningCalls[c].events) \in Nat
             /\ miningCalls[c].events \in TalkOf(c)
  <2>1. c = 1 \/ c = 2 \/ c = 3
    OBVIOUS
  <2> QED
    BY <1>4, <1>5, <1>6, <2>1 DEF TalkOf
<1>8. next = 1 /\ candidates = <<>> /\ job = "off"
  BY DEF M!Init
<1>9. \A c \in M!Rows : ~(c < 1)
  BY <1>3 DEF M!Rows, M!Won
<1>10. Found(candidates, next)
  BY <1>8, <1>9 DEF Found
<1>11. M!PoolIsBest
  BY <1>8 DEF M!PoolIsBest
<1> QED
  BY <1>3, <1>7, <1>8, <1>10, <1>11 DEF MiningInv

\* What does not write the calls, the place of the loop, the candidates and the pool keeps
\* the invariant.
LEMMA RestKeeps ==
  ASSUME MiningInv, UNCHANGED <<miningCalls, next, candidates, pool>>,
         job' = job \/ (job = "off" /\ job' = "reading")
  PROVE  MiningInv'
<1>1. /\ M!Won' = M!Won /\ M!Rows' = M!Rows
      /\ \A c, i : M!Scored(c, i)' = M!Scored(c, i) /\ M!Worth(c, i)' = M!Worth(c, i)
      /\ \A c : M!Good(c)' = M!Good(c)
  BY CallsStay
<1>2. job' # "done" => Found(candidates, next)'
  BY <1>1 DEF MiningInv, Found
<1>3. M!PoolIsBest'
  BY <1>1 DEF MiningInv, M!PoolIsBest, M!InPool
<1> QED
  BY <1>2, <1>3 DEF MiningInv, TalkOf

LEMMA ReadKeeps ==
  ASSUME MiningInv, M!Read
  PROVE  MiningInv'
<1>1. /\ job = "reading" /\ next \in 1..Len(miningCalls) /\ Found(candidates, next)
      /\ next' = next + 1 /\ UNCHANGED <<miningCalls, job, pool>>
  BY DEF M!Read, MiningInv
<1>2. Found(candidates', next + 1)
  <2>1. CASE next \in M!Rows
    BY <1>1, <2>1, FindKeeps DEF M!Read
  <2>2. CASE next \notin M!Rows
    <3>1. PICK n \in Nat : n = next
      BY <1>1
    <3>2. ASSUME NEW c \in M!Rows PROVE c \in Int /\ c # n
      <4>1. c \in 1..Len(miningCalls)
        BY DEF M!Rows, M!Won, MiningInv
      <4> QED
        BY <2>2, <3>1, <4>1
    <3>3. \A c \in M!Rows : (c < n + 1 <=> c < n)
      BY <3>2
    <3>4. candidates' = candidates
      BY <2>2 DEF M!Read
    <3> QED
      BY <1>1, <3>1, <3>3, <3>4 DEF Found
  <2> QED
    BY <2>1, <2>2
<1>3. /\ M!Rows' = M!Rows /\ \A c, i : M!Scored(c, i)' = M!Scored(c, i)
      /\ \A c : M!Good(c)' = M!Good(c)
  BY <1>1, CallsStay
<1>4. Found(candidates, next)'
  BY <1>1, <1>2, <1>3 DEF Found
<1>5. M!PoolIsBest'
  BY <1>1 DEF M!PoolIsBest
<1>6. next' \in 1..(Len(miningCalls) + 1)
  <2>1. PICK n \in Nat, size \in Nat : n = next /\ size = Len(miningCalls)
    <3>1. Len(miningCalls) \in Nat
      BY DEF MiningInv
    <3>2. next \in Nat
      BY <1>1
    <3> QED
      BY <3>1, <3>2
  <2> QED
    BY <1>1, <2>1
<1> QED
  BY <1>1, <1>4, <1>5, <1>6 DEF MiningInv, TalkOf

\* For every length of the talks, limit on the calls and cut: when the job is through, the
\* pool is of good exchanges of the campaign's successful calls, each once and the best
\* first, and a good one of a call within the limit is left out only from a full pool of
\* which none is worth less (_mine_one_campaign).
THEOREM PoolsAreTheBest ==
  ASSUME Bounded
  PROVE  M!Spec => []PoolIsBest
<1>1. M!Init => MiningInv
  BY MiningBegins
<1>2. MiningInv /\ [M!Next]_M!vars => MiningInv'
  <2>1. SUFFICES ASSUME MiningInv, [M!Next]_M!vars PROVE MiningInv'
    OBVIOUS
  <2>2. CASE M!Start
    BY <2>1, <2>2, RestKeeps DEF M!Start
  <2>3. CASE M!Read
    BY <2>1, <2>3, ReadKeeps
  <2>4. CASE M!Keep
    <3>1. M!PoolIsBest'
      BY <2>1, <2>4, KeepKeeps DEF Bounded
    <3>2. job' = "done" /\ UNCHANGED <<miningCalls, next>>
      BY <2>4 DEF M!Keep
    <3> QED
      BY <2>1, <3>1, <3>2 DEF MiningInv, TalkOf
  <2>5. CASE M!Metrics
    BY <2>1, <2>5, RestKeeps DEF M!Metrics
  <2>6. CASE M!Done \/ UNCHANGED M!vars
    BY <2>1, <2>6, RestKeeps DEF M!Done, M!vars
  <2> QED
    BY <2>1, <2>2, <2>3, <2>4, <2>5, <2>6 DEF M!Next
<1>3. MiningInv => PoolIsBest
  BY DEF MiningInv, PoolIsBest
<1> QED
  BY <1>1, <1>2, <1>3, PTL DEF M!Spec
=============================================================================
