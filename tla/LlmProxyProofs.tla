--------------------------- MODULE LlmProxyProofs --------------------------
(***************************************************************************)
(* Theorems about LlmProxy, for any set of requests.                       *)
(***************************************************************************)
EXTENDS LlmProxy, FiniteSetTheorems, TLAPS
----------------------------------------------------------------------------
(***************************************************************************)
(* The inductive invariant.  The count is the cardinality of a set that    *)
(* gains and loses one request at a time; for that, a response must be     *)
(* open exactly from the head of vLLM's answer to the end of the stream,   *)
(* or for ever if it was lost (Sound).  Once the drain is over the client  *)
(* has closed them all, and nothing counts any more.                       *)
(***************************************************************************)
Typed ==
  /\ req \in [Requests -> {"none", "sending", "answered", "streaming", "ended"}]
  /\ wrapper \in {"warmup", "serving", "stopping", "draining", "terminating", "down"}
  /\ opened \subseteq Requests

InProgress == {r \in Requests : req[r] \in {"sending", "answered", "streaming"}}
Counted    == InProgress \cup Lost

Sound == \A r \in Requests :
  /\ req[r] \in {"answered", "streaming"} => r \in opened
  /\ r \in opened => req[r] \in {"answered", "streaming", "ended"}

Exact == IsFiniteSet(Counted) /\ inflight = Cardinality(Counted)

Inv == Typed /\ (wrapper \notin {"terminating", "down"} => Sound /\ Exact)
----------------------------------------------------------------------------
LEMMA InitInv == Init => Inv
<1> SUFFICES ASSUME Init PROVE Inv
  OBVIOUS
<1>1. Typed /\ Sound
  BY DEF Init, Typed, Sound
<1>2. Counted = {}
  BY DEF Init, Counted, InProgress, Lost
<1>3. Exact
  BY <1>2, FS_EmptySet DEF Init, Exact
<1> QED
  BY <1>1, <1>3 DEF Inv

\* The steps of the child and of the wrapper do not touch the count while it counts.
LEMMA LifeInv ==
  ASSUME Inv, Loads \/ Dies \/ Main \/ Sigterm
  PROVE  Inv'
<1>1. Typed'
  BY DEF Inv, Typed, Loads, Dies, Main, Sigterm, WaitReady, ConnectionsEnd, Drain, Terminate
<1>2. ASSUME wrapper' \notin {"terminating", "down"}
      PROVE  wrapper \notin {"terminating", "down"} /\ UNCHANGED <<req, opened, inflight>>
  BY <1>2 DEF Inv, Typed, Loads, Dies, Main, Sigterm, WaitReady, ConnectionsEnd, Drain,
              Terminate
<1>3. ASSUME wrapper' \notin {"terminating", "down"} PROVE Sound' /\ Exact'
  <2>1. Sound /\ Exact /\ UNCHANGED <<req, opened, inflight>>
    BY <1>2, <1>3 DEF Inv
  <2> QED
    BY <2>1 DEF Sound, Exact, Counted, InProgress, Lost
<1> QED
  BY <1>1, <1>3 DEF Inv

\* A step that moves one request and changes neither the set nor the number counted.
LEMMA SameCount ==
  ASSUME Exact, Counted' = Counted, inflight' = inflight
  PROVE  Exact'
BY DEF Exact

\* A step of a request, while the count counts.
LEMMA RequestCounts ==
  ASSUME Typed, Sound, Exact, NEW r \in Requests, Request(r) \/ Handle(r) \/ Leave(r)
  PROVE  Sound' /\ Exact'
<1>1. CASE Request(r)
  <2>1. Sound' /\ Counted' = Counted \cup {r} /\ r \notin Counted
    BY <1>1 DEF Request, Goto, Typed, Sound, Counted, InProgress, Lost
  <2>2. inflight' = inflight + 1
    BY <1>1 DEF Request
  <2> QED
    BY <2>1, <2>2, FS_AddElement DEF Exact
<1>2. CASE Send(r) /\ inflight' = inflight /\ opened' = opened \cup {r} /\ Goto(r, "answered")
  <2>1. Sound' /\ Counted' = Counted
    BY <1>2 DEF Send, Goto, Typed, Sound, Counted, InProgress, Lost
  <2> QED
    BY <1>2, <2>1, SameCount
<1>3. CASE Send(r) /\ inflight' = inflight - 1 /\ opened' = opened /\ Goto(r, "ended")
  <2>1. Sound' /\ Counted' = Counted \ {r} /\ r \in Counted
    BY <1>3 DEF Send, Goto, Typed, Sound, Counted, InProgress, Lost
  <2> QED
    BY <1>3, <2>1, FS_RemoveElement DEF Exact
<1>4. CASE Stream(r)
  <2>1. Sound' /\ Counted' = Counted
    BY <1>4 DEF Stream, Goto, Typed, Sound, Counted, InProgress, Lost
  <2> QED
    BY <1>4, <2>1, SameCount DEF Stream
<1>5. CASE EndStream(r)
  <2>1. Sound' /\ Counted' = Counted \ {r} /\ r \in Counted
    BY <1>5 DEF EndStream, Goto, Typed, Sound, Counted, InProgress, Lost
  <2>2. inflight' = inflight - 1
    BY <1>5 DEF EndStream
  <2> QED
    BY <2>1, <2>2, FS_RemoveElement DEF Exact
<1>6. CASE Leave(r)
  <2>1. Sound' /\ Counted' = Counted
    BY <1>6 DEF Leave, Sound, Counted, InProgress, Lost
  <2> QED
    BY <1>6, <2>1, SameCount DEF Leave
<1> QED
  BY <1>1, <1>2, <1>3, <1>4, <1>5, <1>6 DEF Handle, Send

LEMMA StepInv == Inv /\ [Next]_vars => Inv'
<1> SUFFICES ASSUME Inv, [Next]_vars PROVE Inv'
  OBVIOUS
<1>1. CASE UNCHANGED vars
  BY <1>1 DEF vars, life, Inv, Typed, Sound, Exact, Counted, InProgress, Lost
<1>2. ASSUME NEW r \in Requests, Request(r) \/ Handle(r) \/ Leave(r)
      PROVE  Inv'
  <2>1. Typed' /\ wrapper' = wrapper
    BY <1>2 DEF Inv, Typed, Request, Handle, Send, Stream, EndStream, Leave, Goto, life
  <2> QED
    BY <1>2, <2>1, RequestCounts DEF Inv
<1> QED
  BY <1>1, <1>2, LifeInv DEF Next
----------------------------------------------------------------------------
\* The number the drain waits for is that of the requests in flight and of those lost between
\* the answer and the stream (_proxy, _stream), whatever fails, dies or leaves.
THEOREM CountIsExact == Spec => []InflightIsExact
<1>1. Inv => InflightIsExact
  BY DEF Inv, Exact, Counted, InProgress, InflightIsExact
<1>2. Init => Inv
  BY InitInv
<1>3. Inv /\ [Next]_vars => Inv'
  BY StepInv
<1> QED
  BY <1>1, <1>2, <1>3, PTL DEF Spec
=============================================================================
