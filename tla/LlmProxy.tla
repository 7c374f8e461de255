------------------------------ MODULE LlmProxy ------------------------------
(***************************************************************************)
(* The LLM server (llm-server): the wrapper's life around its vLLM child   *)
(* (launcher.py) and the streaming reverse proxy with its count of         *)
(* requests in flight (main.py).  uvicorn, external, starts to serve when  *)
(* the start-up is over, and lets the shut-down begin when every           *)
(* connection has been served.                                             *)
(***************************************************************************)
EXTENDS Integers, FiniteSets

CONSTANTS Requests

VARIABLES vllm,      \* the child: loading, up, dead
          wrapper,   \* warmup, serving, stopping, draining, terminating, down
          loaded_at, \* set by a warm-up that succeeded
          req,       \* per request: none, sending, answered, streaming, ended
          client,    \* its client is there
          opened,    \* upstream responses that are not closed
          inflight

life == <<vllm, wrapper, loaded_at>>
vars == <<life, req, client, opened, inflight>>

Init == /\ vllm = "loading" /\ wrapper = "warmup" /\ loaded_at = FALSE
        /\ req = [r \in Requests |-> "none"] /\ client = [r \in Requests |-> TRUE]
        /\ opened = {} /\ inflight = 0

Serving == wrapper \in {"serving", "stopping"}
Goto(r, p) == req' = [req EXCEPT ![r] = p]

----------------------------------------------------------------------------
(* The child. *)

Loads == /\ vllm = "loading"
         /\ vllm' = "up"
         /\ UNCHANGED <<wrapper, loaded_at, req, client, opened, inflight>>

Dies == /\ vllm \in {"loading", "up"} /\ wrapper # "down"
        /\ vllm' = "dead"
        /\ UNCHANGED <<wrapper, loaded_at, req, client, opened, inflight>>

\* wait_ready: the child answers, has died, or 300 s are over; it serves in any case.
WaitReady == /\ wrapper = "warmup"
             /\ \/ vllm = "up" /\ loaded_at' = TRUE
                \/ vllm \in {"dead", "loading"} /\ UNCHANGED loaded_at
             /\ wrapper' = "serving"
             /\ UNCHANGED <<vllm, req, client, opened, inflight>>

----------------------------------------------------------------------------
(* _proxy *)

Request(r) == /\ wrapper = "serving" /\ req[r] = "none"
              /\ Goto(r, "sending")
              /\ inflight' = inflight + 1
              /\ UNCHANGED <<life, client, opened>>

\* Mutant of Send: the answer 502 leaves the count to the stream there never is.
LeakingSend(r) == /\ req[r] = "sending"
                  /\ \/ vllm = "up" /\ Goto(r, "answered") /\ opened' = opened \cup {r}
                     \/ Goto(r, "ended") /\ UNCHANGED opened
                  /\ UNCHANGED <<life, client, inflight>>

\* client.send: the head of vLLM's answer, or 502.
Send(r) == /\ req[r] = "sending"
           /\ \/ /\ vllm = "up" /\ Goto(r, "answered")
                 /\ opened' = opened \cup {r} /\ UNCHANGED inflight
              \/ /\ Goto(r, "ended")
                 /\ inflight' = inflight - 1 /\ UNCHANGED opened
           /\ UNCHANGED <<life, client>>

\* The response is handed to the server: _stream begins, unless the client is already
\* gone and nobody iterates it; its finally clause then never runs.
Stream(r) == /\ req[r] = "answered"
             /\ \/ Goto(r, "streaming")
                \/ ~client[r] /\ Goto(r, "ended")
             /\ UNCHANGED <<life, client, opened, inflight>>

\* The last chunk, an error of vLLM's, or a client that left: the finally of _stream.
EndStream(r) == /\ req[r] = "streaming"
                /\ Goto(r, "ended")
                /\ opened' = opened \ {r}
                /\ inflight' = inflight - 1
                /\ UNCHANGED <<life, client>>

Leave(r) == /\ client[r] /\ req[r] \in {"sending", "answered", "streaming"}
            /\ client' = [client EXCEPT ![r] = FALSE]
            /\ UNCHANGED <<life, req, opened, inflight>>

----------------------------------------------------------------------------
(* SIGTERM: uvicorn takes no more, serves what it has, then the lifespan ends. *)

Sigterm == /\ wrapper = "serving"
           /\ wrapper' = "stopping"
           /\ UNCHANGED <<vllm, loaded_at, req, client, opened, inflight>>

ConnectionsEnd == /\ wrapper = "stopping"
                  /\ \A r \in Requests : req[r] \in {"none", "ended"}
                  /\ wrapper' = "draining"
                  /\ UNCHANGED <<vllm, loaded_at, req, client, opened, inflight>>

\* Nothing in flight, or 30 s; then the client's connections are closed.
Drain == /\ wrapper = "draining"
         /\ wrapper' = "terminating" /\ opened' = {}
         /\ UNCHANGED <<vllm, loaded_at, req, client, inflight>>

\* terminate: SIGTERM, SIGKILL after the grace period.
Terminate == /\ wrapper = "terminating"
             /\ wrapper' = "down" /\ vllm' = "dead"
             /\ UNCHANGED <<loaded_at, req, client, opened, inflight>>

Handle(r) == Send(r) \/ Stream(r) \/ EndStream(r)
Main == WaitReady \/ ConnectionsEnd \/ Drain \/ Terminate

Next == \/ Loads \/ Dies \/ Main \/ Sigterm
        \/ \E r \in Requests : Request(r) \/ Handle(r) \/ Leave(r)

Spec == Init /\ [][Next]_vars
\* request_timeout_sec ends every request, deadlines end every wait.
FairSpec == Spec /\ WF_vars(Main) /\ \A r \in Requests : WF_vars(Handle(r))

----------------------------------------------------------------------------
\* Answered, and never streamed because the client had gone.
Lost == {r \in opened : req[r] = "ended"}

\* The count is of the requests in flight and of those that were lost between the answer
\* and the stream, whatever fails: what the drain waits for.
InflightIsExact == wrapper \notin {"terminating", "down"} =>
  inflight = Cardinality({r \in Requests : req[r] \in {"sending", "answered", "streaming"}} \cup Lost)

\* The proxy counts what it serves; it serves in the end, whether vLLM comes up or not; and
\* it stops when told to, lost requests or not.
ProxyLives == /\ []InflightIsExact
              /\ wrapper = "warmup" ~> wrapper = "serving"
              /\ wrapper = "stopping" ~> wrapper = "down" /\ vllm = "dead"
=============================================================================
