----------------------------- MODULE LiveEvents -----------------------------
(***************************************************************************)
(* One browser's stream of a deployment's events: the pub/sub source of    *)
(* api/v1/deployments.py, live_stream, inside the keep-alive loop of       *)
(* events/sse.py.  Events are numbered as they are published.              *)
(***************************************************************************)
EXTENDS Naturals, Sequences

CONSTANT MaxEvents    \* bound on the events published

VARIABLES published,  \* events published on the deployment's channel
          channel,    \* those Redis holds for this subscriber
          source,     \* the async generator: new, waiting (in listen), yielded, closed
          loop,       \* _format_loop: check, next, ended
          sent,       \* events written to the browser
          since,      \* how many events had been published at the subscription
          client      \* the browser is there

vars == <<published, channel, source, loop, sent, since, client>>

Init == /\ published = 0 /\ channel = <<>> /\ source = "new" /\ loop = "check"
        /\ sent = <<>> /\ since = 0 /\ client = TRUE

Subscribed == source \in {"waiting", "yielded"}

\* publish_event
Publish == /\ published < MaxEvents
           /\ published' = published + 1
           /\ channel' = IF Subscribed THEN Append(channel, published + 1) ELSE channel
           /\ UNCHANGED <<source, loop, sent, since, client>>

Leave == /\ client
         /\ client' = FALSE
         /\ UNCHANGED <<published, channel, source, loop, sent, since>>

\* is_disconnected(); the loop that returns leaves the source to its finalizer.
Check == /\ loop = "check"
         /\ loop' = IF client THEN "next" ELSE "ended"
         /\ UNCHANGED <<published, channel, source, sent, since, client>>

\* The first __anext__ subscribes; a later one goes on in listen().
Advance == /\ loop = "next" /\ source \in {"new", "yielded"}
           /\ source' = "waiting"
           /\ since' = IF source = "new" THEN published ELSE since
           /\ UNCHANGED <<published, channel, loop, sent, client>>

\* Mutant of Forward: the loop writes the last of several events that have come.
SkippingForward == /\ loop = "next" /\ source = "waiting" /\ channel # <<>>
                   /\ sent' = Append(sent, channel[Len(channel)])
                   /\ channel' = <<>>
                   /\ source' = "yielded" /\ loop' = "check"
                   /\ UNCHANGED <<published, since, client>>

Forward == /\ loop = "next" /\ source = "waiting" /\ channel # <<>>
           /\ sent' = Append(sent, Head(channel))
           /\ channel' = Tail(channel)
           /\ source' = "yielded" /\ loop' = "check"
           /\ UNCHANGED <<published, since, client>>

\* StreamingResponse hears that the client has gone and cancels the loop wherever it waits:
\* a source inside __anext__ ends with it, another is left to its finalizer.
Disconnect == /\ ~client /\ loop # "ended"
              /\ loop' = "ended"
              /\ source' = IF loop = "next" THEN "closed" ELSE source
              /\ channel' = IF loop = "next" THEN <<>> ELSE channel
              /\ UNCHANGED <<published, sent, since, client>>

\* 15 s without an event: wait_for cancels __anext__, the generator runs its finally and
\* is exhausted.
KeepAlive == /\ loop = "next" /\ source = "waiting" /\ channel = <<>>
             /\ source' = "closed" /\ loop' = "check"
             /\ UNCHANGED <<published, channel, sent, since, client>>

\* StopAsyncIteration of an exhausted source counts as silence.
Exhausted == /\ loop = "next" /\ source = "closed"
             /\ loop' = "check"
             /\ UNCHANGED <<published, channel, source, sent, since, client>>

\* The event loop's hook closes a generator nobody refers to any more: unsubscribe, aclose.
Finalize == /\ loop = "ended" /\ source # "closed"
            /\ source' = "closed" /\ channel' = <<>>
            /\ UNCHANGED <<published, loop, sent, since, client>>

Loop == Check \/ Advance \/ Forward \/ Exhausted \/ Finalize

Next == Publish \/ Leave \/ Loop \/ Disconnect \/ KeepAlive

Spec == Init /\ [][Next]_vars
\* The event loop runs, and the time-out of wait_for comes.
FairSpec == Spec /\ WF_vars(Loop) /\ WF_vars(KeepAlive)

----------------------------------------------------------------------------
\* What the browser is sent is the beginning of what was published since the subscription,
\* in order, each event once; while the source listens the rest of it is on its way.  And a
\* stream whose browser has gone gives its Redis subscription back, wherever it was when it
\* was cancelled or found out (sse.py:38-49, deployments.py:209-221).  Once a silence has closed the
\* source nothing more is sent, whatever is published: publisher.py:3-4 promises more.
EventsAreStreamed ==
  /\ [](/\ \A i \in DOMAIN sent : sent[i] = since + i
        /\ Subscribed => since + Len(sent) + Len(channel) = published)
  /\ ~client ~> source = "closed"
=============================================================================
