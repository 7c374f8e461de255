--------------------------- MODULE CampaignMining ---------------------------
(***************************************************************************)
(* What a campaign learns and reports from its calls: the mining job that  *)
(* keeps the best exchanges of successful calls as few-shot examples       *)
(* (campaign_mine_job.py), and the campaign's metrics                      *)
(* (campaigns_service.py).  Texts are the shares they add to a score, in   *)
(* thousandths.                                                            *)
(***************************************************************************)
EXTENDS Integers, Sequences, FiniteSets, Functions

CONSTANTS KeepTopK,   \* 12 in the code
          MaxCalls,   \* 200 in the code
          Long, Short \* bounds on the events of the two newest calls

VARIABLES calls,      \* the calls table, newest first: [mine, won, events]
          job,        \* off, reading, done
          next,       \* the call that the loop over the rows comes to next
          candidates, \* scored pairs, in the order they were found
          pool,       \* campaigns.few_shot_pool
          metrics     \* the answer of the metrics route: [total, successful]

vars == <<calls, job, next, candidates, pool, metrics>>

\* A text of the user outside 4..25 words is worth 225, one inside 500, and 100 more with a
\* question mark; one of the agent 200 or 400, and 50 more if it acknowledges.
Said == [who : {"user"}, worth : {225, 600}] \cup [who : {"agent"}, worth : {200, 450}]
Talks(n) == UNION {[1 .. m -> Said] : m \in 0 .. n}
\* Calls of the campaign that were won or not, and won calls of another one.
Kinds == {<<TRUE, TRUE>>, <<TRUE, FALSE>>, <<FALSE, TRUE>>}
Call(k, talk) == [mine |-> k[1], won |-> k[2], events |-> talk]
\* The oldest call, for which there may be no room.
OldCall == Call(<<TRUE, TRUE>>,
                <<[who |-> "user", worth |-> 600], [who |-> "agent", worth |-> 200]>>)

\* A call that the job may have to read in full is the only one with `Long` events.
Init == /\ \E k1, k2 \in Kinds, t1 \in Talks(Long), t2 \in Talks(Short) :
             /\ k1 # <<TRUE, TRUE>> => Len(t1) <= Short
             /\ calls = <<Call(k1, t1), Call(k2, t2), OldCall>>
        /\ job = "off" /\ next = 1 /\ candidates = <<>> /\ pool = <<>>
        /\ metrics = [total |-> 0, successful |-> 0]

\* _score_pair.
Score(user, agent) == LET sum == user.worth + agent.worth
                      IN IF sum > 1000 THEN 1000 ELSE sum

\* Where a call's exchanges begin: user_speech immediately followed by agent_speech, with a
\* score of at least a half.
Good(c) ==
  LET ev == calls[c].events
  IN {i \in 1 .. Len(ev) - 1 : /\ ev[i].who = "user" /\ ev[i + 1].who = "agent"
                               /\ Score(ev[i], ev[i + 1]) >= 500}

Scored(c, i) ==
  [call |-> c, at |-> i, score |-> Score(calls[c].events[i], calls[c].events[i + 1])]

\* The rows the job selects: the newest of the campaign's successful calls.
Won  == {c \in DOMAIN calls : calls[c].mine /\ calls[c].won}
Rows == {c \in Won : Cardinality({d \in Won : d < c}) < MaxCalls}

\* The one sequence of a set's numbers that ascends.
Ascending(S) == {s \in Bijection(1 .. Cardinality(S), S) :
                   \A m, n \in DOMAIN s : m < n => s[m] < s[n]}

Start == /\ job = "off"
         /\ job' = "reading"
         /\ UNCHANGED <<calls, next, candidates, pool, metrics>>

\* One turn of the loop over the rows.
Read == /\ job = "reading" /\ next \in DOMAIN calls
        /\ IF next \in Rows
           THEN \E s \in Ascending(Good(next)) :
                  candidates' = candidates \o [n \in DOMAIN s |-> Scored(next, s[n])]
           ELSE UNCHANGED candidates
        /\ next' = next + 1
        /\ UNCHANGED <<calls, job, pool, metrics>>

\* What a stable sort by a key, in reverse, makes of the candidates: equals stay in order.
Arranged(s, key) ==
  {[n \in DOMAIN s |-> s[p[n]]] :
     p \in {p \in Bijection(DOMAIN s, DOMAIN s) :
              \A m, n \in DOMAIN s :
                m < n => \/ key[p[m]] > key[p[n]]
                         \/ key[p[m]] = key[p[n]] /\ p[m] < p[n]}}

\* Mutant of Sorted: the best come last.
WorstFirst(s) == Arranged(s, [k \in DOMAIN s |-> -s[k].score])
Sorted(s) == Arranged(s, [k \in DOMAIN s |-> s[k].score])

First(s, n) == IF Len(s) <= n THEN s ELSE SubSeq(s, 1, n)

\* Sort, cut, and replace the pool in the job's commit.
Keep == /\ job = "reading" /\ next \notin DOMAIN calls
        /\ \E s \in Sorted(candidates) : pool' = First(s, KeepTopK)
        /\ job' = "done"
        /\ UNCHANGED <<calls, next, candidates, metrics>>

\* metrics().  The dispositions are counted over Call joined with nothing: `base` is in the
\* query as a subquery only, so every call of the table is counted once per row of it.
Metrics == /\ metrics' = LET total == Cardinality({c \in DOMAIN calls : calls[c].mine})
                             won   == Cardinality({c \in DOMAIN calls : calls[c].won})
                         IN [total |-> total, successful |-> total * won]
           /\ metrics' # metrics
           /\ UNCHANGED <<calls, job, next, candidates, pool>>

Done == job = "done" /\ UNCHANGED vars

Next == Start \/ Read \/ Keep \/ Metrics \/ Done

Spec == Init /\ [][Next]_vars

----------------------------------------------------------------------------
\* What an exchange of a call is worth, nothing if it is none.
Worth(c, i) == LET ev == calls[c].events
               IN IF i < Len(ev) /\ ev[i].who = "user" /\ ev[i + 1].who = "agent"
                  THEN Score(ev[i], ev[i + 1]) ELSE 0

InPool(c, i) == \E k \in DOMAIN pool : pool[k].call = c /\ pool[k].at = i

\* The pool is the campaign's best: its exchanges are of its own successful calls, good, and
\* in order, none is there twice, and a good one of the newest calls is left out only from a
\* full pool of which none is worth less.
PoolIsBest ==
  job = "done" =>
    /\ \A k \in DOMAIN pool : /\ pool[k].call \in Won
                              /\ pool[k].score = Worth(pool[k].call, pool[k].at)
                              /\ pool[k].score >= 500
    /\ \A k, m \in DOMAIN pool :
         k < m => /\ pool[k].score >= pool[m].score
                  /\ pool[k].call # pool[m].call \/ pool[k].at # pool[m].at
    /\ Len(pool) <= KeepTopK
    /\ \A c \in Rows : \A i \in DOMAIN calls[c].events :
         Worth(c, i) >= 500 =>
           \/ InPool(c, i)
           \/ Len(pool) = KeepTopK /\ \A k \in DOMAIN pool : pool[k].score >= Worth(c, i)
=============================================================================
