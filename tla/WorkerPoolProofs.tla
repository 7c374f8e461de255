-------------------------- MODULE WorkerPoolProofs --------------------------
(***************************************************************************)
(* Theorems about WorkerPool, for any processes, calls and concurrency.    *)
(***************************************************************************)
EXTENDS WorkerPool, FiniteSetTheorems, TLAPS

USE PoolAssumption
----------------------------------------------------------------------------
(***************************************************************************)
(* The inductive invariant.  An entry of a queue is in one place: waiting, *)
(* in hand, with one task, or gone (Once).  A call that has not outlived   *)
(* its key has one task at most, which holds the key; any key is held, or  *)
(* left to its TTL (Keys).  A permit is in the semaphore, with a task, or  *)
(* with the job in hand; a supervisor that raised keeps its own, and the   *)
(* cancels at the end may lose some (Paid).                                *)
(***************************************************************************)
Typed ==
  /\ at \in [Workers -> Live \cup {"failed", "down"}]
  /\ job \in [Workers -> Jobs \cup {None}]
  /\ permits \in [Workers -> Nat]
  /\ task \in [Workers -> [Jobs -> TaskStates]]
  /\ term \in [Workers -> BOOLEAN]
  /\ offered \in [Calls -> SUBSET Queues]
  /\ list \subseteq Calls /\ stream \subseteq Calls
  /\ group \in BOOLEAN
  /\ reserved \subseteq Calls /\ orphan \subseteq Calls /\ outlived \subseteq Calls

InHand == \A w \in Workers : at[w] \in {"ack", "reserve"} => job[w] \in Jobs

\* No process has the entry.
Untaken(j) == \A w \in Workers : job[w] # j /\ task[w][j] = "none"

Once ==
  /\ \A c \in Calls : c \in list => Untaken(<<c, "list">>)
  /\ \A c \in Calls : c \in stream => Untaken(<<c, "stream">>)
  /\ \A c \in Calls : "list" \notin offered[c] => c \notin list /\ Untaken(<<c, "list">>)
  /\ \A c \in Calls : "stream" \notin offered[c] => c \notin stream /\ Untaken(<<c, "stream">>)
  /\ \A v, w \in Workers : job[w] \in Jobs =>
       /\ task[v][job[w]] = "none"
       /\ v # w => job[v] # job[w]

HolderHasKey ==
  \A w \in Workers : \A j \in Tasks(w) :
    j[1] \notin outlived => j[1] \in reserved /\ j[1] \notin orphan

Keys ==
  /\ HolderHasKey
  /\ orphan \subseteq reserved
  /\ OneHandler
  /\ ReservedIsHeld

Held(w) == IF at[w] \in Pulling \cup {"failed"} THEN 1 ELSE 0

Paid(w) ==
  /\ IsFiniteSet(Tasks(w))
  /\ permits[w] + Cardinality(Tasks(w)) + Held(w) <= Concurrency
  /\ at[w] \notin {"drain", "failed"} =>
       permits[w] + Cardinality(Tasks(w)) + Held(w) = Concurrency

Balance == \A w \in Workers : Paid(w)

Inv == Typed /\ InHand /\ Once /\ Keys /\ Balance
----------------------------------------------------------------------------
\* The invariant implies what the runs check.
LEMMA InvImplies == Inv => TypeOK /\ OneHandler /\ ReservedIsHeld /\ PermitsBalance
<1> SUFFICES ASSUME Inv PROVE TypeOK /\ OneHandler /\ ReservedIsHeld /\ PermitsBalance
  OBVIOUS
<1>1. ASSUME NEW w \in Workers
      PROVE  /\ permits[w] \in 0..Concurrency
             /\ at[w] \in {"acquire"} \cup Pulling =>
                  permits[w] + Cardinality(Tasks(w))
                    + (IF at[w] \in Pulling THEN 1 ELSE 0) = Concurrency
             /\ permits[w] + Cardinality(Tasks(w)) <= Concurrency
  <2>1. Cardinality(Tasks(w)) \in Nat
    BY FS_CardinalityType DEF Inv, Balance, Paid
  <2>2. permits[w] \in Nat /\ Held(w) \in 0..1
    BY DEF Inv, Typed, Held
  <2>3. permits[w] + Cardinality(Tasks(w)) + Held(w) <= Concurrency
    BY DEF Inv, Balance, Paid
  <2>4. at[w] \in {"acquire"} \cup Pulling =>
          /\ Held(w) = IF at[w] \in Pulling THEN 1 ELSE 0
          /\ permits[w] + Cardinality(Tasks(w)) + Held(w) = Concurrency
    BY DEF Held, Pulling, Inv, Balance, Paid
  <2>5. QED BY <2>1, <2>2, <2>3, <2>4
<1>2. TypeOK
  BY <1>1 DEF Inv, Typed, TypeOK
<1>3. PermitsBalance
  BY <1>1 DEF PermitsBalance
<1>4. QED BY <1>2, <1>3 DEF Inv, Keys

\* The invariant holds initially.
LEMMA InvInit == Init => Inv
<1> SUFFICES ASSUME Init PROVE Inv
  OBVIOUS
<1>1. Typed
  BY DEF Init, Typed, Idle, Live, Queues, TaskStates
<1>2. InHand
  BY DEF Init, InHand
<1>3. Once
  BY DEF Init, Once, Untaken, Idle, Jobs, Queues
<1>4. Keys
  BY DEF Init, Keys, HolderHasKey, OneHandler, ReservedIsHeld, Tasks, Idle
<1>5. ASSUME NEW w \in Workers PROVE Paid(w)
  <2>1. Tasks(w) = {}
    BY DEF Init, Tasks, Idle
  <2>2. Held(w) = 0 /\ permits[w] = Concurrency
    BY DEF Init, Held, Pulling
  <2>3. QED BY <2>1, <2>2, FS_EmptySet DEF Paid
<1>6. QED BY <1>1, <1>2, <1>3, <1>4, <1>5 DEF Inv, Balance
----------------------------------------------------------------------------
(***************************************************************************)
(* What a change of one task does to the tasks of its process.             *)
(***************************************************************************)
\* A task begins, with the permit of the job that was in hand.
LEMMA TaskBegins ==
  ASSUME Inv, NEW w \in Workers, NEW j \in Jobs, task[w][j] = "none",
         task' = [task EXCEPT ![w][j] = "session"]
  PROVE  /\ IsFiniteSet(Tasks(w)') /\ Tasks(w)' = Tasks(w) \cup {j}
         /\ Cardinality(Tasks(w)') = Cardinality(Tasks(w)) + 1
         /\ \A v \in Workers \ {w} : Tasks(v)' = Tasks(v)
<1>1. Tasks(w)' = Tasks(w) \cup {j} /\ j \notin Tasks(w)
  BY DEF Inv, Typed, Tasks
<1>2. \A v \in Workers \ {w} : Tasks(v)' = Tasks(v)
  BY DEF Inv, Typed, Tasks
<1>3. IsFiniteSet(Tasks(w))
  BY DEF Inv, Balance, Paid
<1>4. QED BY <1>1, <1>2, <1>3, FS_AddElement

\* A task ends.
LEMMA TaskEnds ==
  ASSUME Inv, NEW w \in Workers, NEW j \in Jobs, task[w][j] # "none",
         task' = [task EXCEPT ![w][j] = "none"]
  PROVE  /\ IsFiniteSet(Tasks(w)') /\ Tasks(w)' = Tasks(w) \ {j}
         /\ Cardinality(Tasks(w)') = Cardinality(Tasks(w)) - 1
         /\ \A v \in Workers \ {w} : Tasks(v)' = Tasks(v)
<1>1. Tasks(w)' = Tasks(w) \ {j} /\ j \in Tasks(w)
  BY DEF Inv, Typed, Tasks
<1>2. \A v \in Workers \ {w} : Tasks(v)' = Tasks(v)
  BY DEF Inv, Typed, Tasks
<1>3. IsFiniteSet(Tasks(w))
  BY DEF Inv, Balance, Paid
<1>4. QED BY <1>1, <1>2, <1>3, FS_RemoveElement

\* The sizes are numbers.
LEMMA Sizes ==
  ASSUME Inv
  PROVE  \A w \in Workers : Cardinality(Tasks(w)) \in Nat /\ permits[w] \in Nat
BY FS_CardinalityType DEF Inv, Balance, Paid, Typed

\* A supervisor passes its permit on, or keeps it when it raises.
LEMMA SamePayment ==
  ASSUME Inv, NEW w \in Workers, UNCHANGED task,
         at[w] \notin {"drain", "failed"},
         permits[w]' + Held(w)' = permits[w] + Held(w),
         permits[w]' \in Nat,
         \A v \in Workers \ {w} : at[v]' = at[v] /\ permits[v]' = permits[v]
  PROVE  Balance'
<1>1. \A v \in Workers : Tasks(v)' = Tasks(v)
  BY DEF Tasks
<1>2. Paid(w)'
  <2>1. Held(w) \in 0..1 /\ Held(w)' \in 0..1
    BY DEF Held
  <2>2. permits[w] + Cardinality(Tasks(w)) + Held(w) = Concurrency
    BY DEF Inv, Balance, Paid
  <2>3. IsFiniteSet(Tasks(w)')
    BY <1>1 DEF Inv, Balance, Paid
  <2>4. Cardinality(Tasks(w)') = Cardinality(Tasks(w))
    BY <1>1
  <2>5. QED BY <2>1, <2>2, <2>3, <2>4, Sizes DEF Paid
<1>3. ASSUME NEW v \in Workers \ {w} PROVE Paid(v)'
  BY <1>1 DEF Inv, Balance, Paid, Held
<1>4. QED BY <1>2, <1>3 DEF Balance
----------------------------------------------------------------------------
\* A step that leaves the tasks and the keys alone.
LEMMA SameKeys == ASSUME Inv, UNCHANGED <<task, keyVars>> PROVE Keys'
<1>1. \A w \in Workers : Tasks(w)' = Tasks(w) /\ Handled(w)' = Handled(w)
  BY DEF Tasks, Handled
<1>2. QED BY <1>1 DEF Inv, Keys, keyVars, HolderHasKey, OneHandler, ReservedIsHeld

\* A step that leaves the entries of the queues where they are, or drops one.
LEMMA SameOnce ==
  ASSUME Inv, UNCHANGED <<offered, list, stream>>,
         \A w \in Workers : job[w]' \in {job[w], None},
         \A w \in Workers, j \in Jobs : task[w][j] = "none" => task[w][j]' = "none"
  PROVE  Once'
<1>1. \A c \in Calls : <<c, "list">> \in Jobs /\ <<c, "stream">> \in Jobs
  BY DEF Jobs, Queues
<1>2. \A j \in Jobs : Untaken(j) => Untaken(j)'
  BY DEF Untaken, Jobs, Queues
<1>3. None \notin Jobs
  BY DEF Jobs, Queues
<1>4. ASSUME NEW v \in Workers, NEW u \in Workers, job[u]' \in Jobs
      PROVE  task[v][job[u]]' = "none" /\ (v # u => job[v]' # job[u]')
  <2>1. job[u]' = job[u] /\ job[u] \in Jobs
    BY <1>3, <1>4
  <2>2. task[v][job[u]] = "none" /\ (v # u => job[v] # job[u])
    BY <2>1 DEF Inv, Once
  <2>3. job[v]' = job[v] \/ job[v]' = None
    OBVIOUS
  <2>4. QED BY <1>3, <2>1, <2>2, <2>3
<1>5. QED BY <1>1, <1>2, <1>4 DEF Inv, Once

\* A step that leaves every process alone but for its signal.
LEMMA SameBalance ==
  ASSUME Inv, UNCHANGED <<at, permits, task>>
  PROVE  Balance'
<1>1. ASSUME NEW w \in Workers PROVE Tasks(w)' = Tasks(w) /\ Held(w)' = Held(w)
  BY DEF Tasks, Held
<1>2. QED BY <1>1 DEF Inv, Balance, Paid

\* A process that is down has all its permits and no task.
LEMMA ExitBalance ==
  ASSUME Inv, NEW w \in Workers, Exit(w)
  PROVE  Balance'
<1>1. Tasks(w)' = {} /\ permits[w]' = Concurrency /\ Held(w)' = 0
  BY DEF Inv, Typed, Exit, Goto, Tasks, Idle, Held, Pulling
<1>2. Paid(w)'
  BY <1>1, FS_EmptySet DEF Paid
<1>3. ASSUME NEW v \in Workers \ {w} PROVE Paid(v)'
  <2>1. Tasks(v)' = Tasks(v) /\ permits[v]' = permits[v] /\ Held(v)' = Held(v) /\ at[v]' = at[v]
    BY DEF Inv, Typed, Exit, Goto, Tasks, Held
  <2>2. QED BY <2>1 DEF Inv, Balance, Paid
<1>4. QED BY <1>2, <1>3 DEF Balance
----------------------------------------------------------------------------
(***************************************************************************)
(* The invariant is inductive: the steps of the loop, of the tasks, and    *)
(* the others.                                                             *)
(***************************************************************************)
\* The steps that take an entry from its queue.
LEMMA InvPull ==
  ASSUME Inv, NEW w \in Workers, PopList(w) \/ ReadStream(w)
  PROVE  Inv'
<1> USE DEF Goto, keyVars
<1>1. Typed' /\ InHand'
  <2>1. \A c \in Calls : <<c, "list">> \in Jobs /\ <<c, "stream">> \in Jobs
    BY DEF Jobs, Queues
  <2>2. CASE PopList(w)
    <3>1. CASE UNCHANGED <<job, list>>
      BY <2>2, <3>1 DEF Inv, Typed, InHand, PopList, Live, Pulling
    <3>2. ASSUME NEW c \in list, list' = list \ {c}, job' = [job EXCEPT ![w] = <<c, "list">>]
          PROVE  Typed' /\ InHand'
      <4>1. <<c, "list">> \in Jobs
        BY <2>1 DEF Inv, Typed
      <4>2. at' = [at EXCEPT ![w] = at'[w]] /\ at'[w] \in {"reserve", "read"}
        BY <2>2 DEF PopList, Inv, Typed
      <4> DEFINE x == <<c, "list">>
      <4> HIDE DEF x
      <4>3. job' = [job EXCEPT ![w] = x] /\ x \in Jobs
        BY <3>2, <4>1 DEF x
      <4>4. job' \in [Workers -> Jobs \cup {None}] /\ at' \in [Workers -> Live \cup {"failed", "down"}]
        BY <4>2, <4>3 DEF Inv, Typed, Live, Pulling
      <4>5. Typed'
        BY <2>2, <3>2, <4>4 DEF Inv, Typed, PopList
      <4>6. \A v \in Workers : v # w => at'[v] = at[v] /\ job'[v] = job[v]
        BY <4>2, <4>3 DEF Inv, Typed
      <4>7. InHand'
        BY <4>3, <4>6 DEF Inv, Typed, InHand
      <4>8. QED BY <4>5, <4>7
    <3>3. QED BY <2>2, <3>1, <3>2 DEF PopList
  <2>3. CASE ReadStream(w)
    <3>1. PICK c \in stream :
            stream' = stream \ {c} /\ job' = [job EXCEPT ![w] = <<c, "stream">>]
      BY <2>3 DEF ReadStream
    <3> DEFINE x == <<c, "stream">>
    <3>2. x \in Jobs
      BY <2>1 DEF Inv, Typed
    <3>3. job' = [job EXCEPT ![w] = x]
      BY <3>1
    <3> HIDE DEF x
    <3>4. at' = [at EXCEPT ![w] = "ack"]
      BY <2>3 DEF ReadStream
    <3>5. job' \in [Workers -> Jobs \cup {None}] /\ at' \in [Workers -> Live \cup {"failed", "down"}]
      BY <3>2, <3>3, <3>4 DEF Inv, Typed, Live, Pulling
    <3>6. Typed'
      BY <2>3, <3>1, <3>5 DEF Inv, Typed, ReadStream
    <3>7. \A v \in Workers : v # w => at'[v] = at[v] /\ job'[v] = job[v]
      BY <3>3, <3>4 DEF Inv, Typed
    <3>8. InHand'
      BY <3>2, <3>3, <3>7 DEF Inv, Typed, InHand
    <3>9. QED BY <3>6, <3>8
  <2>4. QED BY <2>2, <2>3
<1>2. Keys'
  BY SameKeys DEF PopList, ReadStream
<1>3. Balance'
  BY SamePayment DEF Inv, Typed, Held, Pulling, PopList, ReadStream
<1>4. Once'
  <2>1. CASE UNCHANGED <<job, list>> /\ PopList(w)
    BY <2>1, SameOnce DEF PopList
  <2>2. ASSUME NEW c \in Calls, NEW q \in Queues, Untaken(<<c, q>>),
               job' = [job EXCEPT ![w] = <<c, q>>], UNCHANGED <<task, offered>>,
               q \in offered[c],
               q = "list"   => list' = list \ {c} /\ UNCHANGED stream,
               q = "stream" => stream' = stream \ {c} /\ UNCHANGED list
        PROVE  Once'
    <3>1. <<c, q>> \in Jobs
      BY DEF Jobs
    <3>2. \A j \in Jobs \ {<<c, q>>} : Untaken(j) => Untaken(j)'
      BY <2>2 DEF Untaken, Inv, Typed
    <3>3. \A d \in Calls, r \in Queues : <<d, r>> = <<c, q>> <=> d = c /\ r = q
      OBVIOUS
    <3>4. \A d \in Calls : <<d, "list">> \in Jobs /\ <<d, "stream">> \in Jobs
      BY DEF Jobs, Queues
    <3>5. /\ \A d \in Calls : d \in list' => d \in list /\ (q = "list" => d # c)
          /\ \A d \in Calls : d \in stream' => d \in stream /\ (q = "stream" => d # c)
      BY <2>2 DEF Queues
    <3>6. \A d \in Calls : d \in list' => Untaken(<<d, "list">>)'
      BY <3>2, <3>3, <3>4, <3>5, <2>2 DEF Inv, Once, Queues
    <3>7. \A d \in Calls : d \in stream' => Untaken(<<d, "stream">>)'
      BY <3>2, <3>3, <3>4, <3>5, <2>2 DEF Inv, Once, Queues
    <3>8. \A d \in Calls :
            "list" \notin offered'[d] => d \notin list' /\ Untaken(<<d, "list">>)'
      BY <3>2, <3>3, <3>4, <3>5, <2>2 DEF Inv, Once, Queues
    <3>9. \A d \in Calls :
            "stream" \notin offered'[d] => d \notin stream' /\ Untaken(<<d, "stream">>)'
      BY <3>2, <3>3, <3>4, <3>5, <2>2 DEF Inv, Once, Queues
    <3>10. ASSUME NEW u \in Workers, NEW v \in Workers, job'[v] \in Jobs
           PROVE  task'[u][job'[v]] = "none" /\ (u # v => job'[u] # job'[v])
      <4>1. \A x \in Workers \ {w} : job'[x] = job[x]
        BY <2>2 DEF Inv, Typed
      <4>2. job'[w] = <<c, q>>
        BY <2>2 DEF Inv, Typed
      <4>3. CASE v = w
        BY <2>2, <4>1, <4>2, <4>3 DEF Untaken
      <4>4. CASE v # w
        <5>1. job[v] \in Jobs /\ job[v] # <<c, q>>
          BY <3>10, <4>1, <4>4, <2>2 DEF Untaken
        <5>2. task[u][job[v]] = "none" /\ (u # v => job[u] # job[v])
          BY <5>1 DEF Inv, Once
        <5>3. QED BY <2>2, <4>1, <4>2, <4>4, <5>1, <5>2
      <4>5. QED BY <4>3, <4>4
    <3> QED
      BY <3>6, <3>7, <3>8, <3>9, <3>10 DEF Once
  <2>3. CASE PopList(w) /\ ~UNCHANGED <<job, list>>
    <3>1. PICK c \in list : list' = list \ {c} /\ job' = [job EXCEPT ![w] = <<c, "list">>]
      BY <2>3 DEF PopList
    <3>2. c \in Calls /\ Untaken(<<c, "list">>) /\ "list" \in offered[c]
      BY <3>1 DEF Inv, Typed, Once
    <3> QED
      BY <2>2, <2>3, <3>1, <3>2 DEF PopList, Queues
  <2>4. CASE ReadStream(w)
    <3>1. PICK c \in stream :
            stream' = stream \ {c} /\ job' = [job EXCEPT ![w] = <<c, "stream">>]
      BY <2>4 DEF ReadStream
    <3>2. c \in Calls /\ Untaken(<<c, "stream">>) /\ "stream" \in offered[c]
      BY <3>1 DEF Inv, Typed, Once
    <3> QED
      BY <2>2, <2>4, <3>1, <3>2 DEF ReadStream, Queues
  <2> QED
    BY <2>1, <2>3, <2>4
<1> QED BY <1>1, <1>2, <1>3, <1>4 DEF Inv

\* The other steps of the loop, but for the one that makes a task.
LEMMA InvLoop ==
  ASSUME Inv, NEW w \in Workers,
         \/ Start(w) \/ Acquire(w) \/ Invalid(w) \/ ReadNothing(w) \/ Ack(w) \/ Taken(w)
         \/ ReserveFails(w)
  PROVE  Inv'
<1>1. UNCHANGED <<offered, list, stream, task>> /\ \A v \in Workers : job[v]' \in {job[v], None}
  BY DEF Start, Acquire, Invalid, ReadNothing, Ack, Taken, ReserveFails, queueVars, Inv, Typed
<1>2. Once'
  BY <1>1, SameOnce
<1> USE DEF Typed, Goto, queueVars, keyVars, Live, Pulling
<1>3. CASE Start(w)
  <2> USE <1>3 DEF Start, Inv
  <2>1. Typed' OBVIOUS
  <2>2. InHand' BY DEF InHand
  <2>3. Keys' BY SameKeys
  <2>4. Balance' BY SamePayment DEF Held
  <2>5. QED BY <1>2, <2>1, <2>2, <2>3, <2>4
<1>4. CASE Acquire(w)
  <2> USE <1>4 DEF Acquire, Inv
  <2>1. Typed' OBVIOUS
  <2>2. InHand' BY DEF InHand
  <2>3. Keys' BY SameKeys
  <2>4. Balance'
    <3>1. permits[w] \in Nat /\ permits[w] > 0 /\ permits[w]' = permits[w] - 1
      OBVIOUS
    <3>2. Held(w) = 0 /\ Held(w)' = 1
      BY DEF Held
    <3>3. permits[w]' + Held(w)' = permits[w] + Held(w) /\ permits[w]' \in Nat
      BY <3>1, <3>2
    <3>4. \A v \in Workers \ {w} : at[v]' = at[v] /\ permits[v]' = permits[v]
      OBVIOUS
    <3>5. QED BY <3>3, <3>4, SamePayment
  <2>5. QED BY <1>2, <2>1, <2>2, <2>3, <2>4
<1>5. CASE ReadNothing(w) \/ Invalid(w)
  <2>1. /\ at[w] \in {"pull", "read"} /\ at' = [at EXCEPT ![w] = at'[w]]
        /\ \/ at'[w] \in {"drain", "acquire"} /\ permits' = [permits EXCEPT ![w] = @ + 1]
           \/ at'[w] = "failed" /\ UNCHANGED permits
        /\ UNCHANGED <<job, task, term, queueVars, keyVars>>
    BY <1>5 DEF ReadNothing, Invalid, GiveBack, Loop, Inv
  <2>2. Typed' BY <2>1 DEF Inv
  <2>3. InHand' BY <2>1 DEF Inv, InHand
  <2>4. Keys' BY <2>1, SameKeys
  <2>5. Balance' BY <2>1, SamePayment DEF Held, Inv
  <2>6. QED BY <1>2, <2>2, <2>3, <2>4, <2>5 DEF Inv
<1>6. CASE Ack(w)
  <2> USE <1>6 DEF Ack, Inv
  <2>1. Typed' OBVIOUS
  <2>2. InHand' BY DEF InHand
  <2>3. Keys' BY SameKeys
  <2>4. Balance' BY SamePayment DEF Held
  <2>5. QED BY <1>2, <2>1, <2>2, <2>3, <2>4
<1>7. CASE Taken(w)
  <2> USE <1>7 DEF Taken, GiveBack, Loop, Inv
  <2>1. Typed' OBVIOUS
  <2>2. InHand' BY DEF InHand
  <2>3. Keys' BY SameKeys
  <2>4. Balance' BY SamePayment DEF Held
  <2>5. QED BY <1>2, <2>1, <2>2, <2>3, <2>4
<1>8. CASE ReserveFails(w)
  <2> USE <1>8 DEF ReserveFails, Inv
  <2>1. job[w][1] \in Calls BY DEF InHand, Jobs
  <2>2. Typed' BY <2>1
  <2>3. InHand' BY DEF InHand
  \* The key that may have been set is orphaned from the start.
  <2>4. \A v \in Workers : Tasks(v)' = Tasks(v) /\ Handled(v)' = Handled(v)
    BY DEF Tasks, Handled
  <2>5. Keys' BY <2>1, <2>4 DEF Keys, HolderHasKey, OneHandler, ReservedIsHeld
  <2>6. Balance' BY SamePayment DEF Held
  <2>7. QED BY <1>2, <2>2, <2>3, <2>5, <2>6
<1>9. QED BY <1>3, <1>4, <1>5, <1>6, <1>7, <1>8

\* A call's task goes on: its permit and its key stay with it.
LEMMA InvTask ==
  ASSUME Inv, NEW w \in Workers, NEW j \in Jobs, NEW s \in TaskStates \ {"none"},
         task[w][j] # "none", task' = [task EXCEPT ![w][j] = s],
         UNCHANGED <<at, job, permits, term, queueVars, keyVars>>
  PROVE  Inv'
<1> USE DEF queueVars, keyVars
<1>2. Typed'
  BY DEF Inv, Typed
<1>3. InHand'
  BY DEF Inv, InHand
<1>4. \A v \in Workers, i \in Jobs : task[v][i]' # "none" <=> task[v][i] # "none"
  BY DEF Inv, Typed
<1>5. \A v \in Workers : Tasks(v)' = Tasks(v) /\ Handled(v)' = Handled(v) /\ Held(v)' = Held(v)
  BY <1>4 DEF Tasks, Handled, Held
<1>6. Keys'
  BY <1>5 DEF Inv, Keys, HolderHasKey, OneHandler, ReservedIsHeld
<1>7. Balance'
  BY <1>5 DEF Inv, Balance, Paid
<1>8. Once'
  BY <1>4, SameOnce
<1>9. QED BY <1>2, <1>3, <1>6, <1>7, <1>8 DEF Inv

\* The permit of the job in hand is now the task's.
LEMMA InvReserve ==
  ASSUME Inv, NEW w \in Workers, Reserve(w)
  PROVE  Inv'
<1> DEFINE j == job[w]
           c == j[1]
<1>1. j \in Jobs /\ c \in Calls /\ c \notin reserved /\ c \notin orphan
  BY DEF Inv, Typed, InHand, Keys, Reserve, Jobs
<1>2. \A v \in Workers : task[v][j] = "none"
  BY <1>1 DEF Inv, Once
<1>3. c \notin outlived => \A v \in Workers : \A i \in Tasks(v) : i[1] # c
  BY <1>1 DEF Inv, Keys, HolderHasKey
<1> USE DEF Reserve, Loop, Goto, queueVars
<1>4. Typed'
  BY <1>1 DEF Inv, Typed, Live, TaskStates
<1>5. InHand'
  BY DEF Inv, Typed, InHand
<1>6. /\ Tasks(w)' = Tasks(w) \cup {j}
      /\ \A v \in Workers \ {w} : Tasks(v)' = Tasks(v)
  BY <1>1, <1>2, TaskBegins
<1>7. Keys'
  <2>1. HolderHasKey' /\ (orphan \subseteq reserved)'
    BY <1>1, <1>6 DEF Inv, Keys, HolderHasKey
  <2>2. OneHandler'
    BY <1>3, <1>6 DEF Inv, Keys, OneHandler
  <2>3. c \in Handled(w)' /\ \A v \in Workers : Handled(v) \subseteq Handled(v)'
    BY <1>6 DEF Handled
  <2>4. ReservedIsHeld'
    BY <2>3 DEF Inv, Keys, ReservedIsHeld
  <2>5. QED BY <2>1, <2>2, <2>4 DEF Keys
<1>8. Once'
  <2>1. job' = [job EXCEPT ![w] = None] /\ None \notin Jobs
    BY DEF Jobs, Queues
  <2>2. \A i \in Jobs : Untaken(i) => i # j
    BY <1>1 DEF Untaken
  <2>3. \A i \in Jobs : Untaken(i) => Untaken(i)'
    BY <1>1, <2>1, <2>2 DEF Untaken, Inv, Typed
  <2>4. \A d \in Calls : <<d, "list">> \in Jobs /\ <<d, "stream">> \in Jobs
    BY DEF Jobs, Queues
  <2>5. ASSUME NEW u \in Workers, NEW v \in Workers, job'[v] \in Jobs
        PROVE  task'[u][job'[v]] = "none" /\ (u # v => job'[u] # job'[v])
    <3>1. v # w /\ job'[v] = job[v] /\ job[v] # j
      BY <1>1, <2>1, <2>5 DEF Inv, Typed, Once
    <3>2. task[u][job[v]] = "none" /\ (u # v => job[u] # job[v])
      BY <2>5, <3>1 DEF Inv, Once
    <3>3. task'[u][job[v]] = task[u][job[v]]
      BY <1>1, <2>5, <3>1 DEF Inv, Typed
    <3>4. job'[u] \in {job[u], None}
      BY <2>1 DEF Inv, Typed
    <3> QED
      BY <2>1, <2>5, <3>1, <3>2, <3>3, <3>4
  <2>6. QED BY <2>3, <2>4, <2>5 DEF Inv, Once
<1>9. Paid(w)'
  <2>1. IsFiniteSet(Tasks(w)') /\ Cardinality(Tasks(w)') = Cardinality(Tasks(w)) + 1
    BY <1>1, <1>2, TaskBegins
  <2>2. permits[w]' = permits[w] /\ Held(w) = 1 /\ Held(w)' = 0
    BY DEF Inv, Typed, Held, Pulling
  <2>3. permits[w] + Cardinality(Tasks(w)) + Held(w) = Concurrency
    BY DEF Inv, Balance, Paid
  <2>4. QED BY <2>1, <2>2, <2>3, Sizes DEF Paid
<1>10. ASSUME NEW v \in Workers \ {w} PROVE Paid(v)'
  <2>1. permits[v]' = permits[v] /\ Held(v)' = Held(v) /\ at[v]' = at[v]
    BY DEF Inv, Typed, Held
  <2>2. QED BY <1>6, <2>1 DEF Inv, Balance, Paid
<1>11. QED BY <1>4, <1>5, <1>7, <1>8, <1>9, <1>10 DEF Inv, Balance

\* What is left of the keys when a task ends: its key is deleted, is left to its TTL, or is
\* not there.
KeyLeft(c) ==
  /\ \/ reserved' = reserved \ {c} /\ orphan' = orphan \ {c}
     \/ orphan' = orphan \cup ({c} \cap reserved) /\ UNCHANGED reserved
  /\ UNCHANGED outlived

\* A task ends; its permit is back in the semaphore, or lost when it was cancelled.
LEMMA InvTaskEnds ==
  ASSUME Inv, NEW w \in Workers, NEW j \in Jobs, task[w][j] # "none",
         SetTask(w, j, "none"), KeyLeft(j[1]),
         \/ GiveBack(w)
         \/ at[w] \in {"drain", "failed"} /\ UNCHANGED permits,
         UNCHANGED <<at, job, term, queueVars>>
  PROVE  Inv'
<1> DEFINE c == j[1]
<1> USE DEF SetTask, GiveBack, queueVars
<1>1. j \in Tasks(w) /\ c \in Calls
  BY DEF Tasks, Jobs
<1>2. /\ Tasks(w)' = Tasks(w) \ {j}
      /\ \A v \in Workers \ {w} : Tasks(v)' = Tasks(v)
  BY TaskEnds
<1>3. Typed'
  BY <1>1 DEF Inv, Typed, TaskStates, KeyLeft
<1>4. InHand'
  BY DEF Inv, InHand
<1>5. Once'
  BY SameOnce DEF Inv, Typed
<1>6. Keys'
  <2>1. c \notin outlived => \A v \in Workers : \A i \in Tasks(v)' : i[1] # c
    BY <1>1, <1>2 DEF Inv, Keys, OneHandler
  <2>2. \A v \in Workers : Tasks(v)' \subseteq Tasks(v)
    BY <1>2
  <2>3. HolderHasKey'
    BY <2>1, <2>2 DEF Inv, Keys, HolderHasKey, KeyLeft
  <2>4. OneHandler' /\ (orphan \subseteq reserved)'
    BY <2>2 DEF Inv, Keys, OneHandler, KeyLeft
  <2>5. \A v \in Workers, d \in Calls \ {c} : d \in Handled(v) => d \in Handled(v)'
    BY <1>2 DEF Handled
  <2>6. \A d \in reserved' : d = c => d \in orphan'
    BY DEF KeyLeft
  <2>7. \A d \in reserved' : d \in reserved /\ (d # c => (d \in orphan => d \in orphan'))
    BY DEF KeyLeft
  <2>8. ReservedIsHeld'
    BY <1>3, <2>5, <2>6, <2>7 DEF Inv, Typed, Keys, ReservedIsHeld
  <2>9. QED BY <2>3, <2>4, <2>8 DEF Keys
<1>7. Paid(w)'
  <2>1. IsFiniteSet(Tasks(w)') /\ Cardinality(Tasks(w)') = Cardinality(Tasks(w)) - 1
    BY TaskEnds
  <2>2. /\ \/ permits[w]' = permits[w] + 1
           \/ at[w] \in {"drain", "failed"} /\ permits[w]' = permits[w]
        /\ Held(w)' = Held(w) /\ Held(w) \in 0..1 /\ at[w]' = at[w]
    BY DEF Inv, Typed, Held
  <2>3. /\ permits[w] + Cardinality(Tasks(w)) + Held(w) <= Concurrency
        /\ at[w] \notin {"drain", "failed"} =>
             permits[w] + Cardinality(Tasks(w)) + Held(w) = Concurrency
    BY DEF Inv, Balance, Paid
  <2>4. QED BY <2>1, <2>2, <2>3, Sizes DEF Paid
<1>8. ASSUME NEW v \in Workers \ {w} PROVE Paid(v)'
  <2>1. permits[v]' = permits[v] /\ Held(v)' = Held(v) /\ at[v]' = at[v]
    BY DEF Inv, Typed, Held
  <2>2. QED BY <1>2, <2>1 DEF Inv, Balance, Paid
<1>9. QED BY <1>3, <1>4, <1>5, <1>6, <1>7, <1>8 DEF Inv, Balance

\* The steps of a task.
LEMMA InvTaskStep ==
  ASSUME Inv, NEW w \in Workers, NEW j \in Jobs,
         SessionEnds(w, j) \/ ForceCancel(w, j) \/ Release(w, j)
  PROVE  Inv'
<1>1. CASE SessionEnds(w, j)
  BY <1>1, InvTask DEF SessionEnds, SetTask, TaskStates
<1>2. CASE Release(w, j)
  <2>1. KeyLeft(j[1])
    BY <1>2 DEF Release, Delete, KeyLeft
  <2> QED
    BY <1>2, <2>1, InvTaskEnds DEF Release
<1>3. CASE ForceCancel(w, j)
  <2>1. CASE SetTask(w, j, "cancelled") \/ SetTask(w, j, "stuck")
    <3>1. task[w][j] \in {"session", "deaf"} /\ UNCHANGED keyVars
      BY <1>3, <2>1 DEF ForceCancel, SetTask, Inv, Typed
    <3> QED
      BY <1>3, <2>1, <3>1, InvTask DEF ForceCancel, SetTask, TaskStates
  <2>2. CASE SetTask(w, j, "none")
    <3>1. task[w][j] # "none" /\ KeyLeft(j[1])
      BY <1>3, <2>2 DEF ForceCancel, SetTask, Inv, Typed, Delete, KeyLeft
    <3> QED
      BY <1>3, <2>2, <3>1, InvTaskEnds DEF ForceCancel
  <2> QED
    BY <1>3, <2>1, <2>2 DEF ForceCancel
<1> QED BY <1>1, <1>2, <1>3

\* The tasks of a process that ends leave their keys orphaned.
LEMMA InvExit ==
  ASSUME Inv, NEW w \in Workers, Stop(w) \/ Crash(w)
  PROVE  Inv'
<1>1. Exit(w)
  BY DEF Stop, Crash
<1>2. reserved' = reserved /\ orphan' = orphan \cup (Handled(w) \cap reserved) /\ outlived' = outlived
  BY DEF Stop, Crash, keyVars, Handled
<1>3. task' = [task EXCEPT ![w] = Idle]
  BY <1>1 DEF Exit
<1>4. Typed'
  BY <1>1, <1>2 DEF Inv, Typed, Exit, Goto, queueVars, Idle, TaskStates
<1>5. InHand'
  BY <1>1 DEF Inv, Typed, InHand, Exit, Goto
<1>6. Tasks(w)' = {} /\ \A v \in Workers \ {w} : Tasks(v)' = Tasks(v)
  BY <1>3 DEF Inv, Typed, Tasks, Idle
<1>7. Keys'
  <2>1. \A v \in Workers \ {w} : \A i \in Tasks(v) : i[1] \notin outlived => i[1] \notin Handled(w)
    BY DEF Inv, Keys, OneHandler, Handled
  <2>2. HolderHasKey'
    BY <1>2, <1>6, <2>1 DEF Inv, Keys, HolderHasKey
  <2>3. OneHandler' /\ (orphan \subseteq reserved)'
    BY <1>2, <1>6 DEF Inv, Keys, OneHandler
  <2>4. \A v \in Workers \ {w} : Handled(v)' = Handled(v)
    BY <1>6 DEF Handled
  <2>5. ReservedIsHeld'
    BY <1>2, <2>4 DEF Inv, Keys, ReservedIsHeld
  <2>6. QED BY <2>2, <2>3, <2>5 DEF Keys
<1>8. Balance'
  BY <1>1, ExitBalance
<1>9. Once'
  BY <1>1, SameOnce DEF Exit, queueVars, Idle, Inv, Typed
<1>10. QED BY <1>4, <1>5, <1>7, <1>8, <1>9 DEF Inv

\* A key may run out while a task has the call: the call has outlived it.
LEMMA InvExpire ==
  ASSUME Inv, NEW c \in Calls, Expire(c)
  PROVE  Inv'
<1> USE DEF Expire
<1>1. \A w \in Workers : Tasks(w)' = Tasks(w) /\ Handled(w)' = Handled(w)
  BY DEF Tasks, Handled
<1>2. Typed' /\ InHand'
  BY DEF Inv, Typed, InHand, queueVars
<1>3. Balance'
  BY SameBalance DEF Expire
<1>4. Once'
  BY SameOnce DEF queueVars
<1>5. \A w \in Workers : \A i \in Tasks(w) : i[1] \notin outlived' => i[1] # c /\ i[1] \notin outlived
  BY DEF Handled
<1>6. HolderHasKey'
  BY <1>1, <1>5 DEF Inv, Keys, HolderHasKey
<1>7. outlived \subseteq outlived'
  OBVIOUS
<1>8. OneHandler' /\ (orphan \subseteq reserved)' /\ ReservedIsHeld'
  BY <1>1, <1>7 DEF Inv, Keys, OneHandler, ReservedIsHeld
<1> QED BY <1>2, <1>3, <1>4, <1>6, <1>8 DEF Inv, Keys

\* A call is published in a queue it was not in.
LEMMA InvPublish ==
  ASSUME Inv, NEW c \in Calls, Publish(c)
  PROVE  Inv'
<1>1. PICK q \in Queues \ offered[c] :
        /\ offered' = [offered EXCEPT ![c] = @ \cup {q}]
        /\ list' = IF q = "list" THEN list \cup {c} ELSE list
        /\ stream' = IF q = "stream" /\ group THEN stream \cup {c} ELSE stream
  BY DEF Publish
<1> USE DEF Publish, keyVars
<1>2. Typed'
  BY <1>1 DEF Inv, Typed, Queues
<1>3. InHand'
  BY DEF Inv, InHand
<1>4. Keys'
  BY SameKeys
<1>5. Balance'
  BY SameBalance
<1>6. Once'
  <2>1. \A j : Untaken(j)' = Untaken(j)
    BY DEF Untaken
  <2>2. \A d \in Calls, r \in Queues : r \in offered'[d] <=> r \in offered[d] \/ (d = c /\ r = q)
    BY <1>1 DEF Inv, Typed
  <2>3. Untaken(<<c, q>>)
    BY <1>1 DEF Inv, Once, Queues
  <2> QED
    BY <1>1, <2>1, <2>2, <2>3 DEF Inv, Once, Queues
<1>7. QED BY <1>2, <1>3, <1>4, <1>5, <1>6 DEF Inv

\* The steps that touch no task, key or entry.
LEMMA InvRest ==
  ASSUME Inv, (\E w \in Workers : CreateGroup(w) \/ Signal(w)) \/ UNCHANGED vars
  PROVE  Inv'
<1> USE DEF CreateGroup, Signal, vars, queueVars, keyVars
<1>1. Typed' BY DEF Inv, Typed
<1>2. InHand' BY DEF Inv, InHand
<1>3. Keys' BY SameKeys
<1>4. Balance' BY SameBalance
<1>5. Once' BY SameOnce
<1>6. QED BY <1>1, <1>2, <1>3, <1>4, <1>5 DEF Inv

\* Every step preserves the invariant.
LEMMA InvNext == Inv /\ [Next]_vars => Inv'
BY InvPull, InvLoop, InvReserve, InvTaskStep, InvExit, InvExpire, InvPublish, InvRest
DEF Next, Supervise
----------------------------------------------------------------------------
\* The invariant holds in every state that Spec reaches.
THEOREM Invariance == Spec => []Inv
BY InvInit, InvNext, PTL DEF Spec

\* Every state of the supervisors, the queues and the keys has its type; in
\* particular a semaphore never holds more than Concurrency permits.
THEOREM TypeCorrect == Spec => []TypeOK
BY Invariance, InvImplies, PTL

\* main.py:121-134: one task at a time has a call, however it was published and whoever is
\* killed or cannot reach Redis, until its key runs out under it.
THEOREM OneHandlerPerCall == Spec => []OneHandler
BY Invariance, InvImplies, PTL

\* main.py:123-133: a reservation is held by a task, or waits for its TTL, also when two
\* tasks have come to share a call.
THEOREM ReservationsAreHeld == Spec => []ReservedIsHeld
BY Invariance, InvImplies, PTL

\* main.py:183-222: no path of a supervisor that takes calls leaks or forges a permit, and
\* the cancels at its end forge none.
THEOREM PermitsAreConserved == Spec => []PermitsBalance
BY Invariance, InvImplies, PTL
=============================================================================
