----------------------------- MODULE HttpAsync -----------------------------
(***************************************************************************)
(* Asynchronous HTTP requests: net/fetch.js asks HttpRequestAsync, which   *)
(* queues a task; a fixed pool of worker threads takes tasks and queues    *)
(* results; the pump timer of runtime/pump.js calls PumpHttpRequests,      *)
(* which takes all results and settles their promises.  The queues and the *)
(* pool are the process's: they outlive the JS runtime, which a reload or  *)
(* the next daemon job replaces.                                           *)
(***************************************************************************)
EXTENDS Integers, Sequences, FiniteSets, SequencesExt

CONSTANTS
    NumReqs,    \* bound: requests ever made
    Workers,    \* PoolThreads
    MaxGen,     \* bound: JS runtimes one after another
    MaxThrows   \* bound: calls of fetch that throw, per runtime

Reqs   == 1 .. NumReqs
Gens   == 1 .. MaxGen
Fates  == {"none", "pending", "resolved", "rejected", "stale", "lost"}
NoTask == 0
Result == [id : Reqs, ok : BOOLEAN]

ASSUME HttpAssumption ==
    /\ NumReqs \in Nat /\ MaxGen \in Nat \ {0} /\ MaxThrows \in Nat
    /\ IsFiniteSet(Workers) /\ Workers # {}

VARIABLES
    task_queue,     \* TaskQueue: request ids
    result_queue,   \* ResultQueue
    has_work,       \* HasWorkEvent, an auto-reset event
    next_task_id,   \* NextTaskId
    at, doing,      \* where each worker is, and its task
    gen,            \* the JS runtime in existence
    made,           \* the runtime a request was made in, 0 before
    fate,           \* of its promise; stale: delivered to a runtime that is gone
    js,             \* the JS thread: in a script or the loop, in HttpRequestAsync
                    \* before SetEvent, or in PumpHttpRequests
    drained,        \* the results PumpHttpRequests has taken and not delivered
    jobs,           \* fetches whose reactions are to run
    released,       \* history: fetches that have released the pump
    pump_count,     \* the count of pump "net:http", 0 when it is deleted
    timer,          \* pump.js has an interval timer
    looping,        \* js_std_loop runs, and its one timer per turn gets to pump.js's
    refused         \* history: calls of fetch that threw in this runtime

poolVars == <<task_queue, result_queue, has_work, at, doing>>
pumpVars == <<pump_count, timer, looping>>
vars == <<task_queue, result_queue, has_work, next_task_id, at, doing, gen, made, fate,
          js, drained, jobs, released, pumpVars, refused>>

Init ==
    /\ task_queue = <<>> /\ result_queue = <<>> /\ has_work = FALSE
    /\ next_task_id = 1
    /\ at = [w \in Workers |-> "none"] /\ doing = [w \in Workers |-> NoTask]
    /\ gen = 1
    /\ made = [r \in Reqs |-> 0] /\ fate = [r \in Reqs |-> "none"]
    /\ js = "script" /\ drained = <<>> /\ jobs = <<>> /\ released = {}
    /\ pump_count = 0 /\ timer = FALSE /\ looping = FALSE /\ refused = 0

(***************************************************************************)
(* fetch and HttpRequestAsync.                                             *)
(***************************************************************************)
acquirePump == pump_count' = pump_count + 1 /\ timer' = TRUE /\ UNCHANGED looping

\* EnsurePoolStarted.
Started == [w \in Workers |-> IF at[w] = "none" THEN "pop" ELSE at[w]]

\* Scripts call fetch at any point: at top level, in a timer, in a reaction.
Fetch ==
    /\ js = "script" /\ next_task_id \in Reqs
    /\ acquirePump
    /\ at' = Started
    /\ task_queue' = Append(task_queue, next_task_id)
    /\ made' = [made EXCEPT ![next_task_id] = gen]
    /\ fate' = [fate EXCEPT ![next_task_id] = "pending"]
    /\ next_task_id' = next_task_id + 1
    /\ js' = "signal"
    /\ UNCHANGED <<result_queue, has_work, doing, gen, drained, jobs, released, refused>>

\* TaskQueuePush sets the event after it has left the lock.
Signal ==
    /\ js = "signal"
    /\ has_work' = TRUE
    /\ js' = "script"
    /\ UNCHANGED <<task_queue, result_queue, next_task_id, at, doing, gen, made, fate,
                   drained, jobs, released, pumpVars, refused>>

\* HttpRequestAsync throws (policy, headers, body, timeout) after fetch has acquired
\* the pump: nobody releases it.
FetchThrows ==
    /\ js = "script" /\ refused < MaxThrows
    /\ acquirePump
    /\ at' \in {at, Started}
    /\ refused' = refused + 1
    /\ UNCHANGED <<task_queue, result_queue, has_work, next_task_id, doing, gen, made,
                   fate, js, drained, jobs, released>>

(***************************************************************************)
(* THttpWorkerThread.Execute.                                              *)
(***************************************************************************)
Dequeued_TwoAtOnce(q) == SubSeq(q, 3, Len(q))

Dequeued(q) == Tail(q)

WorkerPop(w) ==
    /\ at[w] = "pop"
    /\ IF task_queue = <<>>
       THEN at' = [at EXCEPT ![w] = "wait"] /\ UNCHANGED <<task_queue, doing>>
       ELSE /\ at' = [at EXCEPT ![w] = "request"]
            /\ doing' = [doing EXCEPT ![w] = Head(task_queue)]
            /\ task_queue' = Dequeued(task_queue)
    /\ UNCHANGED <<result_queue, has_work, next_task_id, gen, made, fate, js, drained,
                   jobs, released, pumpVars, refused>>

\* WaitFor(100): the event, which it resets, or the timeout.
WorkerWake(w) ==
    /\ at[w] = "wait"
    /\ at' = [at EXCEPT ![w] = "pop"]
    /\ has_work' = FALSE
    /\ UNCHANGED <<task_queue, result_queue, next_task_id, doing, gen, made, fate, js,
                   drained, jobs, released, pumpVars, refused>>

AfterAnswer_Waits == "wait"

\* The next step of a worker that has queued a result.
AfterAnswer == "pop"

\* The request ends, well or not (failures of DoHttpRequest and exceptions alike).
WorkerAnswer(w) ==
    /\ at[w] = "request"
    /\ \E ok \in BOOLEAN :
           result_queue' = Append(result_queue, [id |-> doing[w], ok |-> ok])
    /\ doing' = [doing EXCEPT ![w] = NoTask]
    /\ at' = [at EXCEPT ![w] = AfterAnswer]
    /\ UNCHANGED <<task_queue, has_work, next_task_id, gen, made, fate, js, drained,
                   jobs, released, pumpVars, refused>>

WorkerStep(w) == WorkerPop(w) \/ WorkerWake(w) \/ WorkerAnswer(w)

(***************************************************************************)
(* The pump timer and PumpHttpRequests.                                    *)
(***************************************************************************)
Kept_Failed(q) == SelectSeq(q, LAMBDA x : ~x.ok)

\* What stays in ResultQueue after ResultQueueDrain.
Kept(q) == <<>>

\* The interval timer fires once the jobs are done, in the event loop only, or a
\* script calls PumpHttpRequests itself.  With no results it does nothing.
PumpHttpRequests ==
    /\ js = "script" /\ result_queue # <<>>
    /\ drained' = result_queue
    /\ result_queue' = Kept(result_queue)
    /\ js' = "pump"
    /\ UNCHANGED <<task_queue, has_work, next_task_id, at, doing, gen, made, fate,
                   jobs, released, pumpVars, refused>>
Tick == looping /\ timer /\ jobs = <<>> /\ PumpHttpRequests

\* The loop of PumpHttpRequests ends with the last result.
Returns == IF Len(drained) = 1 THEN "script" ELSE "pump"

\* The promise's own resolving function is called; fetch reacts in a job.
Deliver ==
    /\ js = "pump"
    /\ LET r == Head(drained).id
       IN  /\ made[r] = gen
           /\ fate' = [fate EXCEPT ![r] = IF Head(drained).ok THEN "resolved"
                                                             ELSE "rejected"]
           /\ jobs' = Append(jobs, r)
    /\ drained' = Tail(drained)
    /\ js' = Returns
    /\ UNCHANGED <<poolVars, next_task_id, gen, made, released, pumpVars, refused>>

\* The resolving function belongs to a runtime that has been freed: what calling it
\* with the present context does is undefined.  One outcome: nothing is seen of it.
DeliverStale ==
    /\ js = "pump"
    /\ made[Head(drained).id] # gen
    /\ fate' = [fate EXCEPT ![Head(drained).id] = "stale"]
    /\ drained' = Tail(drained)
    /\ js' = Returns
    /\ UNCHANGED <<poolVars, next_task_id, gen, made, jobs, released, pumpVars, refused>>

Raises_OnError(x) == made[x.id] # gen \/ ~x.ok

\* The other outcome: an access violation, which the handler around the loop turns
\* into an exception of PumpHttpRequests.
Raises(x) == made[x.id] # gen

\* The loop ends early: the results behind are in no queue any more.
PumpRaises ==
    /\ js = "pump" /\ Raises(Head(drained))
    /\ fate' = [r \in Reqs |->
                   IF r \in {x.id : x \in ToSet(drained)} THEN "lost" ELSE fate[r]]
    /\ drained' = <<>>
    /\ js' = "script"
    /\ UNCHANGED <<poolVars, next_task_id, gen, made, jobs, released, pumpVars, refused>>

Releases_IfResolved(r) == fate[r] = "resolved"

\* The second then of fetch releases the pump, whatever the outcome.
Releases(r) == TRUE

CountAfter_Deleted == 0

\* releasePump: the pump is deleted, and its timer stopped, when nobody holds it.
CountAfter == pump_count - 1

\* A job runs in the loop, or in DrainPendingJobs after a script.
RunJob ==
    /\ js = "script" /\ jobs # <<>>
    /\ jobs' = Tail(jobs)
    /\ IF Releases(Head(jobs)) /\ pump_count > 0
       THEN /\ pump_count' = CountAfter
            /\ timer' = (CountAfter > 0)
            /\ released' = released \union {Head(jobs)}
       ELSE UNCHANGED <<pump_count, timer, released>>
    /\ UNCHANGED <<poolVars, next_task_id, gen, made, fate, js, drained, looping, refused>>

\* Reload, or the next daemon job: the runtime goes with its timers and jobs; the
\* queues, the workers and the tasks stay.
Restart ==
    /\ js = "script" /\ gen < MaxGen
    /\ gen' = gen + 1
    /\ jobs' = <<>> /\ pump_count' = 0 /\ timer' = FALSE /\ looping' = FALSE
    /\ refused' = 0
    /\ UNCHANGED <<poolVars, next_task_id, made, fate, js, drained, released>>

\* RunExecutionPipeline calls js_std_loop after a script, but not after a REPL line nor
\* when a job has thrown; and a timer that is always due keeps the loop from others.
LoopBegins ==
    /\ js = "script" /\ ~looping
    /\ looping' = TRUE
    /\ UNCHANGED <<poolVars, next_task_id, gen, made, fate, js, drained, jobs, released,
                   pump_count, timer, refused>>

\* A job throws, a script ends the program, or another timer starves the pump's.
LoopEnds ==
    /\ js = "script" /\ looping
    /\ looping' = FALSE
    /\ UNCHANGED <<poolVars, next_task_id, gen, made, fate, js, drained, jobs, released,
                   pump_count, timer, refused>>

\* What the JS thread goes on to do inside a native call, and in the loop.
NativeStep == Signal \/ Deliver \/ DeliverStale \/ PumpRaises
LoopStep   == looping /\ (Tick \/ RunJob)

Next ==
    \/ Fetch \/ FetchThrows \/ NativeStep \/ RunJob \/ PumpHttpRequests \/ Restart
    \/ LoopBegins \/ LoopEnds
    \/ \E w \in Workers : WorkerStep(w)

Spec == Init /\ [][Next]_vars

\* A native call goes on, requests end (WinHTTP has its own timeouts), and a loop that
\* runs fires the timers and runs the jobs; nothing makes it run.
FairSpec ==
    /\ Spec
    /\ WF_vars(NativeStep) /\ WF_vars(LoopStep)
    /\ \A w \in Workers : WF_vars(WorkerStep(w))

(***************************************************************************)
(* What must hold.                                                         *)
(***************************************************************************)
\* Every variable has its type, and a worker has a task exactly while it requests.
TypeOK ==
    /\ task_queue \in Seq(Reqs) /\ result_queue \in Seq(Result)
    /\ has_work \in BOOLEAN /\ next_task_id \in 1 .. NumReqs + 1
    /\ at \in [Workers -> {"none", "pop", "wait", "request"}]
    /\ doing \in [Workers -> Reqs \union {NoTask}]
    /\ \A w \in Workers : at[w] = "request" <=> doing[w] # NoTask
    /\ gen \in Gens
    /\ made \in [Reqs -> 0 .. MaxGen] /\ fate \in [Reqs -> Fates]
    /\ js \in {"script", "signal", "pump"}
    /\ drained \in Seq(Result) /\ (js = "pump" <=> drained # <<>>)
    /\ jobs \in Seq(Reqs) /\ released \subseteq Reqs
    /\ pump_count \in Nat /\ timer \in BOOLEAN /\ looping \in BOOLEAN
    /\ refused \in 0 .. MaxThrows

Held(r) == Cardinality({k \in DOMAIN task_queue : task_queue[k] = r})
         + Cardinality({w \in Workers : doing[w] = r})
         + Cardinality({k \in DOMAIN result_queue : result_queue[k].id = r})
         + Cardinality({k \in DOMAIN drained : drained[k].id = r})

\* A request whose promise is pending is in exactly one place, and no other is in any:
\* its resolving functions are called, and freed, once.
OneHolder == \A r \in Reqs : Held(r) = IF fate[r] = "pending" THEN 1 ELSE 0

\* The types, and a single owner of each request on its way from the script through the
\* queues and a worker back to its promise.
WellFormed == TypeOK /\ OneHolder

\* When every worker waits while tasks are queued, the event is set or about to be.
\* Two SetEvents count as one, so that a worker may find its task by the timeout of its
\* wait only; but then another is awake, and looks at the queue again before it waits:
\* no task is left to the timeout alone.
NoLostWakeup ==
    task_queue # <<>> /\ (\A w \in Workers : at[w] = "wait")
        => has_work \/ js = "signal"

OpenFetches == {r \in Reqs : made[r] = gen /\ r \notin released}

\* The pump is held once for each fetch whose reaction has not run and for each call
\* that threw; it has a timer exactly while it is held.  So no fetch waits for a pump
\* that has stopped.
PumpCountsFetches ==
    /\ pump_count = Cardinality(OpenFetches) + refused
    /\ timer <=> pump_count > 0

\* Every fetch gets an answer, unless its runtime ends, the answer is lost in a batch
\* with one of an earlier runtime, or the event loop stops running the pump.
FetchSettles ==
    \A r \in Reqs : (fate[r] = "pending" /\ made[r] = gen)
                        ~> (fate[r] # "pending" \/ made[r] # gen \/ ~looping)

\* The pump stops, and so the event loop may end, when every fetch was answered; calls
\* that threw, lost answers and a loop that no longer runs are what keeps it.
PumpStops ==
    (timer /\ refused = 0) ~> \/ ~timer \/ refused > 0 \/ ~looping
                              \/ \E r \in OpenFetches : fate[r] = "lost"

StateOf(r) == CASE fate[r] = "none" -> "new"
                [] fate[r] \in {"resolved", "rejected"} -> fate[r]
                [] fate[r] = "pending" /\ made[r] = gen -> "open"
                [] OTHER -> "dropped"

Board == INSTANCE RequestBoard WITH state <- [r \in Reqs |-> StateOf(r)]

\* Seen as the state of each request, every step is a step of the request board: asked
\* in order, answered once, and never lost while no runtime has left requests behind.
ImplementsBoard == Board!Spec
=============================================================================
