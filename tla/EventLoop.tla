----------------------------- MODULE EventLoop -----------------------------
(***************************************************************************)
(* One thread of the program and its JS runtime: how code is evaluated     *)
(* (RunScriptFile, RunDaemonJobOnce, a REPL line, a Worker's worker_func), *)
(* how pending jobs are drained (DrainPendingJobs, js_std_await,           *)
(* js_std_loop), and what js_os_poll calls: timers, the stdin handler,     *)
(* messages other threads post.  User code is whatever sequence of calls   *)
(* changes this state, within a budget, and then returns or throws.        *)
(***************************************************************************)
EXTENDS Integers, Sequences, FiniteSets, SequencesExt

CONSTANTS
    Modes,      \* which of "script", "repl", "daemon", "worker" may be started
    Senders,    \* threads that post messages to this one
    Delays,     \* delays of timers, in ticks
    MaxOps,     \* bound: calls of user code that change the state
    MaxEvals,   \* bound: REPL lines or daemon jobs
    MaxSent     \* bound: messages of a sender

Fds     == {"stdin", "other"}
Drivers == {"none", "await", "drain", "loop"}
Steps   == {"idle", "top", "check", "poll", "asleep", "call", "ended", "exited"}
Callees == {"none", "eval", "job", "timer", "stdin", "message"}
MaxDelay == CHOOSE m \in Delays : \A k \in Delays : k <= m

ASSUME LoopAssumption ==
    /\ Modes \subseteq {"script", "repl", "daemon", "worker"} /\ Modes # {}
    /\ Delays \subseteq Nat \ {0} /\ IsFiniteSet(Delays) /\ Delays # {}
    /\ MaxOps \in Nat /\ MaxEvals \in Nat \ {0} /\ MaxSent \in Nat

VARIABLES
    mode,       \* what the host was started for
    driver,     \* the C loop the thread is in
    step,       \* where in it
    callee,     \* the user code that runs: its kind, and the id of a one-shot timer
    ok,         \* the pipeline has not failed
    evals,      \* how many evaluations have begun
    ops,        \* calls left to user code
    timers,     \* os_timers: id, ticks left, delay and repeats of each
    next_timer, \* next_timer_id
    jobs,       \* job_list, a number: jobs are not told apart
    rejected,   \* rejected_promise_list
    run_std_loop, \* the pipeline goes on to js_std_loop
    awaited,    \* the promise js_std_await was given
    handlers,   \* os_rw_handlers: the descriptors with a read handler
    stdin,      \* stdin is signalled
    ports,      \* port_list: the senders with an onmessage function, in order
    queue,      \* msg_queue of the pipe from each sender
    waker,      \* its event
    sent,       \* history: messages posted
    handled     \* history: messages taken

host   == <<mode, evals, run_std_loop>>
pcVars == <<driver, step, callee, ok>>
owned  == <<ops, timers, next_timer, jobs, rejected, awaited, handlers, ports>>
pipes  == <<queue, waker, sent, handled>>
vars   == <<host, pcVars, owned, stdin, pipes>>

Nobody == [kind |-> "none", id |-> 0]
Call(kind, id) == [kind |-> kind, id |-> id]

Init ==
    /\ mode \in Modes /\ run_std_loop = TRUE
    /\ driver = "none" /\ step = "idle" /\ callee = Nobody /\ ok = TRUE
    /\ evals = 0 /\ ops = MaxOps
    /\ timers = <<>> /\ next_timer = 1 /\ jobs = 0 /\ rejected = {} /\ awaited = "none"
    /\ handlers = {} /\ stdin = FALSE /\ ports = <<>>
    /\ queue = [s \in Senders |-> <<>>] /\ waker = [s \in Senders |-> FALSE]
    /\ sent = [s \in Senders |-> 0] /\ handled = [s \in Senders |-> 0]

(***************************************************************************)
(* The host: evaluations.                                                  *)
(***************************************************************************)
Begin ==
    /\ evals' = evals + 1 /\ ok' = TRUE
    /\ driver' = "none" /\ step' = "call" /\ callee' = Call("eval", 0)

\* A script, a worker's module, a line of the REPL.  A line may be a promise (await),
\* which the module a worker loads always is; scripts that load and import run in the
\* REPL go on to the event loop, lines do not.
Evaluate ==
    /\ step = "idle" /\ mode # "daemon"
    /\ evals < (IF mode = "repl" THEN MaxEvals ELSE 1)
    /\ Begin
    /\ awaited' \in CASE mode = "repl"   -> {"none", "pending"}
                      [] mode = "worker" -> {"pending"}
                      [] OTHER           -> {"none"}
    /\ run_std_loop' \in IF mode # "repl" THEN {TRUE}
                         ELSE IF awaited' = "none" THEN BOOLEAN ELSE {FALSE}
    /\ UNCHANGED <<mode, ops, timers, next_timer, jobs, rejected, handlers, ports, stdin,
                   pipes>>

\* A daemon job runs in a runtime of its own; the one before it has been freed.
DaemonJob ==
    /\ step = "idle" /\ mode = "daemon" /\ evals < MaxEvals
    /\ Begin
    /\ timers' = <<>> /\ next_timer' = 1 /\ jobs' = 0 /\ rejected' = {}
    /\ awaited' = "none" /\ handlers' = {} /\ ports' = <<>>
    /\ queue' = [s \in Senders |-> <<>>] /\ waker' = [s \in Senders |-> FALSE]
    /\ sent' = [s \in Senders |-> 0] /\ handled' = [s \in Senders |-> 0]
    /\ UNCHANGED <<mode, run_std_loop, ops, stdin>>

\* The evaluation is over: a script and a worker end, the others take the next one.
Over == IF mode \in {"script", "worker"} THEN "ended" ELSE "idle"
Finish(good) ==
    /\ step' = Over /\ driver' = "none" /\ ok' = good /\ callee' = Nobody

Goto(d, s) == driver' = d /\ step' = s /\ callee' = Nobody /\ UNCHANGED ok

\* The evaluation itself has returned.
EvalReturns ==
    /\ callee.kind = "eval" /\ step = "call"
    /\ Goto(IF awaited = "none" THEN "drain" ELSE "await", "top")
    /\ UNCHANGED <<host, owned, stdin, pipes>>

\* It threw.  A module that throws is a promise that is rejected: only the evaluation
\* of a script or of a line that is no promise can throw.
EvalThrows ==
    /\ callee.kind = "eval" /\ step = "call" /\ awaited = "none"
    /\ Finish(FALSE)
    /\ UNCHANGED <<host, owned, stdin, pipes>>

(***************************************************************************)
(* User code.                                                              *)
(***************************************************************************)
InCode == step = "call" /\ ops > 0 /\ ops' = ops - 1

setTimeout(delay, repeats) ==
    /\ InCode
    /\ timers' = Append(timers, [id |-> next_timer, left |-> delay, delay |-> delay,
                                 repeats |-> repeats])
    /\ next_timer' = next_timer + 1
    /\ UNCHANGED <<host, pcVars, jobs, rejected, awaited, handlers, ports, stdin, pipes>>

free_timer(k) == timers' = RemoveAt(timers, k)

clearTimeout(k) ==
    /\ InCode /\ k \in DOMAIN timers
    /\ free_timer(k)
    /\ UNCHANGED <<host, pcVars, next_timer, jobs, rejected, awaited, handlers, ports,
                   stdin, pipes>>

EnqueueJob ==
    /\ InCode
    /\ jobs' = jobs + 1
    /\ UNCHANGED <<host, pcVars, timers, next_timer, rejected, awaited, handlers, ports,
                   stdin, pipes>>

\* js_std_promise_rejection_tracker lists the promise; with DebugLevel > 0 the logging
\* tracker of quickjs_debug.pas is installed instead, which lists nothing.
Track(p) == {rejected, rejected \cup {p}}

\* Some promise is rejected that nobody handles yet, or is handled after all.
RejectPromise ==
    /\ InCode /\ rejected' \in Track("other") /\ rejected' # rejected
    /\ UNCHANGED <<host, pcVars, timers, next_timer, jobs, awaited, handlers, ports,
                   stdin, pipes>>

HandleRejection ==
    /\ InCode /\ "other" \in rejected /\ rejected' = rejected \ {"other"}
    /\ UNCHANGED <<host, pcVars, timers, next_timer, jobs, awaited, handlers, ports,
                   stdin, pipes>>

\* The promise js_std_await waits for.  Nothing but js_std_await looks at it, so that
\* its rejection is an unhandled one.
SettleAwaited(result) ==
    /\ InCode /\ awaited = "pending" /\ awaited' = result
    /\ rejected' \in IF result = "rejected" THEN Track("awaited") ELSE {rejected}
    /\ UNCHANGED <<host, pcVars, timers, next_timer, jobs, handlers, ports, stdin, pipes>>

setReadHandler(fd, on) ==
    /\ InCode
    /\ handlers' = IF on THEN handlers \cup {fd} ELSE handlers \ {fd}
    /\ handlers' # handlers
    /\ UNCHANGED <<host, pcVars, timers, next_timer, jobs, rejected, awaited, ports,
                   stdin, pipes>>

ReadStdin ==
    /\ InCode /\ stdin /\ stdin' = FALSE
    /\ UNCHANGED <<host, pcVars, timers, next_timer, jobs, rejected, awaited, handlers,
                   ports, pipes>>

\* worker.onmessage = f, and = null, which is also what the finalizer of a Worker
\* object does that nothing refers to.
set_onmessage(s, on) ==
    /\ InCode
    /\ IF on THEN s \notin Range(ports) /\ ports' = Append(ports, s)
             ELSE \E k \in DOMAIN ports : ports[k] = s /\ ports' = RemoveAt(ports, k)
    /\ UNCHANGED <<host, pcVars, timers, next_timer, jobs, rejected, awaited, handlers,
                   stdin, pipes>>

UserCode ==
    \/ \E delay \in Delays, repeats \in BOOLEAN : setTimeout(delay, repeats)
    \/ \E k \in DOMAIN timers : clearTimeout(k)
    \/ EnqueueJob
    \/ RejectPromise
    \/ HandleRejection
    \/ \E result \in {"fulfilled", "rejected"} : SettleAwaited(result)
    \/ \E fd \in Fds, on \in BOOLEAN : setReadHandler(fd, on)
    \/ ReadStdin
    \/ \E s \in Senders, on \in BOOLEAN : set_onmessage(s, on)

(***************************************************************************)
(* JS_ExecutePendingJob and the three loops that call it.                  *)
(***************************************************************************)
JobPending == jobs > 0

ExecutePendingJob ==
    /\ JobPending
    /\ jobs' = jobs - 1
    /\ step' = "call" /\ callee' = Call("job", 0) /\ UNCHANGED <<driver, ok>>
    /\ UNCHANGED <<host, ops, timers, next_timer, rejected, awaited, handlers, ports,
                   stdin, pipes>>

PendingJob ==
    /\ step = "top" /\ (driver = "await" => awaited = "pending")
    /\ ExecutePendingJob

\* All jobs are done: SpawnPoll settles the promises of processes that have ended,
\* whose reactions are jobs.
PollSpawned ==
    /\ driver = "drain" /\ step = "top" /\ ~JobPending
    /\ jobs' \in 0 .. 1
    /\ IF run_std_loop THEN Goto("loop", "top") ELSE Finish(TRUE)
    /\ UNCHANGED <<host, ops, timers, next_timer, rejected, awaited, handlers, ports,
                   stdin, pipes>>

\* js_std_promise_rejection_check: exit(1) if a rejection is on the list.
RejectionCheck ==
    /\ driver \in {"await", "loop"} /\ step = "top" /\ ~JobPending
    /\ driver = "await" => awaited = "pending"
    /\ IF rejected # {} THEN Goto("none", "exited") ELSE Goto(driver, "poll")
    /\ UNCHANGED <<host, owned, stdin, pipes>>

\* js_std_await has its answer.  A REPL line that was rejected is reported and done.
AwaitDone ==
    /\ driver = "await" /\ step = "top" /\ awaited # "pending"
    /\ CASE mode = "worker"        -> Goto("loop", "top")
         [] awaited = "fulfilled"  -> Goto("drain", "top")
         [] OTHER                  -> Finish(FALSE)
    /\ UNCHANGED <<host, owned, stdin, pipes>>

\* js_std_await polls after each job, js_std_loop after the last.
NextAfterJob == Goto(driver, IF driver = "await" THEN "poll" ELSE "top")

JobReturns ==
    /\ step = "call" /\ callee.kind = "job"
    /\ NextAfterJob
    /\ UNCHANGED <<host, owned, stdin, pipes>>

JobThrows ==
    /\ step = "call" /\ callee.kind = "job"
    /\ IF driver = "await" THEN NextAfterJob ELSE Finish(FALSE)
    /\ UNCHANGED <<host, owned, stdin, pipes>>

(***************************************************************************)
(* js_os_poll.                                                             *)
(***************************************************************************)
Due(k) == timers[k].left = 0
DueTimers == {k \in DOMAIN timers : Due(k)}

Chosen_Last == CHOOSE k \in DueTimers : \A j \in DueTimers : j <= k

\* js_os_run_timers calls one timer: the first in the list that is due.
Chosen == CHOOSE k \in DueTimers : \A j \in DueTimers : k <= j

Unlist_After(k) == timers

\* A one-shot timer is freed before its function is called.
Unlist(k) == RemoveAt(timers, k)

RunTimer ==
    /\ step = "poll" /\ DueTimers # {}
    /\ LET t == timers[Chosen] IN
           IF t.repeats
           THEN /\ timers' = [timers EXCEPT ![Chosen].left = t.delay]
                /\ callee' = Call("timer", 0)
           ELSE /\ timers' = Unlist(Chosen)
                /\ callee' = Call("timer", t.id)
    /\ step' = "call"
    /\ UNCHANGED <<host, driver, ok, ops, next_timer, jobs, rejected, awaited, handlers,
                   ports, stdin, pipes>>

NoMoreEvents_OfPorts == timers = <<>> /\ handlers = {}
NoMoreEvents_Never   == FALSE

NoMoreEvents == timers = <<>> /\ handlers = {} /\ ports = <<>>

\* js_os_poll returns -1: js_std_loop ends, js_std_await asks again.
PollEnds ==
    /\ step = "poll" /\ NoMoreEvents
    /\ IF driver = "loop" THEN Finish(TRUE) ELSE Goto(driver, "top")
    /\ UNCHANGED <<host, owned, stdin, pipes>>

\* WaitForMultipleObjects, or Sleep when there is no handle to wait for.
PollSleeps ==
    /\ step = "poll" /\ ~NoMoreEvents /\ DueTimers = {}
    /\ Goto(driver, "asleep")
    /\ UNCHANGED <<host, owned, stdin, pipes>>

Signalled == \/ "stdin" \in handlers /\ stdin
             \/ \E k \in DOMAIN ports : waker[ports[k]]

\* Whatever was signalled, a read handler on stdin is what gets called.
StdinCalled ==
    /\ step = "asleep" /\ Signalled /\ "stdin" \in handlers
    /\ step' = "call" /\ callee' = Call("stdin", 0) /\ UNCHANGED <<driver, ok>>
    /\ UNCHANGED <<host, owned, stdin, pipes>>

Received == CHOOSE k \in DOMAIN ports :
    waker[ports[k]] /\ \A j \in DOMAIN ports : waker[ports[j]] => k <= j

Taken_Last(q) == Len(q)

Taken(q) == 1

StaysSignalled_Never(q) == FALSE

\* js_waker_clear when the last message is taken.
StaysSignalled(q) == q # <<>>

\* handle_posted_message of the first port that is signalled; the list and the event
\* change together under the pipe's mutex.
MessageCalled ==
    /\ step = "asleep" /\ Signalled /\ "stdin" \notin handlers
    /\ LET s == ports[Received]
           k == Taken(queue[s])
           q == RemoveAt(queue[s], k) IN
           /\ queue' = [queue EXCEPT ![s] = q]
           /\ waker' = [waker EXCEPT ![s] = StaysSignalled(q)]
           /\ handled' = [handled EXCEPT ![s] = queue[s][k]]
    /\ step' = "call" /\ callee' = Call("message", 0)
    /\ UNCHANGED <<host, driver, ok, owned, stdin, sent>>

\* The wait has lasted for the delay of the next timer.
WaitTimesOut ==
    /\ step = "asleep" /\ DueTimers # {}
    /\ Goto(driver, "top")
    /\ UNCHANGED <<host, owned, stdin, pipes>>

PollCallees == {"timer", "stdin", "message"}

CallbackReturns ==
    /\ step = "call" /\ callee.kind \in PollCallees
    /\ Goto(driver, "top")
    /\ UNCHANGED <<host, owned, stdin, pipes>>

\* What a message's function throws is dumped; of the others js_os_poll returns -1,
\* which only js_std_loop looks at.
CallbackThrows ==
    /\ step = "call" /\ callee.kind \in PollCallees
    /\ IF driver = "loop" /\ callee.kind # "message" THEN Finish(FALSE)
                                                     ELSE Goto(driver, "top")
    /\ UNCHANGED <<host, owned, stdin, pipes>>

(***************************************************************************)
(* The rest of the world: time, stdin, other threads.                      *)
(***************************************************************************)
Tick ==
    /\ \E k \in DOMAIN timers : timers[k].left > 0
    /\ timers' = [k \in DOMAIN timers |->
                     [timers[k] EXCEPT !.left = IF @ = 0 THEN 0 ELSE @ - 1]]
    /\ UNCHANGED <<host, pcVars, ops, next_timer, jobs, rejected, awaited, handlers,
                   ports, stdin, pipes>>

\* Only looked at while there is a handler.
StdinSignals ==
    /\ "stdin" \in handlers /\ ~stdin /\ stdin' = TRUE
    /\ UNCHANGED <<host, pcVars, owned, pipes>>

\* The event is set only when the list was empty.
Signals(s) == queue[s] = <<>>

postMessage(s) ==
    /\ evals > 0 /\ sent[s] < MaxSent /\ step \notin {"ended", "exited"}
    /\ sent' = [sent EXCEPT ![s] = @ + 1]
    /\ waker' = [waker EXCEPT ![s] = @ \/ Signals(s)]
    /\ queue' = [queue EXCEPT ![s] = Append(@, sent[s] + 1)]
    /\ UNCHANGED <<host, pcVars, owned, stdin, handled>>

\* The C code and the host; what has been called returns or throws.
HostStep ==
    \/ Evaluate \/ DaemonJob \/ EvalReturns \/ EvalThrows
    \/ PendingJob \/ PollSpawned \/ RejectionCheck \/ AwaitDone \/ JobReturns \/ JobThrows
    \/ RunTimer \/ PollEnds \/ PollSleeps
    \/ StdinCalled \/ MessageCalled \/ WaitTimesOut \/ CallbackReturns \/ CallbackThrows

World == Tick \/ StdinSignals \/ \E s \in Senders : postMessage(s)

Next == HostStep \/ UserCode \/ World

Spec == Init /\ [][Next]_vars

\* The thread runs, user code returns, and time passes.
FairSpec == Spec /\ WF_vars(HostStep) /\ WF_vars(Tick)

(***************************************************************************)
(* Properties.                                                             *)
(***************************************************************************)
TimerType == [id : Nat \ {0}, left : 0 .. MaxDelay, delay : Delays, repeats : BOOLEAN]
TypeOK ==
    /\ mode \in Modes /\ run_std_loop \in BOOLEAN /\ evals \in 0 .. MaxEvals
    /\ driver \in Drivers /\ step \in Steps /\ ok \in BOOLEAN
    /\ callee \in [kind : Callees, id : Nat]
    /\ ops \in 0 .. MaxOps /\ jobs \in Nat /\ next_timer \in Nat \ {0}
    /\ timers \in Seq(TimerType)
    /\ rejected \subseteq {"awaited", "other"}
    /\ awaited \in {"none", "pending", "fulfilled", "rejected"}
    /\ handlers \subseteq Fds /\ stdin \in BOOLEAN /\ ports \in Seq(Senders)
    /\ queue \in [Senders -> Seq(Nat)] /\ waker \in [Senders -> BOOLEAN]
    /\ sent \in [Senders -> 0 .. MaxSent] /\ handled \in [Senders -> 0 .. MaxSent]

\* Two threads share a pipe, and the event is set and reset only at its edges: it is
\* set exactly while there is a message, so that no wakeup is lost or spurious
\* (js_worker_postMessage, handle_posted_message).
WakerMeansMessage == \A s \in Senders : waker[s] <=> queue[s] # <<>>

\* Messages are handled in the order they were posted, each once, whatever becomes of
\* the onmessage function meanwhile.
MessagesInOrder ==
    \A s \in Senders :
        queue[s] = [k \in 1 .. sent[s] - handled[s] |-> handled[s] + k]

\* No message is lost, repeated, reordered, or left behind a wakeup that does not come.
MessagesKept == WakerMeansMessage /\ MessagesInOrder

\* While the function of a one-shot timer runs the timer is gone: clearTimeout of its
\* own id frees nothing twice, and a function that throws or polls does not run again.
CalledTimerIsGone ==
    callee.kind = "timer" => \A k \in DOMAIN timers : timers[k].id # callee.id

\* The types, and a list of timers that user code may change from a timer's function
\* (js_os_run_timers, js_os_clearTimeout).
WellFormed == TypeOK /\ CalledTimerIsGone

\* js_std_loop looks for events, and blocks, only when every job has run and no
\* rejection is left unhandled.  (js_std_await polls after every job.)
LoopPollsIdle ==
    driver = "loop" /\ step \in {"poll", "asleep"} => jobs = 0 /\ rejected = {}

\* A script or a worker that ended without an error has left nothing undone: no job, no
\* timer, no handler, no port, no rejection nobody saw (js_std_loop, js_os_poll).
EndsWithNothingLeft ==
    step = "ended" /\ ok =>
        jobs = 0 /\ timers = <<>> /\ handlers = {} /\ ports = <<>> /\ rejected = {}

\* The loop neither sleeps nor ends with something left to do.
NothingForgotten == LoopPollsIdle /\ EndsWithNothingLeft

InLoop == driver = "loop"
Behind(k) == \E j \in 1 .. k - 1 : timers[j].repeats
DueIds  == {timers[k].id : k \in DueTimers}
Reached == {timers[k].id : k \in {j \in DueTimers : ~Behind(j)}}

\* A timer that is due is called, however many others there are, unless it stands
\* behind a repeating timer in the list: js_os_run_timers begins at the head of the
\* list each time, and the one ahead may be due again each time.
DueTimerRuns ==
    \A id \in 1 .. MaxOps :
        InLoop /\ id \in Reached ~> id \notin DueIds \/ ~InLoop

\* A message is handled while its port is listed, although the port may be behind
\* others, if no repeating timer keeps the poll from waiting and no read handler on
\* stdin takes its place.
Attended(s) ==
    /\ InLoop /\ s \in Range(ports) /\ "stdin" \notin handlers
    /\ \A k \in DOMAIN timers : ~timers[k].repeats
MessageHandled ==
    \A s \in Senders :
        Attended(s) /\ queue[s] # <<>> ~> queue[s] = <<>> \/ ~Attended(s)

\* A program ends by itself when only one-shot timers are left (js_os_poll).
OnlyTimers == /\ InLoop /\ handlers = {} /\ ports = <<>>
              /\ \A k \in DOMAIN timers : ~timers[k].repeats
LoopEnds == OnlyTimers ~> ~OnlyTimers
=============================================================================
