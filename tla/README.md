# qjsp: a TLA+ verification of the host around QuickJS

`qjsp` is a Free Pascal program that embeds the QuickJS engine (`libqjs.dll`), gives scripts
child processes, HTTP, file watching, archives of modules (QAR) and a standard library in
JavaScript, and runs them from a REPL, from a script file or as jobs of a daemon. The engine
runs one thread; everything difficult in the host comes from what goes on beside it: reader
threads on the pipes of child processes, a pool of HTTP workers, threads that watch
directories, other JS threads that post messages, the operating system's own processes, and
timers in JavaScript that poll all of them. Difficult inside the engine are the two graph
searches that load, link and evaluate modules, some of which wait. This directory models
those parts. Paths below are relative to `src/pascal/` unless they start with `qdocs/`, which is
`src/qdocs/`, or with `quickjs`, which is in `src/quickjs-orgin/`.

## 1. Inventory

| Component | State | Operations | What is hard | What makes it correct | Module |
|---|---|---|---|---|---|
| **Spawn shim** `src/modules/qjsp_spawn_shim.pas`, `js/runtime/os/spawn.js` | list `g_procs`, `g_next_id`, one record per process (flags, output totals, chunk queue, job handle, attached promise), two reader threads per process | `spawn`, `wait`, `waitAsync`, `kill`, `SpawnPoll`, `RemoveProcById`, reader threads, Ctrl+C handler | threads against poll and removal, a poll nested in `wait`, deadlines racing exits, output limit, kill trees | living processes bounded by the limit and the nesting of spawns; output in order and within its limit; one audit entry, at most one report; nothing left of a removed process; deadlines enforced while somebody polls | `SpawnShim`, `ProcessTable` |
| **HTTP async** `src/net/http_async_helpers.pas`, `js/runtime/net/fetch.js` | task queue, result queue, auto-reset event, four workers | `HttpRequestAsync`, worker loop, `PumpHttpRequests`, `fetch` | lost wake-ups, results for a context that is gone, an exception in the middle of a batch | each request settled once, in the context that made it | `HttpAsync`, `RequestBoard` |
| **File watcher** `src/io/fs_watch_helpers.pas`, `js/runtime/io/fs.js` | `Watches`, `EventQueue`, a thread per watch, callbacks in JavaScript | `WatchDir`, `CloseWatch`, `PumpWatchEvents`, watch thread, `watch`, `close`, shutdown hook | close during an event or from a callback, throttling, a thread inside a blocking call | no event of a closed watch, close terminates, order kept, `shutdown()` closes what is open | `FsWatch` |
| **Pump** `js/runtime/runtime/pump.js` | map of reference-counted pumps, one interval timer | `acquirePump`, `releasePump`, tick, `shutdown` | unbalanced acquire and release, release after shutdown | timer runs exactly while somebody holds a pump | in `HttpAsync` and `FsWatch` |
| **Execution pipeline** `src/app/qjsp.pas` | runtime, context | `DrainPendingJobs`, `RunExecutionPipeline`, `RunScriptFile`, `RunEvalCode`, reload, exit | one poll before a loop that may never end; a job that throws in the middle | what a script started is finished or reported, and no value of a freed context is used | `EventLoop` |
| **Event loop** `quickjs-libc.c` | timers, read handlers, message ports and pipes, list of unhandled rejections | `js_std_loop`, `js_std_await`, `js_os_poll`, timers, workers' messages | two threads on one event, one event served per poll, user code changing the lists it is called from | no message lost, no timer twice, nothing left at the end, everything due is served | `EventLoop` |
| **Daemon** `src/app/qjsp.pas` | one runtime per input line, result line | `RunDaemonJobOnce`, daemon loop | a job that fails half way, state leaking into the next | one result per job, jobs independent | `EventLoop`; leftovers in `HttpAsync`, `FsWatch` |
| **Module loader** `src/app/qjsp_module_loader.pas`, `quickjs.c` (`js_host_resolve_imported_module`, `js_resolve_module`) | mounts, load stack, list of the context's modules | `qjsp_module_loader`, `TryLoadFromMount`, compilation, resolution of requests | recursion between host and engine, cycles, failures deep in a chain | a load that ends leaves either complete modules or none; circular means circular | `ModuleLoader` |
| **Module linking and evaluation** `quickjs.c` | status, DFS indices, pending dependencies and parents of each module | `js_link_module`, `js_evaluate_module`, reactions of asynchronous modules | strongly connected components, top-level await, errors that cross both | each module runs once and after what it requests; promises say what happened; imports end | `ModuleGraph` |
| **REPL and configuration** `src/app/qjsp.pas` | modes, policies, limits | commands, `Load...FromConfig` | defaults and profiles | effective policy is what the configuration says | evaluation of lines in `EventLoop` |
| **QAR archives** `src/qar/*.pas`, tools in `src/app` | mounted archives, signatures, hashes | open, verify, look up, pack | order of verification and use | nothing unverified is used when verification is required | |
| **Other helpers** | DLL table, zip handles | synchronous HTTP, DLL, zip, crypto, compression | little state | sequential wrappers | |
| **JS libraries** `js/runtime`, `js/libs/java`, `js/libs/sh` | listeners, timers, objects | events, timeouts, Java API port, shell | re-entrant emit, timeout races | per class | |
| **QuickJS, the rest** `src/quickjs-orgin` | | parser, interpreter, collector, regular expressions | third-party | | |

Interactions: a script calls the native helpers through global functions; the helpers call
back only by settling promises (`SpawnPoll`, `PumpHttpRequests`) or by returning events
(`PumpWatchEvents`). `SpawnPoll` is called by `RunExecutionPipeline` (once per evaluation) and
by `wait`; the other two are called by the pump's timer, which is a timer of the event loop. The
helpers' state is global to the process and outlives JS runtimes, which the REPL's reload and the
daemon replace. The engine calls `qjsp_module_loader` for each specifier it does not know, which
compiles the module and so calls the engine, which calls the loader for what it requests; the
graph they leave is linked and evaluated, and asynchronous modules go on in jobs of the event loop.

`PROJECT.json` lists the components with their status and, under `hazards`, every place of
this code that is hard to test, with the property that watches it or the reason why none does.

## 2. Plan

Each module has its constants declared with named assumptions, one action per operation, and no
`RECURSIVE` operator. Done:

1. **SpawnShim**, with the abstract **ProcessTable**;
2. **EventLoop**: the pipeline, the daemon's jobs, pending jobs, the standard event loop;
3. **HttpAsync**, with the abstract **RequestBoard**, and the pump as `fetch` uses it;
4. **FsWatch**, with the pump as `io/fs.js` uses it;
5. **ModuleLoader** and **ModuleGraph**.

Each has an MC module of the name with `MC` before it and proofs in a module of the name with
`Proofs` behind it (SpawnShim in two, `SpawnShimProofs` and `SpawnRecordProofs`); lemmas about lists
and sets that all of them use are in `DataLemmas`. Left to do:

- EventLoop composed with SpawnShim: what becomes of a `waitAsync` promise and of a deadline when
  the pipeline polls once and then enters the event loop;
- several pumps with different intervals; Promise reactions of the engine; EventEmitter, withTimeout;
- verification order of QAR, policies of the configuration, pure operators (JSON escaping, size
  products with their width).

Theorems: done are the safety invariants and action properties of every component and the step
simulations of `ProcessTable` and `RequestBoard` (section 9); what is left to TLC is named at the
end of that section.

In every module an operator named `X_Y` is operator `X` with a mistake somebody could make
(`BelowLimit_OffByOne`); `PROJECT.json` pairs each property with such a mistake that breaks it.
`WellFormed` of a module is its type invariant together with the invariant that ties its
data structures to each other.

## 3. SpawnShim

### State

The shim's record is spread over functions of the process id: `opts` (which pipes are read,
output limit, whether there is a timeout), `job`, `timedOut`, `killed`, `total` and
`truncated` per pipe, `chunks` (the queue), `waiter` (the context of the attached promise).
`g_procs` is a sequence of ids, newest last, and `g_next_id` the counter. `reader[id][k]` is the
place of a reader thread in `TSpawnReaderThread.Execute` with the chunk in its hands, `quit` its
`Terminated` flag. `main` is the JS thread: outside (`js`) or inside a native call, with the local
variables of that call (`ctx`, the loop index `idx`, the record `cur`, and `held`, the record
`js_wait` keeps).

The operating system: `child` is `none`, `running`, `doomed` (told to terminate, handle not yet
signalled) or `exited`; `kid` is a process started by the child, inside or outside its job;
`wrote` and `taken` count the output written to and read from a pipe; `deadline` is `ahead` until
the timeout elapses and then `passed` or `overran`, according to whether the child had ended.
`promise`, `report`, `shown` and `audited` record what scripts, the console and the log got.

### Actions

| Code | Actions |
|---|---|
| `js_spawn` | `SpawnCheck` (policy and limit), `js_spawn` (from the arguments to `g_procs.Add`), `SpawnRefused` (bad arguments, failed `Execute`), `AssignJob` (job created and assigned while the child already runs) |
| `TSpawnReaderThread.Execute` | `ReaderProbe`, `ReaderIdle`, `ReaderRead` (read and accounting, one critical section), `ReaderPush` (`PushChunk`, another) |
| `SpawnPoll` | `SpawnPoll` (entry), then per record `PollTimeout`, `PollDrain`, `PollDrained`, `PollReap` or `PollNext`, and `PollReturn` |
| `RemoveProcById` | `BeginRemove` (audit entry, first `Terminate`), `JoinOut`, `JoinErr` (the rest) |
| `js_wait` | `js_wait`, `WaitPoll`, `WaitExited`, and `WaitStale` for the freed record |
| `js_wait_async`, `js_kill`, `CtrlHandler` | the actions of the same names |
| the operating system | `ChildWrite`, `ChildForks`, `ChildExit`, `DeadlinePasses` |

The granularity is that of the locks: a native call of the JS thread is cut wherever another
thread could see the difference, so that readers, children and deadlines interleave with every
step of a poll, a wait and a removal.

Abstractions and assumptions, each from the code:

- The Windows build, for which the job objects and `taskkill` are compiled in. `taskkill` is started
  and not awaited, so without a job it may or may not reach the child's child; `TerminateProcess`
  itself succeeds.
- Output is counted in units; what matters is how much was read at which position.
- Calls refused at once (policy off, limit) change nothing and are not steps. The policy does not
  change while processes run.
- Between the check of the limit (`src/modules/qjsp_spawn_shim.pas:712`) and `g_procs.Add` (1009)
  the accessors and `toString` of arguments and options run, and may spawn, wait or kill:
  `spawning` counts the calls of `js_spawn` in that stretch, one nested in the other, up to
  `MaxNesting`; any other call may come in between. Each can add a process the check did not see, so
  that `AliveWithinLimit` bounds the living ones by `MaxConcurrent + MaxNesting - 1`, and by
  `MaxConcurrent` where no accessor spawns (`MaxNesting = 1`). The same bound is the size of the
  abstract table.
- Other user code inside a native call is outside the model: `js_kill` looks the record up and then
  converts the signal (1048-1058), whose `valueOf` could have it removed; accessors that somebody
  puts on `Object.prototype` are met while a report is made or a promise is settled.
- After the nested poll has freed the record `js_wait` holds, `WaitOnExit` is called on freed
  memory: the model lets it fault (`crashed`) or fail and poll again.
- `TimedOut`, `TruncatedOut` and `TruncatedErr`, which `js_wait` reads after `RemoveProcById`, still
  have their values: the default heap manager overwrites only the first words of a freed block.
- Exceptions of `NumBytesAvailable`, `Read`, `WaitOnExit` and `ExitStatus` are not modelled.
- `CtrlHandler` walks the list in one step.
- A context does not end.

### Abstract specification

`ProcessTable` is what the shim promises without threads, pipes and polls: a bounded table of
processes; ids start in order, each ends once, a deadline may be held against it until it is
reported, it is reported at most once with the verdict of that moment, and it leaves after its
end. Its size is the limit of the shim, with the nesting above. `ImplementsTable` says that SpawnShim implements it under the mapping at the end of the
module (`phase` from `child` and the list, `expired` from `timedOut`, `reported` from `report`).

### Runs

All use `MCSpawnShim`. Deadlock checking is on: `ScriptEnds` lets the system rest only when the JS
thread is outside a native call or the host is gone, so a native call that could not go on
would be reported.

| Run | Instance | Shows |
|---|---|---|
| `spawn_one` | 1 process with both pipes, writing 3 and 1 units or 5 and none, pipe and buffer 2, limit 2, fair | `TypeOK`, `OutputKept`, `DropIsMarked`, `UnlistedIsGone`, `WaitedIsReaped` |
| `spawn_two` | 2 processes, deadlines, one kind endless with a child of its own | `EndedOnce`, `TimeoutKills`, `PollCursor` |
| `spawn_limit` | 3 processes, 2 contexts (symmetric), limit 1, spawns nested to depth 2 | `AliveWithinLimit`, `PromiseStep` |
| `spawn_deadline` | 2 endless processes with deadlines, fair | `OverrunIsKilled`, `ImplementsTable` |
| `find_wait_holds_record` | 1 process without pipes | `WaitHoldsRecord` violated, see section 8 |

Bounds: `MaxSpawns` caps the ids; scripts may call everything else any number of times, since no
other action counts up. With three units on a pipe and a buffer of two, a limit of two falls
between reads, inside a read and after the data has been cut; five units overfill a pipe of two
after the limit is reached, so that the child ends only if the reader goes on reading. Two
processes are enough for the poll to remove one record while another is before or behind the
cursor, and for a poll nested in `js_wait` to remove the held one; three under a limit of one add
the reuse of a slot, and with a nesting of two a second process beside the first. In the other runs
`MaxNesting` is 1: the head of `js_spawn` is a step of its own, but nothing is spawned inside it. The
two contexts of `spawn_limit` are interchangeable, hence the symmetry. The runs that need no output have no pipes, which leaves room for the other
interleavings.

Fairness (`Fairness`): the JS thread inside a native call, each reader thread, each child that
has something to write or may end, and time go on: these are threads and processes under a
preemptive scheduler. No fairness is assumed of scripts: nothing makes a script call `SpawnPoll`,
`wait` or `kill`, and liveness is claimed only while a `js_wait` is inside the shim.

## 4. ModuleLoader and ModuleGraph

`ModuleLoader` ends where `ModuleGraph` begins: the first builds the list of a context's modules with
their requests resolved, the second takes such a graph, links it and runs it.

### ModuleLoader

`frames` is the recursion between engine and host, innermost first: for each load in progress the
specifier, the files still to try, the module made for it and the request it is at. `load_stack` is
`g_module_load_stack`, `loaded` the list `ctx->loaded_modules`, `file` the file a module was compiled
from, `NameOf` the name it was created under, `deps` what its requests were resolved to; `asked`
remembers the specifier.

| Code | Actions |
|---|---|
| `RunScriptFile`, `import()` | `EvalFile`, `Import` |
| `qjsp_module_loader`, `TryLoadFromMount`, one file of the candidates | `Compile` (found, `js_new_module_def`), `SkipFile` (missing or does not parse), `GiveUp` (none left) |
| `js_host_resolve_imported_module`, `js_find_loaded_module` | `RequireLoaded`, `RequireNew`, `Refuse` (on the load stack: circular) |
| `js_resolve_module`, `fail1`, the `finally` of the loader | `Finish`, `Freed`, `Popped` |
| reload | `Restart` |

A name is a specifier after the engine has resolved it against its requester. A file is one on disk
or the source of an archive's entry; `Called` is the name it is compiled under, which is the
specifier itself, or another one for `lib:` and `qjsp:`, a prefix of an archive and the basename
fallback. The files tried for a name, in order, are the constant `Candidates`:
`js_module_loader_wrapper` (`src/qar/qar_helpers.pas:1242-1310`) looks for the name in the registered
archives, then on disk, and then for its basename in the archives and on disk, so that several
candidates of a name may have that name (nothing is assumed of the sequence). What matters, and
is modelled, is that the engine looks for modules by the exact name of the file while the load
stack holds specifiers and compares them without regard to case (`Fold`, `TStringList.IndexOf`):
`qjsp:x` is never the name of a module, and `A.js` requested below `a.js` is refused.

Run `loader`: 120 sets of three files and an archive's entry, which is compiled as `h` and tried
before the file `h`, with requests by plain and mounted names, by the name in another case and by a
path that falls back on its basename, in cycles, shared or missing; two requests from outside (the
second meets what the first left behind, also after a failure). `WellFormed` (the load stack is the
chain of loads), `AliasesOnly`, `ListIsComplete`, `LoadEnds`. Only `f` is run as a script; the rest
is reached by requests and `import()`. `MaxMods` is 32: more modules than any of these loads makes.
Two things that look impossible are not, which is why `AliasesOnly` says no more than it does: a
name tried for the second time meets a copy that its first attempt left under an alias, so that a
copy loaded by its own name may come after others; and a name may be refused although what is being
loaded has another one, differing in case. What is left is that two copies on the list are never
both loaded by their own name, and that a cycle of modules that go by their own names is not refused.
Fairness: the load goes on, `WF(Load)`; it is one thread that waits for nothing. `Rest` lets scripts
ask for nothing more, so that deadlock checking stays on and reports a load that is stuck.

### ModuleGraph

State: the fields of `JSModuleDef` (`status`, `dfs_index`, `dfs_ancestor_index`,
`pending_async_dependencies`, `async_evaluation` and its timestamp, `async_parent_modules`,
`cycle_root`, `eval_has_exception`, the promise); the search in progress (`phase`, `entry`, `frames`,
`stack`, `index`); the reaction in progress (`work`, `exec_list`); settled module functions whose
reactions are in the job queue (`jobs`); and of each module's function how far it got (`body`).

| Code | Actions |
|---|---|
| `import()` | `Import` |
| `js_link_module`, `js_inner_module_linking` | `LinkEnter`, `LinkVisited`, `LinkDone`, `LinkFail` |
| `js_evaluate_module` | `EvaluateAgain`, `EvaluateKnown`, `EvaluateNew` |
| `js_inner_module_evaluation` | `InnerEnter`, `InnerVisited`, `InnerFail`, `InnerDone`, `InnerThrows` |
| the function of a module with top-level await | `BodySettles` |
| `js_async_module_execution_fulfilled` | `Fulfilled`, `LateReaction`, `ExecSkip`, `ExecAsync`, `ExecSync`, `ExecDone` |
| `gather_available_ancestors` | `Gather`, `GatherDone` |
| `js_async_module_execution_rejected` | `Rejected`, `Reject` |

Run `modules`: every graph of three modules in which a module requests some of the others in either
order, none to all of them awaiting (which ones does not matter once all graphs are examined), at
most one with an import nobody exports; every function may return or throw; two imports, the second
at any moment between two jobs, so also in the middle of an asynchronous evaluation. Three modules
are the fewest with a cycle that something outside requests and with two awaiting modules below one.
`WellFormed` (the asserts of the engine hold), `RunInTurn`, `OutcomesAreTrue`, `StartedInOrder`,
`ImportEnds`.

Fairness: the engine goes on, `WF(Link \/ Evaluate \/ React)`, and what a module awaits ends,
`SF(BodySettles)` per module: strong, since a settlement is possible only between two jobs and
another import may take the engine's time again. `ImportEnds` excepts imports of a module that waits
for one that has already ended (`late`); that this happens is the finding `find_evaluate_runs`.

## 5. HttpAsync

The JS thread (`js`: in a script or the loop, inside `HttpRequestAsync` before `SetEvent`, inside
`PumpHttpRequests`), the two queues, the auto-reset event, the workers (`at`, `doing`), and of every
request the runtime that made it and the fate of its promise. `pump_count` and `timer` are the
pump `net:http` of `pump.js`, `jobs` the reactions of `fetch`.

| Code | Actions |
|---|---|
| `fetch`, `HttpRequestAsync` | `Fetch` (task queued under the lock), `Signal` (`SetEvent`, after it), `FetchThrows` (throws after `acquirePump`) |
| `THttpWorkerThread.Execute` | `WorkerPop`, `WorkerWake` (event or timeout of the wait), `WorkerAnswer` |
| `PumpHttpRequests`, called by the pump's timer or by a script | `PumpHttpRequests` (takes the whole queue), `Deliver`, `DeliverStale`, `PumpRaises` |
| the reaction of `fetch`, `releasePump` | `RunJob` |
| `RunExecutionPipeline` | `LoopBegins`, `LoopEnds` |
| reload, the next daemon job | `Restart` |

A result is delivered with the context of whoever pumps. If the runtime that made the request is
gone, its resolving functions are freed memory: the outcome is undefined, and the model takes either
of two, nothing is seen of it, or an access violation that the handler around the loop turns into an
exception, with which the rest of the batch is lost.

Abstract specification: `RequestBoard` has no queues and no threads. A request is open, is answered
once, or is dropped when its runtime ends; only a runtime that left requests behind can make a
later one lose its own. `ImplementsBoard` maps `fate` and `made` to the board's `state`.

Run `http`: three requests, two workers, two runtimes, one call that throws per runtime. Two workers
are enough for both to sleep, or for one to take the wake-up of the other; three requests fill a
batch in which one stale result stands before another.

`NoLostWakeup` is about workers that all wait: then a queued task has the event set, or about to be.
It does not say that each task has a wake-up of its own, and in the code none has: two `SetEvent`
before anybody wakes leave one signal of the auto-reset event, and the second task is taken when a
worker is done with its own or when its wait of 100 ms ends.

Fairness: `WF(NativeStep)`, a native call goes on; `WF(LoopStep)`, while `looping` the event loop fires
the pump's timer and runs the reactions; WF of each worker, since requests end (WinHTTP has timeouts
of its own). Nothing makes the loop run: it does after a script, but not after a line of the REPL
(`RunExecutionPipeline(ctx, False)`), not after a job has thrown (`src/app/qjsp.pas:1779`), and a timer
that is always due keeps it from all others (`quickjs-libc.c:2415`); `LoopBegins` and `LoopEnds` may come
at any time. `FetchSettles` and `PumpStops` therefore claim an answer, or the end of the pump, only
if the loop does not stop. `timer` takes for granted that there is a `setInterval`: `pump.js` makes no
timer without, and it is `runtime/globals.js` that defines the global.

## 6. FsWatch

A watch is spread over functions of its id: `hDir` and `pending` (what the operating system has
recorded), the thread (`at`, `batch`, `emitted`), `owner` (runtime and copy of `fs.js`). `callbacks`,
`pumping`, `hooked` are the variables of a copy of `js/runtime/io/fs.js`; `draining` is the batch its
pump is at; `to_close`, `closing`, `close_step` are where `close()` is.

| Code | Actions |
|---|---|
| `watch()`, `WatchDir` | `WatchDir` (thread started), `Opened` (listed, callback entered, pump acquired; hook installed if there is a list for it, `Hooked`) |
| the watch thread | `ThreadLoop`, `ThreadCall`, `ThreadRead`, `ThreadFailed`, `ThreadEvent` (throttle, push), `ThreadEvents` |
| `PumpWatchEvents`, the pump of `fs.js` | `Pump`, `CallCallback`, `Skip`, `CallbackReturns`, `CallbackThrows`, `PumpEnds` |
| `close()`, `CloseWatch` | `Close`, `CloseCancel` (`Terminate`, `CancelIoEx`), `CloseHandle`, `CloseJoin`, `CloseUnknown` |
| `shutdown()` of `pump.js` | `Shutdown` |
| reload, the end of a daemon job | `Restart` |
| `RunExecutionPipeline` | `LoopTurns` |
| the operating system | `Change`, `ReadFails` |

One assumption is about the operating system: closing a directory's handle completes a synchronous
`ReadDirectoryChangesW` on it. `CloseEnds` rests on it; without it a close would wait for the next
change to the directory.

Run `watch`: two watches of one copy of `fs.js`, two changes, the throttle on, two runtimes. Two
watches let a callback close the other one with an event of it already in the batch; two runtimes
let a watch outlive its own. With one copy no event is taken by another copy; the disjunct of
`SeenInOrder` for it is for larger instances.

A runtime may be replaced with watches open: a daemon job ends without `shutdown()`
(`src/app/qjsp.pas:2116-2123`), a reload goes on when the module that calls it fails (5778-5791), and
`fs.js:409` installs its hook only where `globals.js` has made the list for it. `ShutdownCloses` says
what is left: where the hook was installed and has run, every watch of that copy is closed, but
for one opened afterwards. That the thread of a watch whose runtime is gone does no harm is
`WellFormed`, `SeenInOrder` and `SeenWhileOpen` of the runtimes after it.

Fairness: `WF(JsStep)` and `WF(ClosingThread)`: native calls go on, callbacks end, a thread that
`CloseWatch` waits for runs, and a loop that runs ticks the pump while it is held (`Pump` needs
`looping`). As in HttpAsync, nothing makes the loop run, and `QueuedIsSeen` excepts its stopping;
`CloseEnds` does not need it. Nothing makes directories change or scripts close.

## 7. EventLoop

One thread with its runtime. `mode` says what it was started for: a script, lines of a REPL,
jobs of a daemon, or a Worker. `driver` is the C loop it is in (`DrainPendingJobs`, `js_std_await`,
`js_std_loop`), `step` where in it, `callee` the user code that runs. `timers` is the list `os_timers`,
with the time left in ticks; `handlers`, `ports` and `rejected` are the lists of read handlers, message
ports and unhandled rejections; `queue` and `waker` the pipe from each sender and its event.

| Code | Actions |
|---|---|
| `RunScriptFile`, `RunEvalCode`, `RunDaemonJobOnce`, `worker_func` | `Evaluate`, `DaemonJob`, `EvalReturns`, `EvalThrows` |
| `JS_ExecutePendingJob` in its three loops | `PendingJob`, `JobReturns`, `JobThrows` |
| `RunExecutionPipeline`: `DrainPendingJobs`, `SpawnPoll` | `PollSpawned` (the poll may enqueue a job) |
| `js_std_promise_rejection_check` | `RejectionCheck` (may end the process) |
| `js_std_await` | `AwaitDone` |
| `js_os_poll`, `js_os_run_timers` | `RunTimer`, `PollEnds`, `PollSleeps`, `StdinCalled`, `MessageCalled`, `WaitTimesOut` |
| a callback of the poll | `CallbackReturns`, `CallbackThrows` |
| user code | `setTimeout` (also `sleepAsync`), `clearTimeout`, `EnqueueJob`, `RejectPromise`, `HandleRejection`, `SettleAwaited`, `setReadHandler`, `ReadStdin`, `set_onmessage` |
| other threads and the world | `postMessage`, `StdinSignals`, `Tick` |

User code is any sequence of the calls that change this state, within a budget (`MaxOps`), ended by
a return or a throw; jobs are not told apart. `can_js_os_poll` is not a variable: without it there
are no timers, handlers or ports. With `DebugLevel` above 0 a tracker that only logs replaces the one
of the library and lists nothing, so that a rejection is listed or not.

Run `loop`: all four modes, one sender with two messages, timers of two ticks (so that one can be due
while another while another is not), three state-changing calls of user code in all, two REPL lines or daemon jobs.
`WellFormed`, `MessagesKept`, `NothingForgotten`, `DueTimerRuns`, `MessageHandled`, `LoopEnds`.
Deadlock checking is off: the process ends, and a thread may wait for messages that are never sent.

Fairness: `WF(HostStep)`, the thread runs and the user code it calls returns or throws; `WF(Tick)`, time
passes. Nobody has to post messages or type. The liveness properties claim no more than the order of
service gives: one timer is called per poll, from the head of the list, so that a repeating timer may
starve those behind it (`DueTimerRuns`) and the messages (`MessageHandled`), and a read handler on
stdin takes the place of the messages.

## 8. What documents and comments say and the code does not do

Three runs are expected to be violated:

| Run | Statement | What happens |
|---|---|---|
| `find_wait_holds_record` | `qdocs/04_internals/project-implementation-plan.md:221`: `waitSync` returns its result | the poll nested in `js_wait` removes the process `js_wait` waits for, which goes on with the freed record (`src/modules/qjsp_spawn_shim.pas:1111`) |
| `find_evaluate_runs` | `quickjs.c:29498`: the functions of the module and of all it requests are run, a promise or an exception is returned | a module that ended by way of the asynchronous path keeps `async_evaluation`; one that requests it later waits for ever (`quickjs.c:29322`) |
| `find_freed_dependency` | `quickjs.c:35110`, a comment of the engine that asks for the opposite | a module that refers back to one whose load failed stays on the list with a pointer to freed memory (`quickjs.c:35112`) |

### Known disagreements

Met while modelling; each is visible in the model, and none has a run of its own. The plan is
`qdocs/04_internals/project-implementation-plan.md`.

| Place | What happens |
|---|---|
| `src/modules/qjsp_spawn_shim.pas:1278` | The report of `waitAsync` is made before the readers are joined, and what they hold or have queued is discarded by the removal (541): output is neither shown nor marked as truncated (plan, lines 43 and 229). |
| `src/modules/qjsp_spawn_shim.pas:1015` | A child's child started before the job assignment escapes the kill (plan, line 202). |
| `src/modules/qjsp_spawn_shim.pas:1157` | A `waitAsync` promise is dropped when another context polls or asks, or `waitSync` comes first (plan, line 44). |
| `src/modules/qjsp_spawn_shim.pas:1220` | A process that ended in time is reported as timed out when it is polled late; one that overran is not when `js_wait` sees the exit first (plan, line 217). |
| `src/app/qjsp.pas:1782` | `SpawnPoll` runs once, before the event loop: deadlines and `waitAsync` promises of processes that still run then are served only if somebody calls `waitSync`. |
| `quickjs-libc.c:2619` | `js_os_poll` calls the handler of stdin whichever handle was signalled: while there is one, messages of workers wait (`quickjs-orgin/docs/docs/stdlib.md:327`: `onmessage` is called each time a message is received). |
| `quickjs-libc.c:4581` | `js_std_await` polls after every job and may block while other jobs are pending that would settle the promise (comment at 4551). |
| `quickjs-libc.c:2637` | With only a handler that is not on stdin the poll sleeps for ever. |
| `quickjs-libc.c:4567` | `js_std_await` reports a rejection but leaves it on the list; a later check ends the process for it. |
| `js/runtime/io/fs.js:398` | Each importer of `qjsp:io/fs.js` has callbacks of its own, but all drain one queue: a copy takes events of another. |
| `js/runtime/io/fs.js:409` | The shutdown hook is installed once per copy, and only after `globals.js`: a watch opened after `shutdown()`, or without the list of callbacks, outlives the reload. |
| `src/app/qjsp.pas:2116`, `src/app/qjsp.pas:5778` | A daemon job frees its runtime without `shutdown()`, and a reload goes on when its shutdown module fails: watches with their threads outlive the runtime. |
| `src/modules/qjsp_spawn_shim.pas:712` | The limit is not looked at again after the accessors of the arguments have run: a `spawn` inside an accessor starts one process more than `max_concurrent`. |
| `src/app/qjsp_module_loader.pas:135` | The load stack ignores case: a module requested below one whose name differs from its own only in case is called circular. |
| `src/net/http_async_helpers.pas:1028`, `js/runtime/net/fetch.js:64` | An exception in the middle of a batch loses the results behind it; a call of `HttpRequestAsync` that throws leaves the pump acquired, so that the program does not end. |

## 9. Proofs

Each component has a module of proofs that extends it; TLAPS checks every theorem for all values
of the constants, from the assumption the component's module names (`SpawnAssumption`,
`LoopAssumption`, ...) and nothing else. The argument is the same everywhere: an inductive
invariant, first checked by TLC on the instance of a run, with `Init => IInv` and
`IInv /\ [Next]_vars => IInv'`, one lemma or step per action and below it one step per conjunct the
action can disturb. What follows says what the invariants need beyond what they are to show.

`DataLemmas` has what the proofs keep needing of lists and sets: deleting at a position
(`RemoveAtFacts`, `RemoveAtPlaces`), appending, first and last elements, the number of entries of a
list that are in a set (`Entries`: `AppendedEntry`, `DroppedHead`), replacing the head of a stack
(`HeadReplaced`, `HeadAdded`, `HeadDropped`), and least and greatest elements. The library's
induction theorems take an operator, which no installed prover can instantiate; `Induction` and
`SubsetInduction` say the same of a set, and so can be used.

| Module | Theorems |
|---|---|
| `SpawnShimProofs` | `TypeCorrect` (`TypeOK`), `CursorIsSafe` (`PollCursor`), `LimitHolds` (`AliveWithinLimit`) |
| `SpawnRecordProofs` | `DropsAreMarked` (`DropIsMarked`), `TimeoutIsFinal` (`TimeoutKills`), `RemovedIsGone` (`UnlistedIsGone`), `EachEndsOnce` (`EndedOnce`), `PromisesMove` (`PromiseStep`), `TableImplemented` (`ImplementsTable`), `OutputIsKept` (`OutputKept`) |
| `EventLoopProofs` | `TimersWellFormed` (`WellFormed`), `MessagesAreKept` (`MessagesKept`), `NothingIsForgotten` (`NothingForgotten`) |
| `HttpAsyncProofs` | `RequestsWellFormed` (`WellFormed`), `NoWakeupIsLost` (`NoLostWakeup`), `PumpIsCounted` (`PumpCountsFetches`), `BoardImplemented` (`ImplementsBoard`) |
| `FsWatchProofs` | `WatchesWellFormed` (`WellFormed`), `ChangesAreSeenInOrder` (`SeenInOrder`), `PumpIsHeld` (`PumpWhileWatching`), `SeenOnlyWhileOpen` (`SeenWhileOpen`), `ShutdownClosesAll` (`ShutdownCloses`) |
| `ModuleLoaderProofs` | `LoadsWellFormed` (`WellFormed`), `OnlyAliasesRepeat` (`AliasesOnly`), `OnlyCyclesAreLeft` (`ListIsComplete`) |
| `ModuleGraphProofs` | `StackIsSearch` (`SearchIsStack`), `GraphWellFormed` (`WellFormed`), `EachRunsOnce` (`RunOnce`), `OrderIsKept` (`StartedInOrder`), `RequestsRunInTurn` (`RunInTurn`), `OutcomesAreTold` (`OutcomesAreTrue`) |

**SpawnShim, the list.** `TypeOK` is not inductive by itself: `PollNext` computes `idx - 1`, a
natural number only because the cursor is positive in a record (`PollCursor`), and the records
indexed by `main.cur` and `main.held` exist only because of where the thread is (`Locals`).
`PollCursor` in turn needs that `RemoveProcById` takes out exactly the entry under the cursor, hence
that ids occur once (`ListKeepsAlive`). The limit needs the other half of `ListKeepsAlive`: a
process that has not ended is listed, since removal starts only after its exit. `ListWithinLimit`
bounds the list together with the calls of `js_spawn` that have passed the check, and a surjection from its positions onto the living processes gives their number.

**SpawnShim, the records.** `RInv` is inductive next to `IInv`. `Current` ties the process a native
call works on to the list, `OutJoined` says that the first reader is gone when the second is joined,
`Charged` that no more than the limit is charged, `Jobs` that a new process has not timed out,
`Reports` that a listed process was reported only in the poll that is removing it: otherwise nothing
would keep a later poll from reporting again. The refinement follows: each action changes
the mapped `phase`, `expired` and `reported` as an action of `ProcessTable` does, or not at all.
`OutputKept` rests on `PipeInv`: what was shown, the chunks of the kind in the queue and the chunk in
the reader's hands follow each other without a gap and end at `total`, the output charged to the
limit, and nothing read after the first dropped unit is let through (`DropIsMarked`). `EndsAt` says
where each place of the queue stands by the last chunk of the kind before it, so that pushing, popping
and freeing are three lemmas about one position and no induction over the queue.

**EventLoop.** Ids of timers are used once (`TimerIds`, with the one-shot timer whose function runs
and which is no longer in the list), no message is handled before it was posted (`PostedFirst`), and
only lines of the REPL stop before the event loop (`GoesOn`, for `NothingForgotten`).

**HttpAsync.** That a pending request is in exactly one place is a sum of cardinalities over two
queues, the batch and the workers, which each action changes by one in two of its terms. `Numbered`
and `Reactions` say that ids are handed out in order and that a reaction stands for an answered
request of this runtime that still holds the pump.

**FsWatch.** A change is on its way from the operating system to the thread's batch, the queue and the
batch being drained; `Placed` says that it is in the hands of its own watch until it is queued,
`Sorted` and `InLine` that each place has earlier changes first and places further on have earlier
ones, `Accounted` that no change of a watch with a callback is missing without one of the three
reasons. `Registered`, `Pumped` and `Hooked` relate the maps of `fs.js` to the list of watches while
one is being opened or closed (`OneAtATime`).

**ModuleLoader.** `AliasesOnly` rests on `Sole`: no two loads in progress are of the same name, since
the loader refuses a name on its stack, and the module a load compiles is the only one on the list that
was loaded by that name and has it, since the engine asked the loader only because it found none. So
nothing needs to be assumed of the candidates, nor of which names are the same but for case. `ListIsComplete` needs
that the file of a load in progress leads to that of every load above it, and that who refers to a
module still being compiled is in a cycle with it (`LeadsDown`, `Tied`). "Leads to" (and `Reachable`
in ModuleGraph) is the least set closed under requests, stated as what is in every such set; so a
proof that something is reached needs no induction, and one that everything reached has some
property gives a closed set.

**ModuleGraph.** `SearchInv` is about the depth-first search that links and the one that evaluates:
the stack is in the order of the indices, the recursion is on it, each module of it is at the request
for the next (`Rooted`, `Ordered`, `Nested`, `Phases`, `Kinds`). `AsyncInv` is about what the search
leaves behind and the reactions then use, and no conjunct of it is inductive alone:

- who is in a list of parents waits, for a module entered earlier, has not run, and is being
  evaluated or has failed (`Asked`, `StackParents`, `Waiting`, `InOrder`); a failure reaches all of
  them (`Spread`, `FailedOnly`);
- how far a function has got follows from the module's status (`Fresh`, `Bodies`, `Runs`), with
  timestamps given once (`Stamps`) and reactions only for functions that have ended (`Ended`);
- nobody waits for fewer modules than are still to be counted down: `pending_async_dependencies` is
  at least the number of entries for the module in the lists of all that still count (`Counted`,
  `Owed`). With `Listed` and `Worked` this is why `gather_available_ancestors` never counts below
  zero, and why what it lists waits for nothing;
- the members of a component are connected by such lists towards the root of the component
  (`Hanging` while the search is at it, `Chained` afterwards): so no member of it is still waiting
  when the root completes. `NextIsFree` then says that what is executed next waits for nobody, which
  is what running once and in the order of the timestamps needs.

`OutcomeInv`, inductive next to these two, relates them to what is reachable in the graph:

- while modules are evaluated, what is in the recursion reaches all that was entered after it, and
  everything on the stack leads back to the recursion (`Paths`): hence what closes as one component
  is a cycle (`Cycles`, unless it failed together, when everything on the stack is given one root);
- a request that has been visited left a trace (`SeenBy`): its module is on the stack no lower than
  the requester reaches, is in the requester's component, or the requester is in the list of parents
  of its root or found that root evaluated (`Known`). `Visited` says so of all requests of a module
  that has been left, `VisitedFrames` of those before the one a module of the recursion is at;
- so, when the root of a component has run and waits for nobody, the members of the component and
  what is complete below them form a set closed under requests (`DoneRoot` in the search,
  `CompleteRoot` in a reaction): all that the root reaches has run (`RootsTrue`), and whoever
  is started has everything below its requests complete, but for those that lead back
  (`RequestsRunFirst`);
- what fails reaches a module that threw (`Blames`), what threw has failed or is about to
  (`Throws`), and a promise is settled as the root it belongs to (`Promised`). `OutcomesAreTold`
  follows: where no root has failed, the evaluated modules are closed under requests, and none of
  them threw.

Only model-checked is liveness: fairness and `ENABLED` are out of the prover's reach.

## 10. Not modelled

Of the parts above:

- spawn shim: the parsing of arguments, the directory and environment restrictions (of them the
  model has that they run user code and whether the call is refused), the text of the audit entry, and the race of the console control
  handler with the list it walks;
- HTTP: the request itself (WinHTTP, redirects, host policy), the synchronous fallback;
- files: the other functions of `fs.js`, the allowed roots, decoding of the native records;
- pump: several pumps with different intervals, the error hook;
- pipeline and event loop: Promise reactions (jobs are counted, not told apart), signal and write
  handlers, `exec` and pipes of `quickjs-libc`, the composition with SpawnShim;
- loader: reading of files and archives, composition of path names; entries of archives that are
  bytecode, which the loader reads and resolves in passes of its own: archives are those with source;
- linking: names of exports and namespace objects (an import that cannot be resolved is a constant).

And as a whole: QAR archives, whose order of verification is planned; the REPL's other commands and
the configuration; the DLL, synchronous HTTP, zip and compression wrappers, sequential and without
state of interest; cryptographic arithmetic, out of a model checker's reach; the JavaScript libraries
and the shell; and the rest of the engine: parser, interpreter, collector, regular expressions,
Unicode tables, a third-party program of its own.
