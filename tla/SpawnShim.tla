------------------------------ MODULE SpawnShim ------------------------------
(***************************************************************************)
(* The spawn shim, modules/qjsp_spawn_shim.pas: child processes, one       *)
(* reader thread per output pipe, and the JS thread that starts, polls,    *)
(* waits for, kills and removes them.  The JS thread is sequential: its    *)
(* place inside a native call is main.pc, and every step of such a call    *)
(* that another thread can observe is an action of its own.                *)
(* An operator X_Y is X with a plausible mistake, which a property detects.*)
(***************************************************************************)
EXTENDS Integers, Sequences, FiniteSets, SequencesExt

CONSTANTS
    MaxSpawns,     \* bound: ids handed out by g_next_id
    Contexts,      \* the JS contexts that call the shim
    NoContext,     \* WaitAttachedCtx = nil
    MaxConcurrent, \* g_spawn_max_concurrent, 0 for no limit
    MaxNesting,    \* how deep js_spawn nests: 1 unless its arguments spawn
    PipeCap,       \* units of output an OS pipe holds
    ReadSize,      \* length of the reader's buffer, in units of output
    Options,       \* what the scripts ask for: see OptionType
    Programs       \* what the children do: see ProgramType

Kinds == {"out", "err"}
Ids   == 1 .. MaxSpawns
NoId  == 0

(* streams: the pipes the host reads (none with inheritStdio, stdout only with
   mergeStderr); limit: MaxOutputBytes, 0 for none; timed: TimeoutMs > 0.     *)
OptionType  == [streams : SUBSET Kinds, limit : Nat, timed : BOOLEAN]
(* writes: output per pipe; endless: does not end by itself; forks: starts a
   child of its own that outlives it.                                        *)
ProgramType == [writes : [Kinds -> Nat], endless : BOOLEAN, forks : BOOLEAN]

ASSUME SpawnAssumption ==
    /\ MaxSpawns \in Nat
    /\ NoContext \notin Contexts
    /\ MaxConcurrent \in Nat
    /\ MaxNesting \in Nat \ {0}
    /\ PipeCap \in Nat \ {0}
    /\ ReadSize \in Nat \ {0}
    /\ Options \subseteq OptionType
    /\ Programs \subseteq ProgramType

VARIABLES
    \* g_procs and g_next_id; calls of js_spawn on the stack past their check
    g_procs, g_next_id, spawning,
    \* the fields of TSpawnProcRec, by id
    opts, job, timedOut, killed, total, truncated, chunks, waiter,
    \* the reader threads: where they are, what they hold, Terminated
    reader, quit,
    \* the operating system: the child, its deadline, its pipes, its own child
    child, program, deadline, wrote, taken, kid,
    \* the JS thread
    main,
    \* the JS side: promises of waitAsync, what wait and waitAsync reported
    promise, report,
    \* history: output the host wrote, audit log entries
    shown, audited

hostVars   == <<g_procs, g_next_id, spawning, opts>>
flagVars   == <<job, timedOut, killed>>
outputVars == <<total, truncated, chunks>>
threadVars == <<reader, quit>>
pipeVars   == <<wrote, taken>>
osVars     == <<child, program, deadline, kid>>
jsVars     == <<waiter, promise, report>>
vars == <<hostVars, flagVars, outputVars, threadVars, pipeVars, osVars,
          jsVars, main, shown, audited>>

Listed     == Range(g_procs)
Exited(id) == child[id] = "exited"
At(pc)     == [pc |-> pc, from |-> 0, len |-> 0]  \* a reader holding nothing
NoReport   == [made |-> 0, timedOut |-> FALSE, truncated |-> FALSE]
InJs       == [pc |-> "js", ctx |-> NoContext, idx |-> 0, cur |-> NoId,
               held |-> NoId]
Smaller(a, b) == IF a < b THEN a ELSE b

Init ==
    /\ g_procs = <<>>
    /\ g_next_id = 1
    /\ spawning = 0
    /\ opts = [id \in Ids |-> [streams |-> {}, limit |-> 0, timed |-> FALSE]]
    /\ job = [id \in Ids |-> FALSE]
    /\ timedOut = [id \in Ids |-> FALSE]
    /\ killed = [id \in Ids |-> FALSE]
    /\ total = [id \in Ids |-> [k \in Kinds |-> 0]]
    /\ truncated = [id \in Ids |-> [k \in Kinds |-> FALSE]]
    /\ chunks = [id \in Ids |-> <<>>]
    /\ waiter = [id \in Ids |-> NoContext]
    /\ reader = [id \in Ids |-> [k \in Kinds |-> At("none")]]
    /\ quit = [id \in Ids |-> [k \in Kinds |-> FALSE]]
    /\ child = [id \in Ids |-> "none"]
    /\ program = [id \in Ids |-> [writes |-> [k \in Kinds |-> 0],
                                  endless |-> FALSE, forks |-> FALSE]]
    /\ deadline = [id \in Ids |-> "none"]
    /\ wrote = [id \in Ids |-> [k \in Kinds |-> 0]]
    /\ taken = [id \in Ids |-> [k \in Kinds |-> 0]]
    /\ kid = [id \in Ids |-> "none"]
    /\ main = InJs
    /\ promise = [id \in Ids |-> [c \in Contexts |-> "none"]]
    /\ report = [id \in Ids |-> NoReport]
    /\ shown = [id \in Ids |-> [k \in Kinds |-> 0]]
    /\ audited = [id \in Ids |-> 0]

(***************************************************************************)
(* The operating system.  A process told to terminate is "doomed" until    *)
(* its handle is signalled; only then does WaitOnExit see it.              *)
(***************************************************************************)
Pending(id, k) == wrote[id][k] - taken[id][k]

ChildWrite(id, k) ==
    /\ child[id] = "running"
    /\ k \in opts[id].streams
    /\ wrote[id][k] < program[id].writes[k]
    /\ Pending(id, k) < PipeCap
    /\ wrote' = [wrote EXCEPT ![id][k] = @ + 1]
    /\ UNCHANGED <<hostVars, flagVars, outputVars, threadVars, taken, osVars,
                   jsVars, main, shown, audited>>

\* A child made after the assignment to the job belongs to the job.
ChildForks(id) ==
    /\ child[id] = "running"
    /\ program[id].forks
    /\ kid[id] = "none"
    /\ kid' = [kid EXCEPT ![id] = IF job[id] THEN "inJob" ELSE "outside"]
    /\ UNCHANGED <<hostVars, flagVars, outputVars, threadVars, pipeVars, child,
                   program, deadline, jsVars, main, shown, audited>>

ChildExit(id) ==
    /\ \/ child[id] = "doomed"
       \/ /\ child[id] = "running"
          /\ ~program[id].endless
          /\ \A k \in opts[id].streams : wrote[id][k] = program[id].writes[k]
    /\ child' = [child EXCEPT ![id] = "exited"]
    /\ UNCHANGED <<hostVars, flagVars, outputVars, threadVars, pipeVars,
                   program, deadline, kid, jsVars, main, shown, audited>>

\* GetTickCount64 - StartTick reaches TimeoutMs.
DeadlinePasses(id) ==
    /\ id \in Listed
    /\ deadline[id] = "ahead"
    /\ deadline' = [deadline EXCEPT ![id] =
                      IF Exited(id) THEN "passed" ELSE "overran"]
    /\ UNCHANGED <<hostVars, flagVars, outputVars, threadVars, pipeVars, child,
                   program, kid, jsVars, main, shown, audited>>

\* Console Ctrl+C: the handler sends a break or a soft taskkill to every listed
\* process, which some of them obey.
CtrlHandler ==
    \E S \in SUBSET {id \in Listed : child[id] = "running"} :
        /\ S # {}
        /\ child' = [id \in Ids |-> IF id \in S THEN "doomed" ELSE child[id]]
        /\ UNCHANGED <<hostVars, flagVars, outputVars, threadVars, pipeVars,
                       program, deadline, kid, jsVars, main, shown, audited>>

(***************************************************************************)
(* TSpawnReaderThread.Execute.                                             *)
(***************************************************************************)
Live(id, k) == reader[id][k].pc \in {"top", "idle", "read", "push"}

ReaderProbe(id, k) ==
    /\ reader[id][k].pc = "top"
    /\ reader' = [reader EXCEPT ![id][k] =
                    At(IF quit[id][k] THEN "done"
                       ELSE IF Pending(id, k) > 0 THEN "read" ELSE "idle")]
    /\ UNCHANGED <<hostVars, flagVars, outputVars, quit, pipeVars, osVars,
                   jsVars, main, shown, audited>>

\* The pipe was empty at the probe: leave if the process has exited by now.
ReaderIdle(id, k) ==
    /\ reader[id][k].pc = "idle"
    /\ reader' = [reader EXCEPT ![id][k] =
                    At(IF Exited(id) THEN "done" ELSE "top")]
    /\ UNCHANGED <<hostVars, flagVars, outputVars, quit, pipeVars, osVars,
                   jsVars, main, shown, audited>>

\* allow_n: how much of a read of n units the limit lets through.
Allowed(id, k, n) ==
    IF opts[id].limit = 0 THEN n
    ELSE IF truncated[id][k] \/ total[id][k] >= opts[id].limit THEN 0
    ELSE Smaller(n, opts[id].limit - total[id][k])

ReadLen_FullBuffer(id, k) == ReadSize
ReadLen_StopsAtLimit(id, k) ==
    IF opts[id].limit > 0 /\ total[id][k] >= opts[id].limit THEN 0
    ELSE Smaller(Pending(id, k), ReadSize)

\* Read(tmp[0], Length(tmp)): what is there, up to the buffer's length.
ReadLen(id, k) == Smaller(Pending(id, k), ReadSize)

Cut_OnlyWhenEmpty(a, n) == a = 0

\* The limit did not let the whole read through.
Cut(a, n) == a < n

\* Read what is there and charge it to the limit, under the record's lock.
ReaderRead(id, k) ==
    LET n == ReadLen(id, k)
        a == Allowed(id, k, n)
    IN  /\ reader[id][k].pc = "read"
        /\ taken' = [taken EXCEPT ![id][k] = @ + n]
        /\ total' = [total EXCEPT ![id][k] = @ + a]
        /\ truncated' = [truncated EXCEPT ![id][k] = @ \/ Cut(a, n)]
        /\ reader' = [reader EXCEPT ![id][k] =
                        IF a > 0
                        THEN [pc |-> "push", from |-> taken[id][k], len |-> a]
                        ELSE At("top")]
        /\ UNCHANGED <<hostVars, flagVars, chunks, quit, wrote, osVars,
                       jsVars, main, shown, audited>>

\* PushChunk: the lock is taken a second time.
ReaderPush(id, k) ==
    /\ reader[id][k].pc = "push"
    /\ chunks' = [chunks EXCEPT ![id] =
                    Append(@, [kind |-> k, from |-> reader[id][k].from,
                               len |-> reader[id][k].len])]
    /\ reader' = [reader EXCEPT ![id][k] = At("top")]
    /\ UNCHANGED <<hostVars, flagVars, total, truncated, quit, pipeVars,
                   osVars, jsVars, main, shown, audited>>

(***************************************************************************)
(* js_spawn checks the limit, then reads its arguments: their getters and  *)
(* toString methods are scripts, which may call the shim again, js_spawn   *)
(* included.  Only after them does it run the child and list the record;   *)
(* the child runs before it has a job.                                     *)
(***************************************************************************)
BelowLimit_OffByOne == MaxConcurrent > 0 => Len(g_procs) <= MaxConcurrent

BelowLimit == MaxConcurrent > 0 => Len(g_procs) < MaxConcurrent

\* The head of js_spawn: a call the policy or the limit refuses changes nothing.
SpawnCheck ==
    /\ main.pc = "js"
    /\ BelowLimit
    /\ spawning < MaxNesting
    /\ g_next_id + spawning \in Ids \* bound: a call that could not be followed up
    /\ spawning' = spawning + 1
    /\ UNCHANGED <<g_procs, g_next_id, opts, flagVars, outputVars, threadVars,
                   pipeVars, osVars, jsVars, main, shown, audited>>

\* An argument is no good or its accessor throws, or Execute fails.
SpawnRefused ==
    /\ main.pc = "js"
    /\ spawning > 0
    /\ spawning' = spawning - 1
    /\ UNCHANGED <<g_procs, g_next_id, opts, flagVars, outputVars, threadVars,
                   pipeVars, osVars, jsVars, main, shown, audited>>

\* The arguments of the innermost call are read; the limit is not looked at again.
js_spawn ==
    /\ main.pc = "js"
    /\ spawning > 0
    /\ g_next_id \in Ids
    /\ \E o \in Options, p \in Programs :
        /\ opts' = [opts EXCEPT ![g_next_id] = o]
        /\ program' = [program EXCEPT ![g_next_id] = p]
        /\ deadline' = [deadline EXCEPT ![g_next_id] =
                          IF o.timed THEN "ahead" ELSE "none"]
        /\ reader' = [reader EXCEPT ![g_next_id] =
                        [k \in Kinds |->
                           At(IF k \in o.streams THEN "top" ELSE "none")]]
    /\ child' = [child EXCEPT ![g_next_id] = "running"]
    /\ g_procs' = Append(g_procs, g_next_id)
    /\ g_next_id' = g_next_id + 1
    /\ spawning' = spawning - 1
    /\ main' = [main EXCEPT !.pc = "assign", !.cur = g_next_id]
    /\ UNCHANGED <<flagVars, outputVars, quit, pipeVars, kid, jsVars, shown,
                   audited>>

\* Creating a kill-on-close job and assigning the child to it: either may fail, and
\* a process that has exited is assigned to none.
JobAssigned(id) == IF Exited(id) THEN {FALSE} ELSE BOOLEAN

\* The tail of js_spawn; without a job Job stays 0.
AssignJob ==
    /\ main.pc = "assign"
    /\ \E ok \in JobAssigned(main.cur) : job' = [job EXCEPT ![main.cur] = ok]
    /\ main' = InJs
    /\ UNCHANGED <<hostVars, timedOut, killed, outputVars, threadVars, pipeVars,
                   osVars, jsVars, shown, audited>>

\* Closing the job kills what is in it.  Without a job taskkill /T runs as another
\* process: whether it still finds the child's child is up to the scheduler.
KidsAfterKill(id) ==
    IF job[id] THEN {IF kid[id] = "inJob" THEN "gone" ELSE kid[id]}
    ELSE {kid[id]} \union (IF kid[id] = "outside" THEN {"gone"} ELSE {})

Doom_Ignored(id) == child[id]

Doom(id) == IF child[id] = "running" THEN "doomed" ELSE child[id]

\* js_kill: with a job any signal kills; without, only 9 and 15 terminate, and a
\* break or a soft taskkill may be ignored.
js_kill(id, sig) ==
    /\ main.pc = "js"
    /\ id \in Listed
    /\ killed' = [killed EXCEPT ![id] = TRUE]
    /\ \E fate \in IF job[id] \/ sig \in {9, 15} THEN {Doom(id)}
                   ELSE {Doom(id), child[id]} :
           child' = [child EXCEPT ![id] = fate]
    /\ \E fate \in KidsAfterKill(id) : kid' = [kid EXCEPT ![id] = fate]
    /\ job' = [job EXCEPT ![id] = FALSE]
    /\ UNCHANGED <<hostVars, timedOut, outputVars, threadVars, pipeVars,
                   program, deadline, jsVars, main, shown, audited>>

\* js_wait_async: the same context gets its promise again; another context
\* replaces the promise, whose functions are freed.
js_wait_async(c, id) ==
    /\ main.pc = "js"
    /\ id \in Listed
    /\ waiter[id] # c
    /\ waiter' = [waiter EXCEPT ![id] = c]
    /\ promise' = [promise EXCEPT ![id] =
                     [d \in Contexts |-> IF d = c THEN "pending"
                                         ELSE IF d = waiter[id] THEN "dropped"
                                         ELSE promise[id][d]]]
    /\ UNCHANGED <<hostVars, flagVars, outputVars, threadVars, pipeVars, osVars,
                   report, main, shown, audited>>

(***************************************************************************)
(* RemoveProcById, from the audit entry on.                                *)
(***************************************************************************)
AuditSpawn(id) == audited' = [audited EXCEPT ![id] = @ + 1]

\* idx is 0 when js_wait calls it and the position in g_procs when SpawnPoll does.
BeginRemove(id, idx) ==
    /\ AuditSpawn(id)
    /\ quit' = [quit EXCEPT ![id]["out"] = TRUE]
    /\ main' = [main EXCEPT !.pc = "joinOut", !.cur = id, !.idx = idx]

Joined_NoWait(id, k) == TRUE

\* WaitFor returns at once for a missing thread, else when it has ended.
Joined(id, k) == ~Live(id, k)

\* OutThread.WaitFor, then ErrThread.Terminate.
JoinOut ==
    /\ main.pc = "joinOut"
    /\ Joined(main.cur, "out")
    /\ quit' = [quit EXCEPT ![main.cur]["err"] = TRUE]
    /\ main' = [main EXCEPT !.pc = "joinErr"]
    /\ UNCHANGED <<hostVars, flagVars, outputVars, reader, pipeVars, osVars,
                   jsVars, shown, audited>>

MakeReport(id) ==
    [made |-> report[id].made + 1, timedOut |-> timedOut[id],
     truncated |-> \E k \in Kinds : truncated[id][k]]

Unlist_First(n) == RemoveAt(g_procs, 1)

\* g_procs.Delete(i)
Unlist(n) == RemoveAt(g_procs, n)

NextIdx_Stays(i) == i

\* for i := ... downto 0, one position on
NextIdx(i) == i - 1

\* ErrThread.WaitFor, then the rest: chunks and promise are freed, the job is
\* closed, the record leaves g_procs.  js_wait then builds its result.
JoinErr ==
    LET id == main.cur
    IN  /\ main.pc = "joinErr"
        /\ Joined(id, "err")
        /\ chunks' = [chunks EXCEPT ![id] = <<>>]
        /\ promise' = [promise EXCEPT ![id] =
                         [c \in Contexts |->
                            IF c = waiter[id] /\ promise[id][c] = "pending"
                            THEN "dropped" ELSE promise[id][c]]]
        /\ waiter' = [waiter EXCEPT ![id] = NoContext]
        /\ job' = [job EXCEPT ![id] = FALSE]
        /\ kid' = [kid EXCEPT ![id] = IF job[id] /\ @ = "inJob" THEN "gone" ELSE @]
        /\ \E n \in DOMAIN g_procs : /\ g_procs[n] = id
                                     /\ g_procs' = Unlist(n)
        /\ IF main.idx = 0
           THEN /\ report' = [report EXCEPT ![id] = MakeReport(id)]
                /\ main' = InJs
           ELSE /\ UNCHANGED report
                /\ main' = [main EXCEPT !.pc = "poll", !.cur = NoId,
                                        !.idx = NextIdx(@)]
        /\ UNCHANGED <<g_next_id, spawning, opts, timedOut, killed, total, truncated,
                       threadVars, pipeVars, child, program, deadline, shown,
                       audited>>

(***************************************************************************)
(* SpawnPoll, called with the context of the pipeline or of js_wait; the   *)
(* pipeline calls it between scripts, never inside a call of js_spawn.     *)
(***************************************************************************)
SpawnPoll(c) ==
    /\ main.pc = "js"
    /\ spawning = 0
    /\ g_procs # <<>>
    /\ main' = [main EXCEPT !.pc = "poll", !.ctx = c, !.idx = Len(g_procs)]
    /\ UNCHANGED <<hostVars, flagVars, outputVars, threadVars, pipeVars, osVars,
                   jsVars, shown, audited>>

TimeoutDue_OnlyHeld(id) ==
    /\ main.held \in {NoId, id}
    /\ deadline[id] \in {"passed", "overran"} /\ ~timedOut[id]

TimeoutDue(id) == deadline[id] \in {"passed", "overran"} /\ ~timedOut[id]

\* The deadline comes first, whether or not the process has exited.
PollTimeout ==
    /\ main.pc = "poll"
    /\ main.idx > 0
    /\ LET id == g_procs[main.idx]
       IN  /\ main' = [main EXCEPT !.pc = "drain", !.cur = id]
           /\ IF TimeoutDue(id)
              THEN /\ timedOut' = [timedOut EXCEPT ![id] = TRUE]
                   /\ child' = [child EXCEPT ![id] = Doom(id)]
                   /\ \E fate \in KidsAfterKill(id) :
                          kid' = [kid EXCEPT ![id] = fate]
                   /\ job' = [job EXCEPT ![id] = FALSE]
              ELSE UNCHANGED <<timedOut, child, kid, job>>
    /\ UNCHANGED <<hostVars, killed, outputVars, threadVars, pipeVars, program,
                   deadline, jsVars, shown, audited>>

PopChunk_Last(q) == [head |-> Last(q), rest |-> Front(q)]

PopChunk(q) == [head |-> Head(q), rest |-> Tail(q)]

\* WriteBytesToStdOut, WriteBytesToStdErr
WriteBytes(id, ch) == shown' = [shown EXCEPT ![id][ch.kind] = @ + ch.len]

\* PopChunk and the write to the host's own output.
PollDrain ==
    LET id == main.cur
    IN  /\ main.pc = "drain"
        /\ chunks[id] # <<>>
        /\ WriteBytes(id, PopChunk(chunks[id]).head)
        /\ chunks' = [chunks EXCEPT ![id] = PopChunk(@).rest]
        /\ UNCHANGED <<hostVars, flagVars, total, truncated, threadVars,
                       pipeVars, osVars, jsVars, main, audited>>

\* PopChunk found nothing: on to WaitOnExit(0).
PollDrained ==
    /\ main.pc = "drain"
    /\ chunks[main.cur] = <<>>
    /\ main' = [main EXCEPT !.pc = "exitq"]
    /\ UNCHANGED <<hostVars, flagVars, outputVars, threadVars, pipeVars, osVars,
                   jsVars, shown, audited>>

Settle_AnyContext(c, id) ==
    IF waiter[id] # NoContext
    THEN /\ promise' = [promise EXCEPT ![id][c] = "settled"]
         /\ report' = [report EXCEPT ![id] = MakeReport(id)]
    ELSE UNCHANGED <<promise, report>>

\* The promise of the polling context, and of no other, is resolved.
Settle(c, id) ==
    IF waiter[id] = c
    THEN /\ promise' = [promise EXCEPT ![id][c] = "settled"]
         /\ report' = [report EXCEPT ![id] = MakeReport(id)]
    ELSE UNCHANGED <<promise, report>>

PollReap ==
    /\ main.pc = "exitq"
    /\ Exited(main.cur)
    /\ Settle(main.ctx, main.cur)
    /\ BeginRemove(main.cur, main.idx)
    /\ UNCHANGED <<hostVars, flagVars, outputVars, reader, pipeVars, osVars,
                   waiter, shown>>

PollNext ==
    /\ main.pc = "exitq"
    /\ ~Exited(main.cur)
    /\ main' = [main EXCEPT !.pc = "poll", !.cur = NoId, !.idx = NextIdx(@)]
    /\ UNCHANGED <<hostVars, flagVars, outputVars, threadVars, pipeVars, osVars,
                   jsVars, shown, audited>>

PollReturn ==
    /\ main.pc = "poll"
    /\ main.idx = 0
    /\ main' = IF main.held = NoId THEN InJs ELSE [main EXCEPT !.pc = "waiting"]
    /\ UNCHANGED <<hostVars, flagVars, outputVars, threadVars, pipeVars, osVars,
                   jsVars, shown, audited>>

(***************************************************************************)
(* js_wait: SpawnPoll until the held process has exited, then remove it.   *)
(***************************************************************************)
js_wait(c, id) ==
    /\ main.pc = "js"
    /\ id \in Listed
    /\ main' = [main EXCEPT !.pc = "waiting", !.ctx = c, !.held = id]
    /\ UNCHANGED <<hostVars, flagVars, outputVars, threadVars, pipeVars, osVars,
                   jsVars, shown, audited>>

WaitExited ==
    /\ main.pc = "waiting"
    /\ main.held \in Listed
    /\ Exited(main.held)
    /\ BeginRemove(main.held, 0)
    /\ UNCHANGED <<hostVars, flagVars, outputVars, reader, pipeVars, osVars,
                   jsVars, shown>>

WaitPoll ==
    /\ main.pc = "waiting"
    /\ main.held \in Listed
    /\ ~Exited(main.held)
    /\ main' = [main EXCEPT !.pc = "poll", !.idx = Len(g_procs)]
    /\ UNCHANGED <<hostVars, flagVars, outputVars, threadVars, pipeVars, osVars,
                   jsVars, shown, audited>>

\* The nested poll has removed and disposed of the held record: WaitOnExit is
\* called on freed memory and faults, or fails on a stale handle and polls again.
WaitStale ==
    /\ main.pc = "waiting"
    /\ main.held \notin Listed
    /\ main' \in {[main EXCEPT !.pc = "crashed"],
                  [main EXCEPT !.pc = "poll", !.idx = Len(g_procs)]}
    /\ UNCHANGED <<hostVars, flagVars, outputVars, threadVars, pipeVars, osVars,
                   jsVars, shown, audited>>

Signals == {2, 9, 15}

Script ==
    \/ SpawnCheck \/ SpawnRefused \/ js_spawn
    \/ \E id \in Ids, sig \in Signals : js_kill(id, sig)
    \/ \E c \in Contexts, id \in Ids : js_wait_async(c, id) \/ js_wait(c, id)
    \/ \E c \in Contexts : SpawnPoll(c)

\* The script has nothing more to ask, or the host process is gone.
ScriptEnds == main.pc \in {"js", "crashed"} /\ UNCHANGED vars

\* The JS thread inside a native call.
Native ==
    \/ AssignJob
    \/ JoinOut \/ JoinErr
    \/ PollTimeout \/ PollDrain \/ PollDrained \/ PollReap \/ PollNext
    \/ PollReturn
    \/ WaitExited \/ WaitPoll \/ WaitStale

Reader(id, k) ==
    ReaderProbe(id, k) \/ ReaderIdle(id, k) \/ ReaderRead(id, k)
    \/ ReaderPush(id, k)

OS ==
    \/ \E id \in Ids, k \in Kinds : ChildWrite(id, k)
    \/ \E id \in Ids : ChildForks(id) \/ ChildExit(id) \/ DeadlinePasses(id)
    \/ CtrlHandler

Next == \/ Script
        \/ ScriptEnds
        \/ Native
        \/ \E id \in Ids, k \in Kinds : Reader(id, k)
        \/ OS

Spec == Init /\ [][Next]_vars

\* The scheduler runs every thread and every process, and time passes; nothing
\* makes a script call the shim again.
Fairness ==
    /\ WF_vars(Native)
    /\ \A id \in Ids : /\ \A k \in Kinds : WF_vars(Reader(id, k))
                       /\ \A k \in Kinds : WF_vars(ChildWrite(id, k))
                       /\ WF_vars(ChildExit(id))
                       /\ WF_vars(DeadlinePasses(id))

FairSpec == Spec /\ Fairness

(***************************************************************************)
(* What must hold.                                                         *)
(***************************************************************************)
ChunkType  == [kind : Kinds, from : Nat, len : Nat]
ReaderType == [pc : {"none", "top", "idle", "read", "push", "done"},
               from : Nat, len : Nat]
MainType   == [pc : {"js", "assign", "waiting", "poll", "drain", "exitq",
                     "joinOut", "joinErr", "crashed"},
               ctx : Contexts \union {NoContext}, idx : Nat,
               cur : Ids \union {NoId}, held : Ids \union {NoId}]
ReportType == [made : Nat, timedOut : BOOLEAN, truncated : BOOLEAN]

\* Every variable has its type, and no reader takes more than the child wrote.
TypeOK ==
    /\ g_procs \in Seq(Ids)
    /\ g_next_id \in 1 .. MaxSpawns + 1
    /\ spawning \in 0 .. MaxNesting
    /\ opts \in [Ids -> OptionType]
    /\ program \in [Ids -> ProgramType]
    /\ job \in [Ids -> BOOLEAN]
    /\ timedOut \in [Ids -> BOOLEAN]
    /\ killed \in [Ids -> BOOLEAN]
    /\ total \in [Ids -> [Kinds -> Nat]]
    /\ truncated \in [Ids -> [Kinds -> BOOLEAN]]
    /\ chunks \in [Ids -> Seq(ChunkType)]
    /\ waiter \in [Ids -> Contexts \union {NoContext}]
    /\ reader \in [Ids -> [Kinds -> ReaderType]]
    /\ quit \in [Ids -> [Kinds -> BOOLEAN]]
    /\ child \in [Ids -> {"none", "running", "doomed", "exited"}]
    /\ deadline \in [Ids -> {"none", "ahead", "passed", "overran"}]
    /\ wrote \in [Ids -> [Kinds -> Nat]]
    /\ taken \in [Ids -> [Kinds -> Nat]]
    /\ \A id \in Ids, k \in Kinds : taken[id][k] <= wrote[id][k]
    /\ kid \in [Ids -> {"none", "inJob", "outside", "gone"}]
    /\ main \in MainType
    /\ promise \in [Ids -> [Contexts -> {"none", "pending", "settled", "dropped"}]]
    /\ report \in [Ids -> ReportType]
    /\ shown \in [Ids -> [Kinds -> Nat]]
    /\ audited \in [Ids -> Nat]

\* Calls of js_spawn nested in the argument accessors of another start their child
\* after a check that is no longer true; each can be one too many, and no more.
SpawnLimit == MaxConcurrent + MaxNesting - 1

\* g_procs counts every child that may still run, so that the limit bounds the
\* processes alive and not just the length of a list: by max_concurrent when no
\* argument accessor spawns, else by one more for each level of nesting (js_spawn,
\* RemoveProcById).
AliveWithinLimit ==
    MaxConcurrent > 0 =>
        Cardinality({id \in Ids : child[id] \in {"running", "doomed"}})
            <= SpawnLimit

\* With what was shown of kind k ending at s, the output of that kind before the n-th
\* place of queue q ends at p: where its last chunk before n does.
EndsAt(q, k, s, n, p) ==
    LET earlier == {j \in DOMAIN q : j < n /\ q[j].kind = k}
    IN  \/ earlier = {} /\ p = s
        \/ \E j \in earlier : /\ \A i \in earlier : i <= j
                              /\ p = q[j].from + q[j].len

\* Charging the limit and pushing the chunk are two critical sections; still nothing
\* beyond the limit is ever shown, queued or in a reader's hands.
OutputWithinLimit ==
    \A id \in Ids, k \in Kinds :
        opts[id].limit > 0 =>
            /\ shown[id][k] <= opts[id].limit
            /\ \A n \in DOMAIN chunks[id] :
                  chunks[id][n].kind = k =>
                      chunks[id][n].from + chunks[id][n].len <= opts[id].limit
            /\ reader[id][k].pc = "push" =>
                  reader[id][k].from + reader[id][k].len <= opts[id].limit

\* The host shows a prefix of what the child wrote on the pipe: nothing reordered,
\* repeated or skipped between the pipe, the reader, the queue and the poll.
OutputIsPrefix ==
    \A id \in Ids, k \in Kinds :
        /\ \A n \in DOMAIN chunks[id] :
              chunks[id][n].kind = k =>
                  EndsAt(chunks[id], k, shown[id][k], n, chunks[id][n].from)
        /\ reader[id][k].pc = "push" =>
              EndsAt(chunks[id], k, shown[id][k], Len(chunks[id]) + 1, reader[id][k].from)

\* Between a pipe and the console output is neither lost, reordered nor let through
\* beyond the limit (the reader's two critical sections, PopChunk).
OutputKept == OutputWithinLimit /\ OutputIsPrefix

\* What the limit drops is marked, and nothing is marked before the limit is full.
DropIsMarked ==
    \A id \in Ids, k \in Kinds :
        /\ taken[id][k] > total[id][k] => truncated[id][k]
        /\ truncated[id][k] => opts[id].limit > 0 /\ total[id][k] = opts[id].limit

\* The native call js_wait or SpawnPoll is inside RemoveProcById for id.
Removing(id) == main.pc \in {"joinOut", "joinErr"} /\ main.cur = id

\* One audit entry per process, made by the removal and by nothing else, although
\* js_wait and the polls nested in it may both try to remove the same process.
AuditedOnce ==
    \A id \in Ids :
        audited[id] = IF /\ child[id] # "none"
                         /\ id \in Listed => Removing(id)
                      THEN 1 ELSE 0

\* A process no longer listed has ended, and nothing of it is left: no reader
\* thread, no job handle, no queued chunk, no promise function.
UnlistedIsGone ==
    \A id \in Ids \ Listed :
        /\ child[id] \in {"none", "exited"}
        /\ \A k \in Kinds : ~Live(id, k)
        /\ ~job[id] /\ kid[id] # "inJob"
        /\ chunks[id] = <<>>
        /\ waiter[id] = NoContext

\* A process timed out is on its way out, with its job, and never before its deadline.
TimeoutKills ==
    \A id \in Ids :
        timedOut[id] => /\ child[id] \in {"doomed", "exited"}
                        /\ ~job[id] /\ kid[id] # "inJob"
                        /\ deadline[id] \in {"passed", "overran"}

\* SpawnPoll deletes from the list it walks: its cursor always names the record it
\* is working on, and never passes the end.
PollCursor ==
    /\ main.idx <= Len(g_procs)
    /\ main.pc \in {"drain", "exitq"} => main.idx > 0
    /\ main.pc \in {"drain", "exitq", "joinOut", "joinErr"} /\ main.idx > 0 =>
           g_procs[main.idx] = main.cur

\* A process is reported at most once, after it has ended, with the flag that
\* decided its code; a settled promise has its report.
ReportedOnce ==
    \A id \in Ids :
        /\ report[id].made <= 1
        /\ report[id].made = 1 => /\ Exited(id)
                                  /\ report[id].timedOut = timedOut[id]
        /\ (\E c \in Contexts : promise[id][c] = "settled") => report[id].made = 1

\* However many polls and waits meet the end of a process, it is written to the log
\* once and reported at most once (RemoveProcById, SpawnPoll, js_wait).
EndedOnce == AuditedOnce /\ ReportedOnce

\* A promise is settled only in the context that waits for it; it is dropped only
\* while pending, and no settled promise changes again.
PromiseStep ==
    [][\A id \in Ids, c \in Contexts :
          promise'[id][c] # promise[id][c] =>
              <<promise[id][c], promise'[id][c]>> \in
                  {<<"none", "pending">>, <<"dropped", "pending">>,
                   <<"pending", "settled">>, <<"pending", "dropped">>}]_vars

\* js_wait on a process that ends by itself sees it end, whatever it writes: the
\* readers keep the pipes empty beyond the limit.
WaitedIsReaped ==
    \A id \in Ids :
        (main.held = id /\ ~program[id].endless) ~> (id \notin Listed)

\* While js_wait waits for one process, the deadline of every process is enforced.
OverrunIsKilled ==
    \A id \in Ids :
        (main.held # NoId /\ id \in Listed /\ deadline[id] = "overran")
            ~> (Exited(id) \/ main.pc \in {"js", "crashed"})

(***************************************************************************)
(* The shim implements the process table of module ProcessTable.           *)
(***************************************************************************)
PhaseOf(id) == IF child[id] = "none" THEN "free"
               ELSE IF id \notin Listed THEN "gone"
               ELSE IF Exited(id) THEN "ended" ELSE "running"

ReportOf(id) == IF report[id].made = 0 THEN "none"
                ELSE IF report[id].timedOut THEN "timeout" ELSE "exit"

Table == INSTANCE ProcessTable WITH
             Procs     <- Ids,
             TableSize <- IF MaxConcurrent = 0 THEN 0 ELSE SpawnLimit,
             phase     <- [id \in Ids |-> PhaseOf(id)],
             expired   <- timedOut,
             reported  <- [id \in Ids |-> ReportOf(id)]

\* Every step of the shim's threads is a step of the process table or none: ids in
\* order, never more than the limit, one end, one verdict fixed before the report.
ImplementsTable == Table!Spec

(***************************************************************************)
(* What the project's documents say and the code does not do.              *)
(***************************************************************************)
\* js_wait looks at a record that is still there.
WaitHoldsRecord == main.pc = "waiting" => main.held \in Listed
=============================================================================
