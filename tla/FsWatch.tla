------------------------------ MODULE FsWatch ------------------------------
(***************************************************************************)
(* File watches: each has a thread that blocks in ReadDirectoryChangesW    *)
(* and appends events to one queue of the process; io/fs.js drains the     *)
(* queue in a pump of runtime/pump.js and calls the callback of each       *)
(* event's watch.  The JS thread opens and closes watches while their      *)
(* threads run.                                                            *)
(*                                                                         *)
(* Every module that imports qjsp:io/fs.js has a copy of it, and a pump,   *)
(* of its own (see ModuleLoader); the queue, the threads and the ids are   *)
(* the process's, and outlive the JS runtime.                              *)
(***************************************************************************)
EXTENDS Integers, Sequences, FiniteSets, SequencesExt

CONSTANTS
    Copies,         \* of io/fs.js in a runtime
    NoCopy,
    Throttled,      \* g_fs_watch_throttle_ms > 0
    MaxWatchers,    \* g_fs_watch_max_watchers
    MaxIds,         \* bound: watches ever opened
    MaxChanges,     \* bound: changes to watched directories
    MaxGen          \* bound: JS runtimes one after another

Ids     == 1 .. MaxIds
Changes == 1 .. MaxChanges
NoId    == 0

ASSUME WatchAssumption ==
    /\ Throttled \in BOOLEAN /\ NoCopy \notin Copies
    /\ MaxWatchers \in Nat /\ MaxIds \in Nat /\ MaxChanges \in Nat
    /\ MaxGen \in Nat \ {0}

VARIABLES
    next_watch_id, watches,
    hDir,           \* none, open, armed (the system records changes), closed
    terminated,     \* of the watch's thread
    at,             \* where it is: none, loop, call, blocked, failed, events, ended
    pending,        \* changes recorded by the system, not yet read
    batch,          \* changes read, not yet queued
    emitted,        \* last_emit_tick is not 0
    event_queue,
    next_change,
    of,             \* the watch of a change: its events carry the id
    gen,            \* the JS runtime in existence
    looping,        \* js_std_loop runs, and its one timer per turn gets to pump.js's
    owner,          \* of a watch: its runtime, its copy, and whether it came late,
                    \* after the copy's shutdown hook had run
    callbacks,      \* _watchCallbacks of each copy
    pumping,        \* each copy: the pump "io:watch" is held (_watchPumpAcquired)
    hooked,         \* each copy: none, listed (in the shutdown callbacks), ran
    js,             \* the JS thread: script, pump, callback
    draining,       \* the copy whose pump runs, and the events it has to deal with
    opening,        \* a watch between the start of its thread and its entry in the list
    to_close, closing, close_step,
    closes,         \* calls of close() per watch, two at most
    seen,           \* history: the events callbacks were called with
    lost            \* history: why a change was not seen

osVars   == <<hDir, pending, next_change, of>>
thrVars  == <<at, batch, emitted, event_queue>>
jsVars   == <<js, draining, callbacks, pumping, hooked>>
closeVars == <<to_close, closing, close_step, closes>>
idVars   == <<next_watch_id, owner, gen, looping>>
vars == <<osVars, thrVars, jsVars, closeVars, idVars, watches, terminated, opening,
          seen, lost>>

NoDrain == [copy |-> NoCopy, evs |-> <<>>]

Init ==
    /\ next_watch_id = 1 /\ watches = {}
    /\ hDir = [i \in Ids |-> "none"] /\ terminated = [i \in Ids |-> FALSE]
    /\ at = [i \in Ids |-> "none"]
    /\ pending = [i \in Ids |-> <<>>] /\ batch = [i \in Ids |-> <<>>]
    /\ emitted = [i \in Ids |-> FALSE]
    /\ event_queue = <<>> /\ next_change = 1
    /\ of = [n \in Changes |-> NoId]
    /\ gen = 1 /\ owner = [i \in Ids |-> [gen |-> 0, copy |-> NoCopy, late |-> FALSE]]
    /\ callbacks = [c \in Copies |-> {}] /\ pumping = [c \in Copies |-> FALSE]
    /\ hooked = [c \in Copies |-> "none"] /\ looping = FALSE
    /\ js = "script" /\ draining = NoDrain
    /\ opening = NoId /\ to_close = <<>> /\ closing = NoId /\ close_step = "none"
    /\ closes = [i \in Ids |-> 0] /\ seen = <<>> /\ lost = [n \in Changes |-> "no"]

(***************************************************************************)
(* The file system.                                                        *)
(***************************************************************************)
Change(i) ==
    /\ hDir[i] = "armed" /\ next_change \in Changes
    /\ pending' = [pending EXCEPT ![i] = Append(@, next_change)]
    /\ of' = [of EXCEPT ![next_change] = i]
    /\ next_change' = next_change + 1
    /\ UNCHANGED <<hDir, thrVars, jsVars, closeVars, idVars, watches, terminated,
                   opening, seen, lost>>

\* The directory is deleted, or the network drive is gone.
ReadFails(i) ==
    /\ at[i] = "blocked"
    /\ at' = [at EXCEPT ![i] = "failed"]
    /\ UNCHANGED <<osVars, batch, emitted, event_queue, jsVars, closeVars, idVars,
                   watches, terminated, opening, seen, lost>>

(***************************************************************************)
(* TWatchThread.Execute.                                                   *)
(***************************************************************************)
Moves(i, from, to) == at[i] = from /\ at' = [at EXCEPT ![i] = to]

ThreadLoop(i) ==
    /\ Moves(i, "loop", IF terminated[i] THEN "ended" ELSE "call")
    /\ UNCHANGED <<osVars, batch, emitted, event_queue, jsVars, closeVars, idVars,
                   watches, terminated, opening, seen, lost>>

\* ReadDirectoryChangesW on a closed handle fails; from the first call on the system
\* records changes for the handle.
ThreadCall(i) ==
    /\ Moves(i, "call", IF hDir[i] = "closed" THEN "failed" ELSE "blocked")
    /\ hDir' = [hDir EXCEPT ![i] = IF @ = "open" THEN "armed" ELSE @]
    /\ UNCHANGED <<pending, next_change, of, batch, emitted, event_queue, jsVars, closeVars,
                   idVars, watches, terminated, opening, seen, lost>>

ThreadRead(i) ==
    /\ pending[i] # <<>> /\ Moves(i, "blocked", "events")
    /\ batch' = [batch EXCEPT ![i] = pending[i]]
    /\ pending' = [pending EXCEPT ![i] = <<>>]
    /\ UNCHANGED <<hDir, next_change, of, emitted, event_queue, jsVars, closeVars, idVars,
                   watches, terminated, opening, seen, lost>>

\* After a failure: end, or sleep and try again.
ThreadFailed(i) ==
    /\ Moves(i, "failed", IF terminated[i] THEN "ended" ELSE "loop")
    /\ UNCHANGED <<osVars, batch, emitted, event_queue, jsVars, closeVars, idVars,
                   watches, terminated, opening, seen, lost>>

QueuePush_Front(q, n) == <<n>> \o q

QueuePush(q, n) == Append(q, n)

\* An event less than g_fs_watch_throttle_ms after the last one that was queued is
\* dropped; how much time has passed is left open.
ThreadEvent(i) ==
    /\ at[i] = "events" /\ batch[i] # <<>> /\ ~terminated[i]
    /\ batch' = [batch EXCEPT ![i] = Tail(@)]
    /\ \/ /\ Throttled /\ emitted[i]
          /\ lost' = [lost EXCEPT ![Head(batch[i])] = "throttled"]
          /\ UNCHANGED <<emitted, event_queue>>
       \/ /\ event_queue' = QueuePush(event_queue, Head(batch[i]))
          /\ emitted' = [emitted EXCEPT ![i] = Throttled]
          /\ UNCHANGED lost
    /\ UNCHANGED <<osVars, at, jsVars, closeVars, idVars, watches, terminated, opening,
                   seen>>

ThreadEvents(i) ==
    /\ batch[i] = <<>> \/ terminated[i]
    /\ Moves(i, "events", "loop")
    /\ batch' = [batch EXCEPT ![i] = <<>>]
    /\ UNCHANGED <<osVars, emitted, event_queue, jsVars, closeVars, idVars, watches,
                   terminated, opening, seen, lost>>

ThreadStep(i) == ThreadLoop(i) \/ ThreadCall(i) \/ ThreadRead(i) \/ ThreadFailed(i)
                    \/ ThreadEvent(i) \/ ThreadEvents(i)

(***************************************************************************)
(* watch(): WatchDir starts the thread and goes on.                        *)
(***************************************************************************)
Busy   == opening # NoId \/ to_close # <<>> \/ closing # NoId
InUser == js \in {"script", "callback"} /\ ~Busy

WatchDir(c) ==
    /\ InUser /\ next_watch_id \in Ids
    /\ Cardinality(watches) < MaxWatchers
    /\ opening' = next_watch_id
    /\ next_watch_id' = next_watch_id + 1
    /\ hDir' = [hDir EXCEPT ![next_watch_id] = "open"]
    /\ at' = [at EXCEPT ![next_watch_id] = "loop"]
    /\ owner' = [owner EXCEPT ![next_watch_id] =
                     [gen |-> gen, copy |-> c, late |-> hooked[c] = "ran"]]
    /\ UNCHANGED <<pending, next_change, of, batch, emitted, event_queue, jsVars, closeVars,
                   gen, looping, watches, terminated, seen, lost>>

\* _ensureWatchPump installs the hook once, when it acquires the pump, and only if there
\* is a list to put it in: runtime/globals.js makes it, which a daemon job need not import.
Hooked(c) ==
    {hooked[c]} \union (IF ~pumping[c] /\ hooked[c] = "none" THEN {"listed"} ELSE {})

\* last_emit_tick is reset after the thread was started; the watch is listed; fs.js
\* registers the callback, holds the pump and installs its hook.
Opened ==
    /\ opening # NoId
    /\ emitted' = [emitted EXCEPT ![opening] = FALSE]
    /\ watches' = watches \union {opening}
    /\ LET c == owner[opening].copy
       IN  /\ callbacks' = [callbacks EXCEPT ![c] = @ \union {opening}]
           /\ pumping' = [pumping EXCEPT ![c] = TRUE]
           /\ \E h \in Hooked(c) : hooked' = [hooked EXCEPT ![c] = h]
    /\ opening' = NoId
    /\ UNCHANGED <<osVars, at, batch, event_queue, js, draining, closeVars, idVars,
                   terminated, seen, lost>>

(***************************************************************************)
(* close() and CloseWatch.                                                 *)
(***************************************************************************)
Forgets_Nothing(c, ids) == callbacks

\* The callbacks are deleted before the watches are closed.
Forgets(c, ids) == [callbacks EXCEPT ![c] = @ \ ids]

\* close() may be called again, and for a watch of the running callback.
Close(i) ==
    /\ InUser /\ i < next_watch_id /\ owner[i].gen = gen /\ closes[i] < 2
    /\ closes' = [closes EXCEPT ![i] = @ + 1]
    /\ to_close' = <<i>>
    /\ callbacks' = Forgets(owner[i].copy, {i})
    /\ UNCHANGED <<osVars, thrVars, js, draining, pumping, hooked, closing, close_step,
                   idVars, watches, terminated, opening, seen, lost>>

\* CloseWatch finds the watch, terminates its thread and cancels a read in progress, ...
CloseCancel ==
    /\ to_close # <<>> /\ closing = NoId /\ Head(to_close) \in watches
    /\ closing' = Head(to_close) /\ close_step' = "handle"
    /\ terminated' = [terminated EXCEPT ![closing'] = TRUE]
    /\ at' = [at EXCEPT ![closing'] = IF @ = "blocked" THEN "failed" ELSE @]
    /\ UNCHANGED <<osVars, batch, emitted, event_queue, jsVars, to_close, closes, idVars,
                   watches, opening, seen, lost>>

Handle_Leaks(h) == h

Handle(h) == "closed"

\* ... closes the handle, which ends a read that began after the cancellation ...
CloseHandle ==
    /\ close_step = "handle"
    /\ hDir' = [hDir EXCEPT ![closing] = Handle(@)]
    /\ at' = [at EXCEPT ![closing] =
                 IF @ = "blocked" /\ hDir'[closing] = "closed" THEN "failed" ELSE @]
    /\ pending' = [pending EXCEPT ![closing] = <<>>]
    /\ close_step' = "join"
    /\ UNCHANGED <<next_change, of, batch, emitted, event_queue, jsVars, to_close, closes, closing,
                   idVars, watches, terminated, opening, seen, lost>>

Joined_NoWait(i) == TRUE

Joined(i) == at[i] = "ended"

PumpKept_Never(c) == FALSE
PumpKept_Always(c) == TRUE

\* The pump of the copy stays as long as there are callbacks.
PumpKept(c) == callbacks[c] # {}

PumpingAfter == LET c == owner[Head(to_close)].copy
                IN  [pumping EXCEPT ![c] = @ /\ PumpKept(c)]

\* ... waits for the thread, and removes and disposes of the watch.
CloseJoin ==
    /\ close_step = "join" /\ Joined(closing)
    /\ watches' = watches \ {closing}
    /\ pumping' = PumpingAfter
    /\ to_close' = Tail(to_close)
    /\ closing' = NoId /\ close_step' = "none"
    /\ UNCHANGED <<osVars, thrVars, js, draining, callbacks, hooked, closes, idVars, terminated,
                   opening, seen, lost>>

\* A watch that was closed before.
CloseUnknown ==
    /\ to_close # <<>> /\ closing = NoId /\ Head(to_close) \notin watches
    /\ pumping' = PumpingAfter
    /\ to_close' = Tail(to_close)
    /\ UNCHANGED <<osVars, thrVars, js, draining, callbacks, hooked, closes,
                   closing, close_step, idVars, watches, terminated, opening, seen, lost>>

(***************************************************************************)
(* The pump: drain the queue, call the callback of each event's watch.     *)
(***************************************************************************)
Pump(c) ==
    /\ looping /\ js = "script" /\ ~Busy /\ pumping[c] /\ event_queue # <<>>
    /\ draining' = [copy |-> c, evs |-> event_queue]
    /\ event_queue' = <<>>
    /\ js' = "pump"
    /\ UNCHANGED <<osVars, at, batch, emitted, callbacks, pumping, hooked, closeVars,
                   idVars, watches, terminated, opening, seen, lost>>

NextEvent == Head(draining.evs)
Known(n)  == of[n] \in callbacks[draining.copy]

CallCallback ==
    /\ js = "pump" /\ draining.evs # <<>> /\ Known(NextEvent)
    /\ seen' = Append(seen, NextEvent)
    /\ draining' = [draining EXCEPT !.evs = Tail(@)]
    /\ js' = "callback"
    /\ UNCHANGED <<osVars, thrVars, callbacks, pumping, hooked, closeVars, idVars,
                   watches, terminated, opening, lost>>

\* An event without a callback is skipped: its watch was closed, or belongs to another
\* copy of fs.js.
Skip ==
    /\ js = "pump" /\ draining.evs # <<>> /\ ~Known(NextEvent)
    /\ lost' = [lost EXCEPT ![NextEvent] =
                   IF \E c \in Copies : of[NextEvent] \in callbacks[c] THEN "taken"
                                                                   ELSE "closed"]
    /\ draining' = [draining EXCEPT !.evs = Tail(@)]
    /\ UNCHANGED <<osVars, thrVars, js, callbacks, pumping, hooked, closeVars, idVars,
                   watches, terminated, opening, seen>>

CallbackReturns ==
    /\ js = "callback" /\ ~Busy
    /\ js' = "pump"
    /\ UNCHANGED <<osVars, thrVars, draining, callbacks, pumping, hooked, closeVars,
                   idVars, watches, terminated, opening, seen, lost>>

\* What remains of the batch when a callback throws: the exception ends the loop.
Abandoned == NoDrain

CallbackThrows ==
    /\ js = "callback" /\ ~Busy
    /\ lost' = [n \in Changes |-> IF n \in ToSet(draining.evs) THEN "thrown" ELSE lost[n]]
    /\ draining' = Abandoned /\ js' = "script"
    /\ UNCHANGED <<osVars, thrVars, callbacks, pumping, hooked, closeVars, idVars,
                   watches, terminated, opening, seen>>

PumpEnds ==
    /\ js = "pump" /\ draining.evs = <<>>
    /\ draining' = NoDrain /\ js' = "script"
    /\ UNCHANGED <<osVars, thrVars, callbacks, pumping, hooked, closeVars, idVars,
                   watches, terminated, opening, seen, lost>>

(***************************************************************************)
(* shutdown() and reload.                                                  *)
(***************************************************************************)
Listed == {c \in Copies : hooked[c] = "listed"}

ClosedBy_First(c) == IF callbacks[c] = {} THEN {}
                     ELSE {CHOOSE i \in callbacks[c] : \A j \in callbacks[c] : i <= j}

\* _shutdownAllWatches.
ClosedBy(c) == callbacks[c]

\* The callbacks list is run and emptied; a hook is never installed again.
Shutdown ==
    /\ InUser
    /\ to_close' = SetToSeq(UNION {ClosedBy(c) : c \in Listed})
    /\ callbacks' = [c \in Copies |->
                        IF c \in Listed THEN callbacks[c] \ ClosedBy(c) ELSE callbacks[c]]
    /\ pumping' = [c \in Copies |-> pumping[c] /\ c \notin Listed]
    /\ hooked' = [c \in Copies |-> IF c \in Listed THEN "ran" ELSE hooked[c]]
    /\ UNCHANGED <<osVars, thrVars, js, draining, closing, close_step, closes,
                   idVars, watches,
                   terminated, opening, seen, lost>>

\* The runtime is freed and a new one made: on reload after shutdown(), unless its module
\* fails, and after a daemon job without it.
Restart ==
    /\ js = "script" /\ ~Busy /\ gen < MaxGen
    /\ gen' = gen + 1
    /\ callbacks' = [c \in Copies |-> {}] /\ pumping' = [c \in Copies |-> FALSE]
    /\ hooked' = [c \in Copies |-> "none"]
    /\ looping' = FALSE
    /\ UNCHANGED <<osVars, thrVars, js, draining, closeVars, next_watch_id, owner,
                   watches, terminated, opening, seen, lost>>

\* RunExecutionPipeline calls js_std_loop after a script, not after a REPL line nor when
\* a job has thrown; a timer that is always due keeps the loop from others, and without
\* setInterval pump.js has none.
LoopTurns ==
    /\ js = "script" /\ ~Busy
    /\ looping' = ~looping
    /\ UNCHANGED <<osVars, thrVars, jsVars, closeVars, next_watch_id, owner, gen,
                   watches, terminated, opening, seen, lost>>

\* What the JS thread goes on to do inside a native call or a pump, and in a loop that
\* runs: the two exclude each other.
JsStep == Opened \/ CloseCancel \/ CloseHandle \/ CloseJoin
            \/ CloseUnknown \/ CallCallback \/ Skip \/ CallbackReturns \/ PumpEnds
            \/ \E c \in Copies : Pump(c)

Next ==
    \/ \E i \in Ids : Change(i) \/ ReadFails(i) \/ ThreadStep(i)
                        \/ Close(i)
    \/ \E c \in Copies : WatchDir(c)
    \/ JsStep \/ CallbackThrows \/ Shutdown \/ Restart \/ LoopTurns

Spec == Init /\ [][Next]_vars

ClosingThread == \E i \in {closing} \intersect Ids : ThreadStep(i)

\* Native calls go on, callbacks end, a thread that is waited for runs, and a loop that
\* runs ticks the pump while it is held; nothing makes it run.
FairSpec == Spec /\ WF_vars(JsStep) /\ WF_vars(ClosingThread)

(***************************************************************************)
(* What must hold.                                                         *)
(***************************************************************************)
\* Every variable has its type.
TypeOK ==
    /\ next_watch_id \in 1 .. MaxIds + 1 /\ watches \subseteq Ids
    /\ hDir \in [Ids -> {"none", "open", "armed", "closed"}]
    /\ terminated \in [Ids -> BOOLEAN]
    /\ at \in [Ids -> {"none", "loop", "call", "blocked", "failed", "events", "ended"}]
    /\ pending \in [Ids -> Seq(Changes)] /\ batch \in [Ids -> Seq(Changes)]
    /\ emitted \in [Ids -> BOOLEAN]
    /\ of \in [Changes -> Ids \union {NoId}]
    /\ event_queue \in Seq(Changes) /\ next_change \in 1 .. MaxChanges + 1
    /\ gen \in 1 .. MaxGen /\ looping \in BOOLEAN
    /\ owner \in [Ids -> [gen : 0 .. MaxGen, copy : Copies \union {NoCopy},
                         late : BOOLEAN]]
    /\ callbacks \in [Copies -> SUBSET Ids] /\ pumping \in [Copies -> BOOLEAN]
    /\ hooked \in [Copies -> {"none", "listed", "ran"}]
    /\ js \in {"script", "pump", "callback"}
    /\ draining \in [copy : Copies \union {NoCopy}, evs : Seq(Changes)]
    /\ js = "script" <=> draining = NoDrain
    /\ opening \in Ids \union {NoId} /\ to_close \in Seq(Ids)
    /\ closing \in Ids \union {NoId}
    /\ close_step \in {"none", "handle", "join"}
    /\ closing = NoId <=> close_step = "none"
    /\ closes \in [Ids -> 0 .. 2]
    /\ seen \in Seq(Changes)
    /\ lost \in [Changes -> {"no", "throttled", "thrown", "taken", "closed"}]

\* A callback sees the changes of its watch in the order they happened, none twice, and
\* misses one before another only if the throttle dropped it, a callback threw earlier in
\* its batch, or another copy of fs.js took it.
SeenInOrder ==
    /\ IsInjective(seen)
    /\ \A k \in DOMAIN seen : \A n \in 1 .. seen[k] - 1 :
           of[n] = of[seen[k]] => \/ \E j \in 1 .. k - 1 : seen[j] = n
                                  \/ lost[n] \in {"throttled", "thrown", "taken"}

\* A callback is called only for a watch that is open, also when an earlier callback of
\* the batch closed it with events on their way.
SeenWhileOpen ==
    [][\A n \in ToSet(seen') \ ToSet(seen) : of[n] \in watches /\ ~terminated[of[n]]]_vars

\* A watch leaves the list, and its record is disposed of, only when its thread has
\* ended; no thread uses a closed handle's number for another directory.
GoneWithThread ==
    \A i \in Ids : /\ at[i] \notin {"none", "ended"} => i \in watches \union {opening}
                   /\ hDir[i] = "closed" => at[i] # "blocked"

\* The types, and no record or handle is given up under the thread that uses it
\* (CloseWatch, TWatchThread.Execute).
WellFormed == TypeOK /\ GoneWithThread

\* The pump of a copy is held exactly while it has callbacks, unless they are just being
\* closed: no watch is without a pump, and closing the last lets the event loop end.
PumpWhileWatching ==
    ~Busy => \A c \in Copies : pumping[c] <=> callbacks[c] # {}

\* When shutdown() has run the hook of a copy of fs.js, every watch the copy opened before
\* is closed or in line to be; only one opened later is left to outlive the runtime.
ShutdownCloses ==
    \A i \in watches :
        owner[i].gen = gen /\ hooked[owner[i].copy] = "ran"
            => owner[i].late \/ i \in ToSet(to_close)

\* CloseWatch returns, whatever its thread is doing and however the steps of the two
\* interleave, without a further change to the directory.
CloseEnds == to_close # <<>> ~> to_close = <<>>

\* An event of an open watch that is queued gets to its callback, unless the watch is
\* closed, an earlier callback throws, another copy of fs.js takes it, or the event loop
\* stops running the pump.
QueuedIsSeen ==
    \A n \in Changes :
        n \in ToSet(event_queue)
            ~> \/ n \in ToSet(seen) \/ lost[n] # "no" \/ ~looping
               \/ \E i \in Ids : of[n] = i /\ (terminated[i] \/ owner[i].gen # gen)
=============================================================================
