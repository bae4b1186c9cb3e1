--------------------------- MODULE FsWatchProofs ---------------------------
(***************************************************************************)
(* Proofs about FsWatch: the order in which callbacks see changes, the     *)
(* watches they are called for, the pumps that keep the event loop going,  *)
(* and the watches that shutdown() closes.                                 *)
(***************************************************************************)
EXTENDS FsWatch, DataLemmas, TLAPS

(***************************************************************************)
(* The inductive invariant.                                                *)
(***************************************************************************)
\* One thing at a time on the JS thread: a watch is being opened or watches are being
\* closed, the one that is, is the first of the list; a pump that is not inside a
\* callback does neither.
OneAtATime ==
    /\ opening # NoId => to_close = <<>>
    /\ closing # NoId => to_close # <<>> /\ Head(to_close) = closing
    /\ closing # NoId => closing \in watches
    /\ js = "pump" => ~Busy
    /\ js # "script" => draining.copy \in Copies

\* Ids are handed out in order: the watches have ids below the next, the rest nothing.
Fresh ==
    /\ \A i \in watches \union {opening} : i < next_watch_id
    /\ opening \notin watches
    /\ \A i \in Ids : terminated[i] => i # opening
    /\ \A i \in Ids : i >= next_watch_id =>
           hDir[i] = "none" /\ at[i] = "none" /\ ~terminated[i]

\* Every watch belongs to a copy of fs.js and a runtime, the one being opened to this one.
Owned ==
    /\ \A i \in Ids : i \in watches \union {opening} => owner[i].copy \in Copies
    /\ \A i \in Ids : owner[i].gen <= gen
    /\ \A i \in Ids : i = opening => owner[i].gen = gen

\* A callback is that of an open watch of the copy, in no one's list of watches to close;
\* the watch of the runtime has its callback or is about to be closed.
Registered ==
    /\ \A c \in Copies : \A i \in callbacks[c] :
           i \in watches /\ ~terminated[i] /\ owner[i].copy = c
    /\ \A k \in DOMAIN to_close : \A c \in Copies : to_close[k] \notin callbacks[c]
    /\ \A i \in watches : owner[i].gen = gen =>
           i \in callbacks[owner[i].copy] \/ i \in ToSet(to_close)

\* A copy with callbacks holds its pump; one that holds it without has a watch to close.
Pumped ==
    /\ \A c \in Copies : callbacks[c] # {} => pumping[c]
    /\ \A c \in Copies : pumping[c] /\ callbacks[c] = {} =>
           \E k \in DOMAIN to_close : owner[to_close[k]].copy = c

\* A watch of the runtime came after its copy's hook had run, is being closed, or the
\* hook is still to run, if it could be installed.
Covered ==
    /\ \A i \in watches : owner[i].gen = gen /\ ~owner[i].late =>
           hooked[owner[i].copy] # "ran" \/ i \in ToSet(to_close)
    /\ \A i \in Ids : i = opening =>
           (owner[i].late <=> hooked[owner[i].copy] = "ran")

\* The places of a change on its way to a callback.
Held(i)     == ToSet(pending[i])
Read(i)     == ToSet(batch[i])
Queue       == ToSet(event_queue)
Drained     == ToSet(draining.evs)
Shown       == ToSet(seen)
OnTheWay(n) == \/ n \in Drained \/ n \in Queue
               \/ \E i \in Ids : n \in Read(i) \/ n \in Held(i)

\* A thread has a batch only while it queues it.
ReadBatch == \A i \in Ids : at[i] # "events" => batch[i] = <<>>

\* The changes on their way have happened, and neither they nor the changes to come are
\* lost; until it is queued, each is in the hands of its watch.
Placed ==
    /\ \A n \in Shown : n < next_change
    /\ \A n \in Changes : OnTheWay(n) => n < next_change
    /\ \A n \in Changes : OnTheWay(n) \/ n >= next_change => lost[n] = "no"
    /\ \A i \in Ids : \A n \in Read(i) \union Held(i) : of[n] = i

\* Of the changes of a watch, f, a list has the earlier first, and those in A are earlier
\* than those in B.
Rising(f, s)   == \A j, k \in DOMAIN s : j < k /\ f[s[j]] = f[s[k]] => s[j] < s[k]
Ahead(f, A, B) == \A m \in A, n \in B : f[m] = f[n] => m < n

Sorted ==
    /\ Rising(of, event_queue) /\ Rising(of, draining.evs)
    /\ \A i \in Ids : Rising(of, batch[i]) /\ Rising(of, pending[i])

\* What is further on its way happened before.
InLine ==
    /\ \A i \in Ids : /\ Ahead(of, Read(i), Held(i))
                      /\ Ahead(of, Queue \union Drained \union Shown, Read(i) \union Held(i))
    /\ Ahead(of, Drained \union Shown, Queue)
    /\ Ahead(of, Shown, Drained)

\* No change of a watch that has a callback, or will get it, is forgotten.
Live(i) == i = opening \/ \E c \in Copies : i \in callbacks[c]
Excused(n) == lost[n] \in {"throttled", "thrown", "taken"}

Accounted ==
    \A n \in Changes : n < next_change =>
        /\ of[n] \in Ids /\ of[n] < next_watch_id
        /\ Live(of[n]) => OnTheWay(n) \/ n \in Shown \/ Excused(n)

IInv == /\ WellFormed /\ OneAtATime /\ Fresh /\ Owned /\ Registered /\ Pumped /\ Covered
        /\ ReadBatch /\ Placed /\ Sorted /\ InLine /\ Accounted /\ SeenInOrder

(***************************************************************************)
(* What the actions leave alone.                                           *)
(***************************************************************************)
LEMMA ThreadFrame ==
    ASSUME NEW i \in Ids, Change(i) \/ ReadFails(i) \/ ThreadStep(i)
    PROVE  UNCHANGED <<jsVars, closeVars, idVars, watches, terminated, opening, seen>>
  <1>1. CASE Change(i)
    BY <1>1 DEF Change
  <1>2. CASE ReadFails(i)
    BY <1>2 DEF ReadFails
  <1>3. CASE ThreadLoop(i)
    BY <1>3 DEF ThreadLoop
  <1>4. CASE ThreadCall(i)
    BY <1>4 DEF ThreadCall
  <1>5. CASE ThreadRead(i)
    BY <1>5 DEF ThreadRead
  <1>6. CASE ThreadFailed(i)
    BY <1>6 DEF ThreadFailed
  <1>7. CASE ThreadEvent(i)
    BY <1>7 DEF ThreadEvent
  <1>8. CASE ThreadEvents(i)
    BY <1>8 DEF ThreadEvents
  <1> QED
    BY <1>1, <1>2, <1>3, <1>4, <1>5, <1>6, <1>7, <1>8 DEF ThreadStep

\* The steps of the pump.
PumpStep == \/ \E c \in Copies : Pump(c)
            \/ CallCallback \/ Skip \/ CallbackReturns \/ CallbackThrows \/ PumpEnds

LEMMA PumpFrame ==
    ASSUME PumpStep
    PROVE  UNCHANGED <<osVars, at, batch, emitted, callbacks, pumping, hooked, closeVars,
                       idVars, watches, terminated, opening>>
  <1>1. ASSUME NEW c \in Copies, Pump(c)
        PROVE  UNCHANGED <<osVars, at, batch, emitted, callbacks, pumping, hooked, closeVars,
                           idVars, watches, terminated, opening>>
    BY <1>1 DEF Pump
  <1>2. CASE CallCallback
    BY <1>2 DEF CallCallback, thrVars
  <1>3. CASE Skip
    BY <1>3 DEF Skip, thrVars
  <1>4. CASE CallbackReturns
    BY <1>4 DEF CallbackReturns, thrVars
  <1>5. CASE CallbackThrows
    BY <1>5 DEF CallbackThrows, thrVars
  <1>6. CASE PumpEnds
    BY <1>6 DEF PumpEnds, thrVars
  <1> QED
    BY <1>1, <1>2, <1>3, <1>4, <1>5, <1>6 DEF PumpStep

\* The steps that open and close watches.
OpenCloseStep ==
    \/ \E c \in Copies : WatchDir(c)
    \/ \E i \in Ids : Close(i)
    \/ Opened \/ CloseCancel \/ CloseHandle \/ CloseJoin \/ CloseUnknown
    \/ Shutdown \/ Restart

\* All variables but looping: the loop that starts or stops changes nothing else.
kept == <<osVars, thrVars, jsVars, closeVars, next_watch_id, owner, gen, watches, terminated,
          opening, seen, lost>>

LEMMA NextCases ==
    ASSUME [Next]_vars
    PROVE  \/ \E i \in Ids : Change(i) \/ ReadFails(i) \/ ThreadStep(i)
           \/ PumpStep \/ OpenCloseStep
           \/ UNCHANGED kept /\ looping' \in {looping, ~looping}
  <1>1. CASE LoopTurns
    BY <1>1 DEF LoopTurns, kept
  <1>2. CASE UNCHANGED vars
    BY <1>2 DEF vars, kept, idVars
  <1>3. CASE Next /\ ~LoopTurns
    BY <1>3 DEF Next, JsStep, PumpStep, OpenCloseStep
  <1> QED
    BY <1>1, <1>2, <1>3

\* What belongs to the watches, their owners and the pumps changes by opening and closing.
LEMMA WatchFrame ==
    ASSUME [Next]_vars, ~OpenCloseStep
    PROVE  UNCHANGED <<callbacks, pumping, hooked, closeVars, next_watch_id, owner, gen,
                       watches, terminated, opening>>
  <1>1. CASE \E i \in Ids : Change(i) \/ ReadFails(i) \/ ThreadStep(i)
    BY <1>1, ThreadFrame DEF jsVars, idVars
  <1>2. CASE PumpStep
    BY <1>2, PumpFrame DEF idVars
  <1>3. CASE UNCHANGED kept
    BY <1>3 DEF kept, jsVars
  <1> QED
    BY <1>1, <1>2, <1>3, NextCases

(***************************************************************************)
(* The types.                                                              *)
(***************************************************************************)
LEMMA ThreadTypes ==
    ASSUME TypeOK, NEW i \in Ids, Change(i) \/ ReadFails(i) \/ ThreadStep(i)
    PROVE  TypeOK'
  <1>1. CASE Change(i)
    <2>1. /\ next_change \in Changes /\ next_change \in Int /\ MaxChanges \in Nat
          /\ pending[i] \in Seq(Changes)
      BY <1>1, WatchAssumption DEF Change, TypeOK, Changes
    <2>2. next_change' \in 1 .. MaxChanges + 1
      BY <1>1, <2>1 DEF Change, Changes
    <2>3. Append(pending[i], next_change) \in Seq(Changes)
      BY <2>1
    <2>4. pending' \in [Ids -> Seq(Changes)] /\ of' \in [Changes -> Ids \union {NoId}]
      BY <1>1, <2>1, <2>3 DEF Change, TypeOK
    <2> QED
      BY <1>1, <2>2, <2>4 DEF Change, TypeOK, thrVars, jsVars, closeVars, idVars
  <1>2. CASE ReadFails(i)
    BY <1>2 DEF ReadFails, TypeOK, osVars, jsVars, closeVars, idVars
  <1>3. CASE ThreadLoop(i)
    BY <1>3 DEF ThreadLoop, Moves, TypeOK, osVars, jsVars, closeVars, idVars
  <1>4. CASE ThreadCall(i)
    BY <1>4 DEF ThreadCall, Moves, TypeOK, osVars, jsVars, closeVars, idVars
  <1>5. CASE ThreadRead(i)
    <2>1. pending[i] \in Seq(Changes) /\ <<>> \in Seq(Changes)
      BY DEF TypeOK
    <2>2. pending' \in [Ids -> Seq(Changes)] /\ batch' \in [Ids -> Seq(Changes)]
      BY <1>5, <2>1 DEF ThreadRead, TypeOK
    <2>3. at' \in [Ids -> {"none", "loop", "call", "blocked", "failed", "events", "ended"}]
      BY <1>5 DEF ThreadRead, Moves, TypeOK
    <2> QED
      BY <1>5, <2>2, <2>3 DEF ThreadRead, TypeOK, osVars, jsVars, closeVars, idVars
  <1>6. CASE ThreadFailed(i)
    BY <1>6 DEF ThreadFailed, Moves, TypeOK, osVars, jsVars, closeVars, idVars
  <1>7. CASE ThreadEvent(i)
    <2>1. batch[i] \in Seq(Changes) /\ batch[i] # <<>>
      BY <1>7 DEF ThreadEvent, TypeOK
    <2>2. Head(batch[i]) \in Changes /\ Tail(batch[i]) \in Seq(Changes)
      BY <2>1
    <2>3. /\ batch' = [batch EXCEPT ![i] = Tail(batch[i])]
          /\ event_queue' = event_queue \/ event_queue' = Append(event_queue, Head(batch[i]))
          /\ emitted' = emitted \/ emitted' = [emitted EXCEPT ![i] = Throttled]
          /\ lost' = lost \/ lost' = [lost EXCEPT ![Head(batch[i])] = "throttled"]
          /\ UNCHANGED <<osVars, at, jsVars, closeVars, idVars, watches, terminated, opening,
                         seen>>
      BY <1>7 DEF ThreadEvent, QueuePush
    <2>6. batch' \in [Ids -> Seq(Changes)]
      BY <2>2, <2>3 DEF TypeOK
    <2>7. event_queue' \in Seq(Changes)
      <3>1. event_queue \in Seq(Changes)
        BY DEF TypeOK
      <3>2. Append(event_queue, Head(batch[i])) \in Seq(Changes)
        BY <2>2, <3>1
      <3> QED
        BY <2>3, <3>1, <3>2
    <2>8. lost' \in [Changes -> {"no", "throttled", "thrown", "taken", "closed"}]
      BY <2>2, <2>3 DEF TypeOK
    <2>4. /\ batch' \in [Ids -> Seq(Changes)] /\ event_queue' \in Seq(Changes)
          /\ lost' \in [Changes -> {"no", "throttled", "thrown", "taken", "closed"}]
      BY <2>6, <2>7, <2>8
    <2>5. emitted' \in [Ids -> BOOLEAN]
      BY <2>3, WatchAssumption DEF TypeOK
    <2> QED
      BY <2>3, <2>4, <2>5 DEF TypeOK, osVars, jsVars, closeVars, idVars
  <1>8. CASE ThreadEvents(i)
    BY <1>8 DEF ThreadEvents, Moves, TypeOK, osVars, jsVars, closeVars, idVars
  <1> QED
    BY <1>1, <1>2, <1>3, <1>4, <1>5, <1>6, <1>7, <1>8 DEF ThreadStep

LEMMA PumpTypes ==
    ASSUME TypeOK, OneAtATime, PumpStep
    PROVE  TypeOK'
  <1>n. NoCopy \notin Copies
    BY WatchAssumption
  <1>1. ASSUME NEW c \in Copies, Pump(c) PROVE TypeOK'
    BY <1>1, <1>n DEF Pump, NoDrain, TypeOK, osVars, closeVars, idVars
  <1>h. ASSUME draining.evs # <<>>
        PROVE  NextEvent \in Changes /\ Tail(draining.evs) \in Seq(Changes)
    BY <1>h DEF TypeOK, NextEvent
  <1>d. ASSUME js # "script", NEW e
        PROVE  [draining EXCEPT !.evs = e] # NoDrain
    BY <1>d, <1>n DEF OneAtATime, NoDrain, TypeOK
  <1>2. CASE CallCallback
    <2>1. js # "script" /\ draining.evs # <<>>
      BY <1>2 DEF CallCallback
    <2>2. seen \in Seq(Changes) /\ NextEvent \in Changes /\ seen' = Append(seen, NextEvent)
      BY <1>2, <1>h, <2>1 DEF CallCallback, TypeOK
    <2>3. seen' \in Seq(Changes)
      BY <2>2, AppendFacts
    <2>4. /\ draining' \in [copy : Copies \union {NoCopy}, evs : Seq(Changes)]
          /\ draining' # NoDrain /\ js' = "callback"
      BY <1>2, <1>h, <1>d, <2>1 DEF CallCallback, TypeOK
    <2> QED
      BY <1>2, <2>3, <2>4 DEF CallCallback, TypeOK, NoDrain, osVars, thrVars, closeVars, idVars
  <1>3. CASE Skip
    <2>1. js # "script" /\ draining.evs # <<>>
      BY <1>3 DEF Skip
    <2>2. lost' \in [Changes -> {"no", "throttled", "thrown", "taken", "closed"}]
      BY <1>3, <1>h, <2>1 DEF Skip, TypeOK
    <2> QED
      BY <1>3, <1>h, <1>d, <2>1, <2>2 DEF Skip, TypeOK, osVars, thrVars, closeVars, idVars
  <1>4. CASE CallbackReturns
    BY <1>4 DEF CallbackReturns, TypeOK, osVars, thrVars, closeVars, idVars
  <1>5. CASE CallbackThrows
    <2>1. lost' \in [Changes -> {"no", "throttled", "thrown", "taken", "closed"}]
      BY <1>5 DEF CallbackThrows, TypeOK
    <2>2. draining' = NoDrain /\ js' = "script"
      BY <1>5 DEF CallbackThrows, Abandoned
    <2>3. NoDrain \in [copy : Copies \union {NoCopy}, evs : Seq(Changes)]
      BY DEF NoDrain
    <2> QED
      BY <1>5, <2>1, <2>2, <2>3 DEF CallbackThrows, TypeOK, osVars, thrVars, closeVars, idVars
  <1>6. CASE PumpEnds
    BY <1>6 DEF PumpEnds, NoDrain, TypeOK, osVars, thrVars, closeVars, idVars
  <1> QED
    BY <1>1, <1>2, <1>3, <1>4, <1>5, <1>6 DEF PumpStep

LEMMA OpenCloseTypes ==
    ASSUME TypeOK, OneAtATime, OpenCloseStep
    PROVE  TypeOK'
  <1>1. ASSUME NEW c \in Copies, WatchDir(c) PROVE TypeOK'
    <2>1. /\ next_watch_id \in Ids /\ next_watch_id \in Int
          /\ MaxIds \in Nat /\ gen \in 0 .. MaxGen
      BY <1>1, WatchAssumption DEF WatchDir, TypeOK, Ids
    <2>2. next_watch_id' \in 1 .. MaxIds + 1
      BY <1>1, <2>1 DEF WatchDir, Ids
    <2>3. owner' \in [Ids -> [gen : 0 .. MaxGen, copy : Copies \union {NoCopy}, late : BOOLEAN]]
      <3>1. (hooked[c] = "ran") \in BOOLEAN
        OBVIOUS
      <3> QED
        BY <1>1, <2>1, <3>1 DEF WatchDir, TypeOK
    <2>4. /\ hDir' \in [Ids -> {"none", "open", "armed", "closed"}]
          /\ at' \in [Ids -> {"none", "loop", "call", "blocked", "failed", "events", "ended"}]
          /\ opening' \in Ids \union {NoId}
      BY <1>1, <2>1 DEF WatchDir, TypeOK
    <2> QED
      BY <1>1, <2>2, <2>3, <2>4 DEF WatchDir, TypeOK, jsVars, closeVars
  <1>2. ASSUME NEW i \in Ids, Close(i) PROVE TypeOK'
    <2>1. closes' \in [Ids -> 0 .. 2]
      <3>1. closes[i] \in 0 .. 2 /\ closes[i] < 2
        BY <1>2 DEF Close, TypeOK
      <3>2. closes[i] + 1 \in 0 .. 2
        BY <3>1
      <3> QED
        BY <1>2, <3>2 DEF Close, TypeOK
    <2>2. to_close' \in Seq(Ids)
      <3>1. to_close' = <<i>>
        BY <1>2 DEF Close
      <3> QED
        BY <3>1
    <2>3. callbacks' \in [Copies -> SUBSET Ids]
      BY <1>2 DEF Close, Forgets, TypeOK
    <2> QED
      BY <1>2, <2>1, <2>2, <2>3 DEF Close, TypeOK, osVars, thrVars, idVars
  <1>3. CASE Opened
    <2>1. opening \in Ids
      BY <1>3 DEF Opened, TypeOK
    <2>2. /\ callbacks' \in [Copies -> SUBSET Ids] /\ pumping' \in [Copies -> BOOLEAN]
          /\ hooked' \in [Copies -> {"none", "listed", "ran"}]
      <3> DEFINE c == owner[opening].copy
      <3>1. /\ callbacks' = [callbacks EXCEPT ![c] = callbacks[c] \union {opening}]
            /\ pumping' = [pumping EXCEPT ![c] = TRUE]
            /\ \E h \in Hooked(c) : hooked' = [hooked EXCEPT ![c] = h]
        BY <1>3 DEF Opened
      <3> HIDE DEF c
      <3>h. PICK h \in Hooked(c) : hooked' = [hooked EXCEPT ![c] = h]
        BY <3>1
      <3>5. c \in Copies => h \in {"none", "listed", "ran"}
        BY DEF Hooked, TypeOK
      <3>2. callbacks' \in [Copies -> SUBSET Ids]
        BY <2>1, <3>1 DEF TypeOK
      <3>3. pumping' \in [Copies -> BOOLEAN]
        BY <3>1 DEF TypeOK
      <3>4. hooked' \in [Copies -> {"none", "listed", "ran"}]
        BY <3>h, <3>5 DEF TypeOK
      <3> QED
        BY <3>2, <3>3, <3>4
    <2>3. /\ emitted' \in [Ids -> BOOLEAN] /\ watches' \subseteq Ids
          /\ opening' \in Ids \union {NoId}
      BY <1>3, <2>1 DEF Opened, TypeOK
    <2> QED
      BY <1>3, <2>2, <2>3 DEF Opened, TypeOK, osVars, closeVars, idVars
  <1>c. to_close # <<>> => Head(to_close) \in Ids /\ Tail(to_close) \in Seq(Ids)
    BY DEF TypeOK
  <1>4. CASE CloseCancel
    <2>1. closing' \in Ids /\ closing' # NoId /\ close_step' = "handle"
      BY <1>4, <1>c DEF CloseCancel, NoId, Ids
    <2>2. terminated' \in [Ids -> BOOLEAN]
      BY <1>4, <2>1 DEF CloseCancel, TypeOK
    <2>3. at' \in [Ids -> {"none", "loop", "call", "blocked", "failed", "events", "ended"}]
      BY <1>4, <2>1 DEF CloseCancel, TypeOK
    <2> QED
      BY <1>4, <2>1, <2>2, <2>3 DEF CloseCancel, TypeOK, osVars, jsVars, idVars
  <1>5. CASE CloseHandle
    <2>1. closing # NoId /\ closing' = closing /\ close_step' = "join"
      BY <1>5 DEF CloseHandle, TypeOK
    <2>2. hDir' \in [Ids -> {"none", "open", "armed", "closed"}]
      BY <1>5 DEF CloseHandle, Handle, TypeOK
    <2>3. at' \in [Ids -> {"none", "loop", "call", "blocked", "failed", "events", "ended"}]
      BY <1>5 DEF CloseHandle, TypeOK
    <2>4. pending' \in [Ids -> Seq(Changes)]
      <3>1. <<>> \in Seq(Changes)
        OBVIOUS
      <3> QED
        BY <1>5, <3>1 DEF CloseHandle, TypeOK
    <2> QED
      BY <1>5, <2>1, <2>2, <2>3, <2>4 DEF CloseHandle, TypeOK, jsVars, idVars
  <1>p. PumpingAfter \in [Copies -> BOOLEAN]
    <2> DEFINE c == owner[Head(to_close)].copy
    <2> HIDE DEF c
    <2>1. [pumping EXCEPT ![c] = pumping[c] /\ PumpKept(c)] \in [Copies -> BOOLEAN]
      BY DEF TypeOK, PumpKept
    <2> QED
      BY <2>1 DEF PumpingAfter, c
  <1>6. CASE CloseJoin
    <2>1. to_close # <<>> /\ closing' = NoId /\ close_step' = "none"
      BY <1>6 DEF CloseJoin, TypeOK, OneAtATime
    <2> QED
      BY <1>6, <1>c, <1>p, <2>1 DEF CloseJoin, TypeOK, osVars, thrVars, idVars
  <1>7. CASE CloseUnknown
    BY <1>7, <1>c, <1>p DEF CloseUnknown, TypeOK, osVars, thrVars, idVars
  <1>8. CASE Shutdown
    <2>1. to_close' \in Seq(Ids)
      <3> DEFINE S == UNION {ClosedBy(c) : c \in Listed}
      <3>1. S \in SUBSET Ids
        BY DEF ClosedBy, Listed, TypeOK
      <3>2. IsFiniteSet(S)
        <4>1. IsFiniteSet(Ids)
          BY WatchAssumption, FS_Interval DEF Ids
        <4> QED
          BY <3>1, <4>1, FS_Subset
      <3> HIDE DEF S
      <3>3. SetToSeq(S) \in Seq(S)
        BY <3>2, SetListed
      <3>4. SetToSeq(S) \in Seq(Ids)
        BY <3>1, <3>3
      <3> QED
        BY <1>8, <3>4 DEF Shutdown, S
    <2>2. callbacks' \in [Copies -> SUBSET Ids]
      BY <1>8 DEF Shutdown, TypeOK
    <2>3. pumping' \in [Copies -> BOOLEAN]
      <3>1. \A c \in Copies : (pumping[c] /\ c \notin Listed) \in BOOLEAN
        OBVIOUS
      <3> QED
        BY <1>8, <3>1 DEF Shutdown
    <2>4. hooked' \in [Copies -> {"none", "listed", "ran"}]
      BY <1>8 DEF Shutdown, TypeOK
    <2> QED
      BY <1>8, <2>1, <2>2, <2>3, <2>4 DEF Shutdown, TypeOK, osVars, thrVars, idVars
  <1>9. CASE Restart
    <2>1. gen' \in 1 .. MaxGen
      BY <1>9, WatchAssumption DEF Restart, TypeOK
    <2>2. /\ callbacks' \in [Copies -> SUBSET Ids] /\ pumping' \in [Copies -> BOOLEAN]
          /\ hooked' \in [Copies -> {"none", "listed", "ran"}]
      BY <1>9 DEF Restart
    <2> QED
      BY <1>9, <2>1, <2>2 DEF Restart, TypeOK, osVars, thrVars, closeVars
  <1> QED
    BY <1>1, <1>2, <1>3, <1>4, <1>5, <1>6, <1>7, <1>8, <1>9 DEF OpenCloseStep

LEMMA TypeStep ==
    ASSUME TypeOK, OneAtATime, [Next]_vars PROVE TypeOK'
  <1>1. CASE UNCHANGED kept /\ looping' \in {looping, ~looping}
    BY <1>1 DEF kept, osVars, thrVars, jsVars, closeVars, TypeOK
  <1> QED
    BY <1>1, ThreadTypes, PumpTypes, OpenCloseTypes, NextCases

(***************************************************************************)
(* Watches and their threads.                                              *)
(***************************************************************************)
\* A thread's own step: only a thread that runs takes one; it waits in the directory it
\* called for, and that handle is open.
LEMMA ThreadMoves ==
    ASSUME TypeOK, NEW i \in Ids, Change(i) \/ ReadFails(i) \/ ThreadStep(i)
    PROVE  /\ at' = at \/ (at[i] \notin {"none", "ended"}
                           /\ \E y \in {"loop", "call", "blocked", "failed", "events", "ended"} :
                                 at' = [at EXCEPT ![i] = y])
           /\ at'[i] = "blocked" => at[i] = "blocked" \/ hDir[i] # "closed"
           /\ hDir' = hDir \/ (hDir[i] = "open" /\ hDir' = [hDir EXCEPT ![i] = "armed"]
                               /\ at[i] = "call")
  <1>0. at \in [Ids -> {"none", "loop", "call", "blocked", "failed", "events", "ended"}]
    BY DEF TypeOK
  <1>1. CASE Change(i)
    BY <1>1 DEF Change, thrVars
  <1>2. CASE ReadFails(i)
    BY <1>0, <1>2 DEF ReadFails, osVars
  <1>3. CASE ThreadLoop(i)
    BY <1>0, <1>3 DEF ThreadLoop, Moves, osVars
  <1>4. CASE ThreadCall(i)
    <2>1. /\ at[i] = "call"
          /\ at' = [at EXCEPT ![i] = IF hDir[i] = "closed" THEN "failed" ELSE "blocked"]
          /\ hDir' = [hDir EXCEPT ![i] = IF hDir[i] = "open" THEN "armed" ELSE hDir[i]]
      BY <1>4 DEF ThreadCall, Moves
    <2>2. hDir' = hDir \/ (hDir[i] = "open" /\ hDir' = [hDir EXCEPT ![i] = "armed"])
      BY <2>1 DEF TypeOK
    <2> QED
      BY <1>0, <2>1, <2>2
  <1>5. CASE ThreadRead(i)
    BY <1>0, <1>5 DEF ThreadRead, Moves
  <1>6. CASE ThreadFailed(i)
    BY <1>0, <1>6 DEF ThreadFailed, Moves, osVars
  <1>7. CASE ThreadEvent(i)
    BY <1>7 DEF ThreadEvent, osVars
  <1>8. CASE ThreadEvents(i)
    BY <1>0, <1>8 DEF ThreadEvents, Moves, osVars
  <1> QED
    BY <1>1, <1>2, <1>3, <1>4, <1>5, <1>6, <1>7, <1>8 DEF ThreadStep

LEMMA GoneStep ==
    ASSUME TypeOK, OneAtATime, GoneWithThread, [Next]_vars PROVE GoneWithThread'
  <1>0. /\ at \in [Ids -> {"none", "loop", "call", "blocked", "failed", "events", "ended"}]
        /\ hDir \in [Ids -> {"none", "open", "armed", "closed"}]
        /\ NoId \notin Ids
    BY WatchAssumption DEF TypeOK, NoId, Ids
  <1>1. ASSUME NEW i \in Ids, Change(i) \/ ReadFails(i) \/ ThreadStep(i) PROVE GoneWithThread'
    <2>1. UNCHANGED <<watches, opening>>
      BY <1>1, ThreadFrame
    <2> QED
      BY <1>0, <1>1, <2>1, ThreadMoves DEF GoneWithThread
  <1>2. CASE PumpStep
    BY <1>2, PumpFrame DEF GoneWithThread, osVars
  <1>3. CASE UNCHANGED kept
    BY <1>3 DEF kept, osVars, thrVars, GoneWithThread
  <1>4. ASSUME NEW c \in Copies, WatchDir(c) PROVE GoneWithThread'
    BY <1>0, <1>4 DEF WatchDir, InUser, Busy, GoneWithThread
  <1>5. ASSUME NEW i \in Ids, Close(i) PROVE GoneWithThread'
    BY <1>5 DEF Close, osVars, thrVars, GoneWithThread
  <1>6. CASE Opened
    BY <1>6 DEF Opened, osVars, GoneWithThread
  <1>7. CASE CloseCancel
    <2>1. PICK k \in Ids : k = closing'
      BY <1>7 DEF CloseCancel, TypeOK
    <2> QED
      BY <1>0, <1>7, <2>1 DEF CloseCancel, osVars, GoneWithThread
  <1>8. CASE CloseHandle
    <2>1. PICK k \in Ids : k = closing
      BY <1>8 DEF CloseHandle, TypeOK
    <2>2. /\ hDir' = [hDir EXCEPT ![k] = "closed"]
          /\ at' = [at EXCEPT ![k] = IF at[k] = "blocked" THEN "failed" ELSE at[k]]
          /\ UNCHANGED <<watches, opening>>
      BY <1>0, <1>8, <2>1 DEF CloseHandle, Handle
    <2> QED
      BY <1>0, <2>2 DEF GoneWithThread
  <1>9. CASE CloseJoin
    BY <1>0, <1>9 DEF CloseJoin, Joined, osVars, thrVars, GoneWithThread
  <1>10. CASE CloseUnknown
    BY <1>10 DEF CloseUnknown, osVars, thrVars, GoneWithThread
  <1>11. CASE Shutdown
    BY <1>11 DEF Shutdown, osVars, thrVars, GoneWithThread
  <1>12. CASE Restart
    BY <1>12 DEF Restart, osVars, thrVars, GoneWithThread
  <1> QED
    BY <1>1, <1>2, <1>3, <1>4, <1>5, <1>6, <1>7, <1>8, <1>9, <1>10, <1>11, <1>12,
       NextCases DEF OpenCloseStep

LEMMA OneStep ==
    ASSUME TypeOK, OneAtATime, Fresh, [Next]_vars PROVE OneAtATime'
  <1>0. /\ NoId \notin Ids /\ NoCopy \notin Copies /\ to_close \in Seq(Ids)
        /\ watches \subseteq Ids /\ opening \in Ids \union {NoId}
        /\ closing = NoId <=> close_step = "none"
        /\ js \in {"script", "pump", "callback"}
        /\ draining \in [copy : Copies \union {NoCopy}, evs : Seq(Changes)]
    BY WatchAssumption DEF TypeOK, NoId, Ids
  <1>1. CASE \E i \in Ids : Change(i) \/ ReadFails(i) \/ ThreadStep(i)
    BY <1>1, ThreadFrame DEF OneAtATime, Busy, jsVars, closeVars
  <1>2. CASE PumpStep
    <2>1. UNCHANGED <<closeVars, watches, opening>>
      BY <1>2, PumpFrame
    <2>2. ASSUME NEW c \in Copies, Pump(c)
          PROVE  ~Busy /\ draining'.copy \in Copies
      BY <2>2 DEF Pump
    <2>3. CASE CallCallback
      BY <1>0, <2>1, <2>3 DEF CallCallback, OneAtATime, Busy, closeVars
    <2>4. CASE Skip
      BY <1>0, <2>1, <2>4 DEF Skip, OneAtATime, Busy, closeVars
    <2>5. CASE CallbackReturns
      BY <1>0, <2>1, <2>5 DEF CallbackReturns, OneAtATime, Busy, closeVars
    <2>6. CASE CallbackThrows
      BY <1>0, <2>1, <2>6 DEF CallbackThrows, OneAtATime, Busy, closeVars
    <2>7. CASE PumpEnds
      BY <1>0, <2>1, <2>7 DEF PumpEnds, OneAtATime, Busy, closeVars
    <2>8. CASE \E c \in Copies : Pump(c)
      BY <2>1, <2>2, <2>8 DEF OneAtATime, Busy, closeVars
    <2> QED
      BY <1>2, <2>3, <2>4, <2>5, <2>6, <2>7, <2>8 DEF PumpStep
  <1>3. CASE UNCHANGED kept
    BY <1>3 DEF kept, jsVars, closeVars, OneAtATime, Busy
  <1>4. ASSUME NEW c \in Copies, WatchDir(c) PROVE OneAtATime'
    BY <1>0, <1>4 DEF WatchDir, InUser, Busy, OneAtATime, jsVars, closeVars
  <1>5. ASSUME NEW i \in Ids, Close(i) PROVE OneAtATime'
    BY <1>0, <1>5 DEF Close, InUser, Busy, OneAtATime, idVars
  <1>6. CASE Opened
    BY <1>0, <1>6 DEF Opened, Busy, OneAtATime, closeVars
  <1>7. CASE CloseCancel
    BY <1>0, <1>7 DEF CloseCancel, Busy, OneAtATime, jsVars
  <1>8. CASE CloseHandle
    BY <1>0, <1>8 DEF CloseHandle, Busy, OneAtATime, jsVars
  <1>9. CASE CloseJoin
    <2>1. closing # NoId /\ closing' = NoId /\ UNCHANGED <<js, draining, opening>>
      BY <1>0, <1>9 DEF CloseJoin
    <2>2. opening = NoId
      BY <2>1 DEF OneAtATime
    <2> QED
      BY <2>1, <2>2 DEF OneAtATime, Busy
  <1>10. CASE CloseUnknown
    <2>1. closing = NoId /\ to_close # <<>> /\ UNCHANGED <<js, draining, opening, closing>>
      BY <1>0, <1>10 DEF CloseUnknown
    <2>2. opening = NoId
      BY <2>1 DEF OneAtATime
    <2> QED
      BY <2>1, <2>2 DEF OneAtATime, Busy
  <1>11. CASE Shutdown
    BY <1>0, <1>11 DEF Shutdown, InUser, Busy, OneAtATime
  <1>12. CASE Restart
    BY <1>0, <1>12 DEF Restart, Busy, OneAtATime, closeVars
  <1> QED
    BY <1>1, <1>2, <1>3, <1>4, <1>5, <1>6, <1>7, <1>8, <1>9, <1>10, <1>11, <1>12,
       NextCases DEF OpenCloseStep

LEMMA FreshStep ==
    ASSUME TypeOK, OneAtATime, GoneWithThread, Fresh, [Next]_vars PROVE Fresh'
  <1>0. /\ NoId \notin Ids /\ watches \subseteq Ids /\ opening \in Ids \union {NoId}
        /\ NoId < next_watch_id /\ next_watch_id \in Int /\ Ids \subseteq Int
        /\ closing = NoId <=> close_step = "none"
        /\ closing \in Ids \union {NoId}
    BY WatchAssumption DEF TypeOK, NoId, Ids
  <1>t. /\ at \in [Ids -> {"none", "loop", "call", "blocked", "failed", "events", "ended"}]
        /\ hDir \in [Ids -> {"none", "open", "armed", "closed"}]
        /\ terminated \in [Ids -> BOOLEAN]
    BY DEF TypeOK
  <1>1. ASSUME NEW i \in Ids, Change(i) \/ ReadFails(i) \/ ThreadStep(i) PROVE Fresh'
    <2>1. UNCHANGED <<watches, terminated, opening, next_watch_id>>
      BY <1>1, ThreadFrame DEF idVars
    <2> QED
      BY <1>0, <1>t, <1>1, <2>1, ThreadMoves DEF Fresh
  <1>2. CASE PumpStep
    BY <1>2, PumpFrame DEF Fresh, osVars, idVars
  <1>3. CASE UNCHANGED kept
    BY <1>3 DEF kept, osVars, thrVars, idVars, Fresh
  <1>4. ASSUME NEW c \in Copies, WatchDir(c) PROVE Fresh'
    <2>1. /\ next_watch_id \in Ids /\ next_watch_id' = next_watch_id + 1
          /\ opening = NoId /\ opening' = next_watch_id
          /\ UNCHANGED <<watches, terminated>>
          /\ \A i \in Ids : i >= next_watch_id' => hDir'[i] = hDir[i] /\ at'[i] = at[i]
      BY <1>0, <1>t, <1>4 DEF WatchDir, InUser, Busy
    <2> QED
      BY <1>0, <2>1 DEF Fresh
  <1>5. ASSUME NEW i \in Ids, Close(i) PROVE Fresh'
    BY <1>5 DEF Close, osVars, thrVars, idVars, Fresh
  <1>6. CASE Opened
    BY <1>0, <1>6 DEF Opened, osVars, idVars, Fresh
  <1>7. CASE CloseCancel
    <2>1. PICK k \in Ids : k = closing' /\ k \in watches
      BY <1>0, <1>7 DEF CloseCancel
    <2>2. k < next_watch_id /\ k # opening
      BY <2>1 DEF Fresh
    <2>3. /\ UNCHANGED <<watches, opening, hDir, next_watch_id>>
          /\ terminated' = [terminated EXCEPT ![k] = TRUE]
          /\ \A i \in Ids : i # k => at'[i] = at[i]
      BY <1>t, <1>7, <2>1 DEF CloseCancel, osVars, idVars
    <2>4. \A i \in Ids : i # k => terminated'[i] = terminated[i]
      BY <1>t, <2>3
    <2> QED
      BY <1>0, <2>1, <2>2, <2>3, <2>4 DEF Fresh
  <1>8. CASE CloseHandle
    <2>1. PICK k \in Ids : k = closing /\ k \in watches
      BY <1>0, <1>8 DEF CloseHandle, OneAtATime
    <2>2. k < next_watch_id
      BY <2>1 DEF Fresh
    <2>3. /\ UNCHANGED <<watches, opening, terminated, next_watch_id>>
          /\ \A i \in Ids : i # k => hDir'[i] = hDir[i] /\ at'[i] = at[i]
      BY <1>t, <1>8, <2>1 DEF CloseHandle, idVars
    <2> QED
      BY <1>0, <2>2, <2>3 DEF Fresh
  <1>9. CASE CloseJoin
    BY <1>9 DEF CloseJoin, osVars, thrVars, idVars, Fresh
  <1>10. CASE CloseUnknown
    BY <1>10 DEF CloseUnknown, osVars, thrVars, idVars, Fresh
  <1>11. CASE Shutdown
    BY <1>11 DEF Shutdown, osVars, thrVars, idVars, Fresh
  <1>12. CASE Restart
    BY <1>12 DEF Restart, osVars, thrVars, Fresh
  <1> QED
    BY <1>1, <1>2, <1>3, <1>4, <1>5, <1>6, <1>7, <1>8, <1>9, <1>10, <1>11, <1>12,
       NextCases DEF OpenCloseStep

LEMMA OwnedStep ==
    ASSUME TypeOK, OneAtATime, Fresh, Owned, [Next]_vars PROVE Owned'
  <1>0. /\ NoId \notin Ids /\ watches \subseteq Ids /\ opening \in Ids \union {NoId}
        /\ gen \in Int /\ next_watch_id \in Int
        /\ owner \in [Ids -> [gen : 0 .. MaxGen, copy : Copies \union {NoCopy}, late : BOOLEAN]]
        /\ \A i \in Ids : owner[i].gen \in Int
    BY WatchAssumption DEF TypeOK, NoId, Ids
  <1>1. CASE ~OpenCloseStep
    BY <1>1, WatchFrame DEF Owned, idVars
  <1>2. ASSUME NEW c \in Copies, WatchDir(c) PROVE Owned'
    <2>1. PICK k \in Ids : k = next_watch_id
      BY <1>2 DEF WatchDir
    <2>2. /\ opening' = k /\ gen' = gen /\ watches' = watches /\ opening = NoId
          /\ owner' = [owner EXCEPT ![k] = [gen |-> gen, copy |-> c, late |-> hooked[c] = "ran"]]
      BY <1>0, <1>2, <2>1 DEF WatchDir, InUser, Busy
    <2>3. owner'[k].gen = gen /\ owner'[k].copy = c /\ k \notin watches
      BY <1>0, <2>1, <2>2 DEF Fresh
    <2>4. \A i \in Ids : i # k => owner'[i] = owner[i]
      BY <1>0, <2>2
    <2> QED
      BY <1>0, <2>2, <2>3, <2>4 DEF Owned
  <1>3. CASE \E i \in Ids : Close(i)
    BY <1>3 DEF Close, idVars, Owned
  <1>4. CASE Opened
    BY <1>0, <1>4 DEF Opened, idVars, Owned
  <1>5. CASE CloseCancel
    BY <1>5 DEF CloseCancel, idVars, Owned
  <1>6. CASE CloseHandle
    BY <1>6 DEF CloseHandle, idVars, Owned
  <1>7. CASE CloseJoin
    BY <1>7 DEF CloseJoin, idVars, Owned
  <1>8. CASE CloseUnknown
    BY <1>8 DEF CloseUnknown, idVars, Owned
  <1>9. CASE Shutdown
    BY <1>9 DEF Shutdown, idVars, Owned
  <1>10. CASE Restart
    BY <1>0, <1>10 DEF Restart, Busy, Owned
  <1> QED
    BY <1>1, <1>2, <1>3, <1>4, <1>5, <1>6, <1>7, <1>8, <1>9, <1>10 DEF OpenCloseStep

\* The list of watches to close, as a set: what is dropped from its front.
LEMMA ToClose ==
    ASSUME TypeOK
    PROVE  /\ ToSet(to_close) \subseteq Ids
           /\ \A k \in DOMAIN to_close : to_close[k] \in ToSet(to_close)
           /\ to_close = <<>> => ToSet(to_close) = {}
           /\ to_close # <<>> => /\ Head(to_close) \in ToSet(to_close)
                                 /\ ToSet(to_close) = {Head(to_close)} \union ToSet(Tail(to_close))
  <1>1. to_close \in Seq(Ids)
    BY DEF TypeOK
  <1>2. \A k \in DOMAIN to_close : to_close[k] \in ToSet(to_close)
    BY DEF ToSet
  <1> QED
    BY <1>1, <1>2, ListElements

\* Only watches of listed copies are closed by shutdown().
LEMMA ShutdownList ==
    ASSUME TypeOK, Shutdown
    PROVE  ToSet(to_close') = UNION {callbacks[c] : c \in Listed}
  <1> DEFINE S == UNION {callbacks[c] : c \in Listed}
  <1>1. S \in SUBSET Ids
    BY DEF Listed, TypeOK
  <1>2. IsFiniteSet(S)
    <2>1. IsFiniteSet(Ids)
      BY WatchAssumption, FS_Interval DEF Ids
    <2> QED
      BY <1>1, <2>1, FS_Subset
  <1>3. to_close' = SetToSeq(S)
    BY DEF Shutdown, ClosedBy
  <1> HIDE DEF S
  <1>4. ToSet(to_close') = S
    BY <1>2, <1>3, SetListed
  <1> QED
    BY <1>4 DEF S

LEMMA RegisteredStep ==
    ASSUME TypeOK, OneAtATime, Fresh, Owned, Registered, [Next]_vars PROVE Registered'
  <1>0. /\ NoId \notin Ids /\ watches \subseteq Ids /\ opening \in Ids \union {NoId}
        /\ closing \in Ids \union {NoId} /\ closing = NoId <=> close_step = "none"
        /\ gen \in Int /\ next_watch_id \in Int /\ Ids \subseteq Int
        /\ \A i \in Ids : owner[i].gen \in Int
        /\ callbacks \in [Copies -> SUBSET Ids] /\ terminated \in [Ids -> BOOLEAN]
    BY WatchAssumption DEF TypeOK, NoId, Ids
  <1>o. owner \in [Ids -> [gen : 0 .. MaxGen, copy : Copies \union {NoCopy}, late : BOOLEAN]]
    BY DEF TypeOK
  \* The same, with the list of watches to close as a set.
  <1> DEFINE Mine(c, i) == i \in watches /\ ~terminated[i] /\ owner[i].copy = c
             Q == ToSet(to_close)
  <1>r. /\ \A c \in Copies : \A i \in callbacks[c] : Mine(c, i)
        /\ \A c \in Copies : Q \intersect callbacks[c] = {}
        /\ \A i \in watches : owner[i].gen = gen => i \in callbacks[owner[i].copy] \/ i \in Q
    BY DEF Registered, ToSet
  <1> SUFFICES /\ \A c \in Copies : \A i \in callbacks'[c] : Mine(c, i)'
               /\ \A c \in Copies : Q' \intersect callbacks'[c] = {}
               /\ \A i \in watches' : owner'[i].gen = gen' =>
                     i \in callbacks'[owner'[i].copy] \/ i \in Q'
    BY DEF Registered, ToSet
  <1>q. /\ Q \subseteq Ids
        /\ to_close = <<>> => Q = {}
        /\ to_close # <<>> => Head(to_close) \in Q /\ Q = {Head(to_close)} \union ToSet(Tail(to_close))
    BY ToClose
  <1>e. to_close' = to_close => Q' = Q
    OBVIOUS
  <1>1. CASE ~OpenCloseStep
    BY <1>1, <1>r, WatchFrame DEF idVars, closeVars
  <1>2. ASSUME NEW c \in Copies, WatchDir(c)
        PROVE  /\ \A d \in Copies : \A i \in callbacks'[d] : Mine(d, i)'
               /\ \A d \in Copies : Q' \intersect callbacks'[d] = {}
               /\ \A i \in watches' : owner'[i].gen = gen' =>
                     i \in callbacks'[owner'[i].copy] \/ i \in Q'
    <2>1. /\ next_watch_id \in Ids /\ next_watch_id \notin watches
          /\ UNCHANGED <<watches, terminated, callbacks, to_close, gen>>
      BY <1>0, <1>2 DEF WatchDir, Fresh, jsVars, closeVars
    <2>2. \A i \in watches : owner'[i] = owner[i]
      BY <1>0, <1>o, <1>2, <2>1 DEF WatchDir
    <2> QED
      BY <1>r, <1>e, <2>1, <2>2
  <1>3. ASSUME NEW k \in Ids, Close(k)
        PROVE  /\ \A d \in Copies : \A i \in callbacks'[d] : Mine(d, i)'
               /\ \A d \in Copies : Q' \intersect callbacks'[d] = {}
               /\ \A i \in watches' : owner'[i].gen = gen' =>
                     i \in callbacks'[owner'[i].copy] \/ i \in Q'
    <2>1. /\ to_close' = <<k>> /\ UNCHANGED <<watches, terminated, owner, gen>> /\ Q = {}
          /\ callbacks' = [callbacks EXCEPT ![owner[k].copy] = callbacks[owner[k].copy] \ {k}]
      BY <1>3, <1>q DEF Close, InUser, Busy, Forgets, idVars
    <2>2. Q' = {k}
      BY <2>1 DEF ToSet
    <2>3. \A d \in Copies : /\ k \notin callbacks'[d] /\ callbacks'[d] \subseteq callbacks[d]
                            /\ callbacks[d] \subseteq callbacks'[d] \union {k}
      BY <1>0, <1>r, <2>1
    <2>4. \A i \in watches : owner[i].copy \in Copies
      BY <1>0 DEF Owned
    <2> QED
      BY <1>r, <2>1, <2>2, <2>3, <2>4
  <1>4. CASE Opened
    <2>1. PICK k \in Ids : k = opening
      BY <1>0, <1>4 DEF Opened
    <2>2. PICK c \in Copies : c = owner[k].copy
      BY <2>1 DEF Owned
    <2>3. /\ callbacks' = [callbacks EXCEPT ![c] = callbacks[c] \union {k}]
          /\ watches' = watches \union {k} /\ UNCHANGED <<terminated, owner, gen, to_close>>
          /\ Q = {} /\ ~terminated[k]
      BY <1>0, <1>4, <1>q, <2>1, <2>2 DEF Opened, OneAtATime, Fresh, closeVars, idVars
    <2>4. \A d \in Copies : /\ callbacks[d] \subseteq callbacks'[d]
                            /\ callbacks'[d] \subseteq callbacks[d] \union {k}
                            /\ k \in callbacks'[d] => d = c \/ k \in callbacks[d]
      BY <1>0, <2>3
    <2>5. k \in callbacks'[c]
      BY <1>0, <2>3
    <2>6. \A i \in watches : owner[i].copy \in Copies
      BY <1>0 DEF Owned
    <2> QED
      BY <1>r, <1>e, <2>2, <2>3, <2>4, <2>5, <2>6
  <1>5. CASE CloseCancel
    <2>1. PICK k \in Ids : k = Head(to_close) /\ k \in Q
      BY <1>0, <1>5, <1>q DEF CloseCancel
    <2>2. terminated' = [terminated EXCEPT ![k] = TRUE]
          /\ UNCHANGED <<watches, owner, gen, to_close, callbacks>>
      BY <1>5, <2>1 DEF CloseCancel, jsVars, idVars
    <2>3. \A i \in Ids : i # k => terminated'[i] = terminated[i]
      BY <1>0, <2>2
    <2> QED
      BY <1>0, <1>r, <1>e, <2>1, <2>2, <2>3
  <1>6. CASE CloseHandle
    BY <1>6, <1>r, <1>e DEF CloseHandle, jsVars, idVars
  <1>7. CASE CloseJoin
    <2>1. to_close # <<>> /\ Head(to_close) = closing
      BY <1>0, <1>7 DEF CloseJoin, OneAtATime
    <2>2. /\ to_close' = Tail(to_close) /\ watches' = watches \ {closing}
          /\ UNCHANGED <<owner, gen, callbacks, terminated>>
      BY <1>7 DEF CloseJoin, idVars
    <2>3. Q' \subseteq Q /\ Q \subseteq Q' \union {closing} /\ closing \in Q
      BY <1>q, <2>1, <2>2
    <2> QED
      BY <1>r, <2>2, <2>3
  <1>8. CASE CloseUnknown
    <2>1. to_close # <<>> /\ Head(to_close) \notin watches
      BY <1>8 DEF CloseUnknown
    <2>2. /\ to_close' = Tail(to_close)
          /\ UNCHANGED <<owner, gen, callbacks, terminated, watches>>
      BY <1>8 DEF CloseUnknown, idVars
    <2>3. Q' \subseteq Q /\ Q \subseteq Q' \union {Head(to_close)}
      BY <1>q, <2>1, <2>2
    <2> QED
      BY <1>r, <2>1, <2>2, <2>3
  <1>9. CASE Shutdown
    <2>1. Q' = UNION {callbacks[c] : c \in Listed} /\ Q = {}
      BY <1>9, <1>q, ShutdownList DEF Shutdown, InUser, Busy
    <2>2. /\ callbacks' = [c \in Copies |-> IF c \in Listed THEN {} ELSE callbacks[c]]
          /\ UNCHANGED <<owner, gen, terminated, watches>>
      BY <1>9 DEF Shutdown, ClosedBy, idVars
    <2>3. \A i \in watches : owner[i].copy \in Copies
      BY <1>0 DEF Owned
    <2> HIDE DEF Q
    <2>4. \A c \in Copies : \A i \in callbacks'[c] : Mine(c, i)'
      BY <1>r, <2>2
    <2>5. \A c \in Copies : Q' \intersect callbacks'[c] = {}
      <3> SUFFICES ASSUME NEW c \in Copies, NEW i \in callbacks'[c], i \in Q' PROVE FALSE
        OBVIOUS
      <3>1. PICK d \in Listed : i \in callbacks[d]
        BY <2>1
      <3>2. i \in callbacks[c] /\ c \notin Listed /\ d \in Copies
        BY <2>2, <3>1 DEF Listed
      <3> QED
        BY <1>r, <3>1, <3>2
    <2>6. ASSUME NEW i \in watches', owner'[i].gen = gen'
          PROVE  i \in callbacks'[owner'[i].copy] \/ i \in Q'
      <3>1. i \in callbacks[owner[i].copy] /\ owner[i].copy \in Copies
        BY <1>r, <2>1, <2>2, <2>3, <2>6
      <3> QED
        BY <2>1, <2>2, <3>1
    <2> QED
      BY <2>4, <2>5, <2>6
  <1>10. CASE Restart
    <2>1. /\ callbacks' = [c \in Copies |-> {}] /\ gen' = gen + 1
          /\ UNCHANGED <<owner, watches>>
      BY <1>10 DEF Restart
    <2>2. \A i \in watches : owner[i].gen # gen + 1
      BY <1>0 DEF Owned
    <2> QED
      BY <2>1, <2>2
  <1> QED
    BY <1>1, <1>2, <1>3, <1>4, <1>5, <1>6, <1>7, <1>8, <1>9, <1>10 DEF OpenCloseStep

(***************************************************************************)
(* The pumps and the hooks.                                                *)
(***************************************************************************)
\* What PumpingAfter makes of the pumps when the first watch of the list is dealt with.
LEMMA AfterClose ==
    ASSUME TypeOK, Pumped, to_close # <<>>,
           to_close' = Tail(to_close), pumping' = PumpingAfter,
           UNCHANGED <<callbacks, owner>>
    PROVE  Pumped'
  <1> DEFINE d == owner[Head(to_close)].copy
  <1>1. pumping' = [pumping EXCEPT ![d] = pumping[d] /\ callbacks[d] # {}]
    BY DEF PumpingAfter, PumpKept
  <1> HIDE DEF d
  <1>2. pumping \in [Copies -> BOOLEAN]
    BY DEF TypeOK
  <1>3. ASSUME NEW c \in Copies
        PROVE  pumping'[c] = IF c = d THEN pumping[c] /\ callbacks[c] # {} ELSE pumping[c]
    BY <1>1, <1>2
  <1>4. \A c \in Copies : callbacks[c] # {} => pumping'[c]
    BY <1>3 DEF Pumped
  <1>5. ASSUME NEW c \in Copies, pumping'[c], callbacks[c] = {}
        PROVE  \E k \in DOMAIN to_close' : owner[to_close'[k]].copy = c
    <2>1. c # d /\ pumping[c]
      BY <1>3, <1>5
    <2>2. PICK k \in DOMAIN to_close : owner[to_close[k]].copy = c
      BY <1>5, <2>1 DEF Pumped
    <2>3. to_close[k] # Head(to_close)
      BY <2>1, <2>2 DEF d
    <2>4. to_close[k] \in ToSet(Tail(to_close))
      BY <2>2, <2>3, ToClose
    <2>5. PICK j \in DOMAIN to_close' : to_close'[j] = to_close[k]
      BY <2>4 DEF ToSet
    <2> QED
      BY <2>2, <2>5
  <1> QED
    BY <1>4, <1>5 DEF Pumped

LEMMA PumpedStep ==
    ASSUME TypeOK, OneAtATime, Fresh, Owned, Registered, Pumped, [Next]_vars PROVE Pumped'
  <1>0. /\ NoId \notin Ids /\ watches \subseteq Ids /\ opening \in Ids \union {NoId}
        /\ closing = NoId <=> close_step = "none"
        /\ callbacks \in [Copies -> SUBSET Ids] /\ pumping \in [Copies -> BOOLEAN]
    BY WatchAssumption DEF TypeOK, NoId, Ids
  <1>e. to_close = <<>> => DOMAIN to_close = {}
    OBVIOUS
  <1>1. CASE ~OpenCloseStep
    BY <1>1, WatchFrame DEF idVars, closeVars, Pumped
  <1>2. ASSUME NEW c \in Copies, WatchDir(c) PROVE Pumped'
    BY <1>2, <1>e DEF WatchDir, InUser, Busy, jsVars, closeVars, Pumped
  <1>3. ASSUME NEW k \in Ids, Close(k) PROVE Pumped'
    <2>1. /\ to_close' = <<k>> /\ UNCHANGED <<owner, pumping>> /\ to_close = <<>>
          /\ callbacks' = [callbacks EXCEPT ![owner[k].copy] = callbacks[owner[k].copy] \ {k}]
      BY <1>3 DEF Close, InUser, Busy, Forgets, idVars
    <2>2. \A c \in Copies : /\ callbacks'[c] \subseteq callbacks[c]
                            /\ c # owner[k].copy => callbacks'[c] = callbacks[c]
      BY <1>0, <2>1
    <2>3. 1 \in DOMAIN to_close' /\ to_close'[1] = k
      BY <2>1
    <2>4. \A c \in Copies : callbacks'[c] # {} => pumping'[c]
      BY <2>1, <2>2 DEF Pumped
    <2>5. ASSUME NEW c \in Copies, pumping'[c], callbacks'[c] = {}
          PROVE  \E j \in DOMAIN to_close' : owner'[to_close'[j]].copy = c
      <3>1. c = owner[k].copy
        BY <1>e, <2>1, <2>2, <2>5 DEF Pumped
      <3> QED
        BY <2>1, <2>3, <3>1
    <2> QED
      BY <2>4, <2>5 DEF Pumped
  <1>4. CASE Opened
    <2>1. PICK k \in Ids : k = opening
      BY <1>0, <1>4 DEF Opened
    <2>2. PICK c \in Copies : c = owner[k].copy
      BY <2>1 DEF Owned
    <2>3. /\ callbacks' = [callbacks EXCEPT ![c] = callbacks[c] \union {k}]
          /\ pumping' = [pumping EXCEPT ![c] = TRUE]
          /\ UNCHANGED <<owner, to_close>> /\ to_close = <<>>
      BY <1>0, <1>4, <2>1, <2>2 DEF Opened, OneAtATime, closeVars, idVars
    <2>4. \A d \in Copies : /\ callbacks'[d] = IF d = c THEN callbacks[d] \union {k}
                                               ELSE callbacks[d]
                            /\ pumping'[d] = IF d = c THEN TRUE ELSE pumping[d]
      BY <1>0, <2>3
    <2>5. \A d \in Copies : callbacks'[d] # {} => pumping'[d]
      BY <2>4 DEF Pumped
    <2>6. ASSUME NEW d \in Copies, pumping'[d], callbacks'[d] = {} PROVE FALSE
      <3>1. d # c /\ pumping[d] /\ callbacks[d] = {}
        BY <2>4, <2>6
      <3> QED
        BY <1>e, <2>3, <3>1 DEF Pumped
    <2> QED
      BY <2>5, <2>6 DEF Pumped
  <1>5. CASE CloseCancel
    BY <1>5 DEF CloseCancel, jsVars, idVars, Pumped
  <1>6. CASE CloseHandle
    BY <1>6 DEF CloseHandle, jsVars, idVars, Pumped
  <1>7. CASE CloseJoin
    <2>1. to_close # <<>>
      BY <1>0, <1>7 DEF CloseJoin, OneAtATime
    <2> QED
      BY <1>7, <2>1, AfterClose DEF CloseJoin, idVars
  <1>8. CASE CloseUnknown
    BY <1>8, AfterClose DEF CloseUnknown, idVars
  <1>9. CASE Shutdown
    <2>1. /\ callbacks' = [c \in Copies |-> IF c \in Listed THEN {} ELSE callbacks[c]]
          /\ pumping' = [c \in Copies |-> pumping[c] /\ c \notin Listed]
          /\ to_close = <<>>
      BY <1>9 DEF Shutdown, ClosedBy, InUser, Busy
    <2> QED
      BY <1>e, <2>1 DEF Pumped
  <1>10. CASE Restart
    BY <1>10 DEF Restart, Pumped
  <1> QED
    BY <1>1, <1>2, <1>3, <1>4, <1>5, <1>6, <1>7, <1>8, <1>9, <1>10 DEF OpenCloseStep

LEMMA CoveredStep ==
    ASSUME TypeOK, OneAtATime, Fresh, Owned, Registered, Covered, [Next]_vars PROVE Covered'
  <1>0. /\ NoId \notin Ids /\ watches \subseteq Ids /\ opening \in Ids \union {NoId}
        /\ closing = NoId <=> close_step = "none"
        /\ gen \in Int /\ next_watch_id \in Int /\ Ids \subseteq Int
        /\ \A i \in Ids : owner[i].gen \in Int
        /\ owner \in [Ids -> [gen : 0 .. MaxGen, copy : Copies \union {NoCopy}, late : BOOLEAN]]
        /\ hooked \in [Copies -> {"none", "listed", "ran"}]
    <2>1. /\ owner \in [Ids -> [gen : 0 .. MaxGen, copy : Copies \union {NoCopy}, late : BOOLEAN]]
          /\ hooked \in [Copies -> {"none", "listed", "ran"}]
      BY DEF TypeOK
    <2>2. \A i \in Ids : owner[i].gen \in Int
      BY <2>1, WatchAssumption
    <2>3. /\ NoId \notin Ids /\ watches \subseteq Ids /\ opening \in Ids \union {NoId}
          /\ closing = NoId <=> close_step = "none"
          /\ gen \in Int /\ next_watch_id \in Int /\ Ids \subseteq Int
      BY WatchAssumption DEF TypeOK, NoId, Ids
    <2> QED
      BY <2>1, <2>2, <2>3
  <1>q. /\ to_close = <<>> => ToSet(to_close) = {}
        /\ to_close # <<>> => ToSet(to_close) = {Head(to_close)} \union ToSet(Tail(to_close))
    BY ToClose
  <1>1. CASE ~OpenCloseStep
    BY <1>1, WatchFrame DEF idVars, closeVars, Covered
  <1>2. ASSUME NEW c \in Copies, WatchDir(c) PROVE Covered'
    <2>1. PICK k \in Ids : k = next_watch_id /\ k \notin watches
      BY <1>0, <1>2 DEF WatchDir, Fresh
    <2>2. /\ owner' = [owner EXCEPT ![k] = [gen |-> gen, copy |-> c, late |-> hooked[c] = "ran"]]
          /\ opening' = k /\ UNCHANGED <<watches, hooked, to_close, gen>>
      BY <1>2, <2>1 DEF WatchDir, jsVars, closeVars
    <2>3. \A i \in Ids : i # k => owner'[i] = owner[i]
      BY <1>0, <2>2
    <2>4. owner'[k].copy = c /\ (owner'[k].late <=> hooked[c] = "ran")
      BY <1>0, <2>2
    <2> QED
      BY <1>0, <2>1, <2>2, <2>3, <2>4 DEF Covered
  <1>3. ASSUME NEW k \in Ids, Close(k) PROVE Covered'
    <2>1. /\ UNCHANGED <<watches, hooked, gen, owner, opening>> /\ to_close = <<>>
      BY <1>3 DEF Close, InUser, Busy, idVars
    <2> QED
      BY <1>q, <2>1 DEF Covered
  <1>4. CASE Opened
    <2>1. PICK k \in Ids : k = opening
      BY <1>0, <1>4 DEF Opened
    <2>2. PICK c \in Copies : c = owner[k].copy
      BY <2>1 DEF Owned
    <2>3. /\ UNCHANGED <<owner, to_close, gen>> /\ to_close = <<>>
          /\ watches' = watches \union {k} /\ opening' = NoId
      BY <1>0, <1>4, <2>1, <2>2 DEF Opened, OneAtATime, closeVars, idVars
    <2>h. PICK h \in Hooked(c) : hooked' = [hooked EXCEPT ![c] = h]
      BY <1>4, <2>1, <2>2 DEF Opened
    <2>4. \A d \in Copies : hooked'[d] = "ran" <=> hooked[d] = "ran"
      BY <1>0, <2>h DEF Hooked
    <2>5. \A i \in watches : owner[i].copy \in Copies
      BY <1>0 DEF Owned
    <2>6. owner[k].late <=> hooked[c] = "ran"
      BY <2>1, <2>2 DEF Covered
    <2>7. ASSUME NEW i \in watches', owner'[i].gen = gen', ~owner'[i].late
          PROVE  hooked'[owner'[i].copy] # "ran"
      <3>1. CASE i = k
        BY <2>2, <2>3, <2>4, <2>6, <2>7, <3>1
      <3>2. CASE i # k
        BY <1>q, <2>3, <2>4, <2>5, <2>7, <3>2 DEF Covered
      <3> QED
        BY <3>1, <3>2
    <2> QED
      BY <1>0, <2>3, <2>7 DEF Covered
  <1>5. CASE CloseCancel
    BY <1>5 DEF CloseCancel, jsVars, idVars, Covered
  <1>6. CASE CloseHandle
    BY <1>6 DEF CloseHandle, jsVars, idVars, Covered
  <1>7. CASE CloseJoin
    <2>1. to_close # <<>> /\ Head(to_close) = closing
      BY <1>0, <1>7 DEF CloseJoin, OneAtATime
    <2> QED
      BY <1>7, <1>q, <2>1 DEF CloseJoin, idVars, Covered
  <1>8. CASE CloseUnknown
    BY <1>8, <1>q DEF CloseUnknown, idVars, Covered
  <1>9. CASE Shutdown
    <2>1. /\ hooked' = [c \in Copies |-> IF c \in Listed THEN "ran" ELSE hooked[c]]
          /\ UNCHANGED <<owner, gen, watches, opening>>
          /\ to_close = <<>> /\ opening = NoId
      BY <1>9 DEF Shutdown, InUser, Busy, idVars
    <2>2. ToSet(to_close') = UNION {callbacks[c] : c \in Listed}
      BY <1>9, ShutdownList
    <2>3. ASSUME NEW i \in watches, owner[i].gen = gen, ~owner[i].late,
                 hooked'[owner[i].copy] = "ran"
          PROVE  i \in ToSet(to_close')
      <3>1. owner[i].copy \in Copies
        BY <1>0 DEF Owned
      <3>2. hooked[owner[i].copy] # "ran"
        BY <1>0, <1>q, <2>1, <2>3 DEF Covered
      <3>3. owner[i].copy \in Listed
        BY <2>1, <2>3, <3>1, <3>2
      <3>4. i \in callbacks[owner[i].copy]
        BY <1>q, <2>1, <2>3 DEF Registered
      <3> QED
        BY <2>2, <3>3, <3>4
    <2> QED
      BY <1>0, <2>1, <2>3 DEF Covered
  <1>10. CASE Restart
    <2>1. gen' = gen + 1 /\ opening' = NoId /\ UNCHANGED <<owner, watches>>
      BY <1>10 DEF Restart, Busy
    <2>2. \A i \in watches : owner[i].gen # gen + 1
      BY <1>0 DEF Owned
    <2> QED
      BY <1>0, <2>1, <2>2 DEF Covered
  <1> QED
    BY <1>1, <1>2, <1>3, <1>4, <1>5, <1>6, <1>7, <1>8, <1>9, <1>10 DEF OpenCloseStep

(***************************************************************************)
(* The way of a change: which step moves what from one place to the next.  *)
(***************************************************************************)
LEMMA PlacesTyped ==
    ASSUME TypeOK
    PROVE  /\ Queue \subseteq Changes /\ Drained \subseteq Changes /\ Shown \subseteq Changes
           /\ \A i \in Ids : Read(i) \subseteq Changes /\ Held(i) \subseteq Changes
           /\ Changes \subseteq Int /\ next_change \in Int
  <1>1. /\ event_queue \in Seq(Changes) /\ draining.evs \in Seq(Changes) /\ seen \in Seq(Changes)
        /\ \A i \in Ids : pending[i] \in Seq(Changes) /\ batch[i] \in Seq(Changes)
        /\ next_change \in Int
    BY WatchAssumption DEF TypeOK
  <1>2. Changes \subseteq Int
    BY WatchAssumption DEF Changes
  <1> QED
    BY <1>1, <1>2, ListElements DEF Queue, Drained, Shown, Read, Held

LEMMA ChangeMoves ==
    ASSUME TypeOK, NEW i \in Ids, Change(i)
    PROVE  /\ next_change \in Changes /\ next_change' = next_change + 1
           /\ hDir[i] = "armed"
           /\ of' = [of EXCEPT ![next_change] = i]
           /\ pending' = [pending EXCEPT ![i] = Append(pending[i], next_change)]
           /\ \A j \in Ids : Held(j)' = IF j = i THEN Held(i) \union {next_change} ELSE Held(j)
           /\ UNCHANGED <<batch, event_queue, draining, seen, lost>>
  <1>1. /\ next_change \in Changes /\ next_change' = next_change + 1 /\ hDir[i] = "armed"
        /\ of' = [of EXCEPT ![next_change] = i]
        /\ pending' = [pending EXCEPT ![i] = Append(pending[i], next_change)]
        /\ UNCHANGED <<batch, event_queue, draining, seen, lost>>
    BY DEF Change, thrVars, jsVars
  <1>2. pending \in [Ids -> Seq(Changes)]
    BY DEF TypeOK
  <1>3. ToSet(Append(pending[i], next_change)) = Held(i) \union {next_change}
    BY <1>1, <1>2, ListElements DEF Held
  <1>4. ASSUME NEW j \in Ids
        PROVE  Held(j)' = IF j = i THEN Held(i) \union {next_change} ELSE Held(j)
    BY <1>1, <1>2, <1>3 DEF Held
  <1> QED
    BY <1>1, <1>4

LEMMA ReadMoves ==
    ASSUME TypeOK, ReadBatch, NEW i \in Ids, ThreadRead(i)
    PROVE  /\ Read(i) = {}
           /\ batch' = [batch EXCEPT ![i] = pending[i]]
           /\ pending' = [pending EXCEPT ![i] = <<>>]
           /\ \A j \in Ids : /\ Read(j)' = IF j = i THEN Held(i) ELSE Read(j)
                             /\ Held(j)' = IF j = i THEN {} ELSE Held(j)
           /\ UNCHANGED <<of, next_change, event_queue, draining, seen, lost>>
  <1>1. /\ batch' = [batch EXCEPT ![i] = pending[i]] /\ pending' = [pending EXCEPT ![i] = <<>>]
        /\ UNCHANGED <<of, next_change, event_queue, draining, seen, lost>> /\ at[i] = "blocked"
    BY DEF ThreadRead, Moves, jsVars
  <1>2. pending \in [Ids -> Seq(Changes)] /\ batch \in [Ids -> Seq(Changes)] /\ batch[i] = <<>>
    BY <1>1 DEF TypeOK, ReadBatch
  <1>3. ToSet(<<>>) = {}
    BY DEF ToSet
  <1>4. ASSUME NEW j \in Ids
        PROVE  /\ Read(j)' = IF j = i THEN Held(i) ELSE Read(j)
               /\ Held(j)' = IF j = i THEN {} ELSE Held(j)
    BY <1>1, <1>2, <1>3 DEF Held, Read
  <1> QED
    BY <1>1, <1>2, <1>3, <1>4 DEF Read

LEMMA EventMoves ==
    ASSUME TypeOK, NEW i \in Ids, ThreadEvent(i)
    PROVE  LET h == Head(batch[i])
           IN  /\ batch[i] # <<>> /\ h \in Read(i)
               /\ batch' = [batch EXCEPT ![i] = Tail(batch[i])]
               /\ Read(i) = {h} \union Read(i)'
               /\ \A j \in Ids : j # i => Read(j)' = Read(j)
               /\ \/ /\ event_queue' = event_queue
                     /\ lost' = [lost EXCEPT ![h] = "throttled"]
                  \/ /\ event_queue' = Append(event_queue, h)
                     /\ Queue' = Queue \union {h} /\ lost' = lost
               /\ UNCHANGED <<of, next_change, pending, draining, seen, at>>
  <1> DEFINE h == Head(batch[i])
  <1>1. /\ batch[i] # <<>> /\ batch' = [batch EXCEPT ![i] = Tail(batch[i])]
        /\ UNCHANGED <<of, next_change, pending, draining, seen, at>>
        /\ \/ event_queue' = event_queue /\ lost' = [lost EXCEPT ![h] = "throttled"]
           \/ event_queue' = Append(event_queue, h) /\ lost' = lost
    BY DEF ThreadEvent, QueuePush, osVars, jsVars
  <1>2. batch \in [Ids -> Seq(Changes)] /\ batch[i] \in Seq(Changes) /\ event_queue \in Seq(Changes)
    BY DEF TypeOK
  <1>3. h \in ToSet(batch[i]) /\ ToSet(batch[i]) = {h} \union ToSet(Tail(batch[i])) /\ h \in Changes
    BY <1>1, <1>2, ListElements
  <1> HIDE DEF h
  <1>4. ToSet(Append(event_queue, h)) = Queue \union {h}
    BY <1>2, <1>3, ListElements DEF Queue
  <1>5. /\ Read(i)' = ToSet(Tail(batch[i]))
        /\ \A j \in Ids : j # i => Read(j)' = Read(j)
    BY <1>1, <1>2 DEF Read
  <1>6. event_queue' = Append(event_queue, h) => Queue' = Queue \union {h}
    BY <1>4 DEF Queue
  <1>7. h \in Read(i) /\ Read(i) = {h} \union Read(i)'
    BY <1>3, <1>5 DEF Read
  <1> QED
    BY <1>1, <1>5, <1>6, <1>7 DEF h

LEMMA DropMoves ==
    ASSUME TypeOK, NEW i \in Ids, ThreadEvents(i)
    PROVE  /\ Read(i) = {} \/ terminated[i]
           /\ batch' = [batch EXCEPT ![i] = <<>>]
           /\ \A j \in Ids : Read(j)' = IF j = i THEN {} ELSE Read(j)
           /\ UNCHANGED <<of, next_change, pending, event_queue, draining, seen, lost>>
  <1>1. /\ batch[i] = <<>> \/ terminated[i]
        /\ batch' = [batch EXCEPT ![i] = <<>>]
        /\ UNCHANGED <<of, next_change, pending, event_queue, draining, seen, lost>>
    BY DEF ThreadEvents, Moves, osVars, jsVars
  <1>2. batch \in [Ids -> Seq(Changes)] /\ ToSet(<<>>) = {}
    BY DEF TypeOK, ToSet
  <1> QED
    BY <1>1, <1>2 DEF Read

LEMMA HandleMoves ==
    ASSUME TypeOK, OneAtATime, CloseHandle
    PROVE  /\ closing \in Ids /\ closing \in ToSet(to_close)
           /\ pending' = [pending EXCEPT ![closing] = <<>>]
           /\ \A j \in Ids : Held(j)' = IF j = closing THEN {} ELSE Held(j)
           /\ UNCHANGED <<of, next_change, batch, event_queue, draining, seen, lost>>
  <1>1. closing \in Ids /\ closing \in ToSet(to_close)
    <2>1. closing \in Ids /\ closing # NoId
      BY DEF CloseHandle, TypeOK
    <2>2. to_close # <<>> /\ Head(to_close) = closing
      BY <2>1 DEF OneAtATime
    <2> QED
      BY <2>1, <2>2, ToClose
  <1>2. /\ pending' = [pending EXCEPT ![closing] = <<>>]
        /\ UNCHANGED <<of, next_change, batch, event_queue, draining, seen, lost>>
    BY DEF CloseHandle, jsVars
  <1>3. pending \in [Ids -> Seq(Changes)] /\ ToSet(<<>>) = {}
    BY DEF TypeOK, ToSet
  <1> QED
    BY <1>1, <1>2, <1>3 DEF Held

LEMMA PumpMoves ==
    ASSUME TypeOK, NEW c \in Copies, Pump(c)
    PROVE  /\ Drained = {} /\ Drained' = Queue /\ Queue' = {}
           /\ event_queue' = <<>> /\ draining'.evs = event_queue
           /\ UNCHANGED <<of, next_change, pending, batch, seen, lost>>
  <1>1. /\ draining = NoDrain /\ event_queue' = <<>> /\ draining'.evs = event_queue
        /\ UNCHANGED <<of, next_change, pending, batch, seen, lost>>
    BY DEF Pump, TypeOK, osVars
  <1> QED
    BY <1>1 DEF NoDrain, Drained, Queue, ToSet

\* The event the pump comes to leaves the batch.
LEMMA NextMoves ==
    ASSUME TypeOK, CallCallback \/ Skip
    PROVE  /\ draining.evs # <<>> /\ draining'.evs = Tail(draining.evs)
           /\ NextEvent \in Changes /\ NextEvent \in Drained
           /\ NextEvent = Head(draining.evs)
           /\ Drained = {NextEvent} \union Drained'
           /\ UNCHANGED <<of, next_change, pending, batch, event_queue>>
  <1>1. /\ draining.evs # <<>> /\ draining' = [draining EXCEPT !.evs = Tail(draining.evs)]
        /\ UNCHANGED <<of, next_change, pending, batch, event_queue>>
    BY DEF CallCallback, Skip, osVars, thrVars
  <1>2. /\ draining \in [copy : Copies \union {NoCopy}, evs : Seq(Changes)]
        /\ draining.evs \in Seq(Changes)
    BY DEF TypeOK
  <1>3. draining'.evs = Tail(draining.evs)
    BY <1>1, <1>2
  <1>4. /\ NextEvent \in ToSet(draining.evs) /\ ToSet(draining.evs) \subseteq Changes
        /\ ToSet(draining.evs) = {NextEvent} \union ToSet(Tail(draining.evs))
    BY <1>1, <1>2, ListElements DEF NextEvent
  <1> QED
    BY <1>1, <1>3, <1>4 DEF Drained, NextEvent

LEMMA ShownMoves ==
    ASSUME TypeOK, CallCallback
    PROVE  /\ seen' = Append(seen, NextEvent) /\ Shown' = Shown \union {NextEvent}
           /\ lost' = lost
  <1>1. seen' = Append(seen, NextEvent) /\ lost' = lost
    BY DEF CallCallback
  <1>2. seen \in Seq(Changes) /\ NextEvent \in Changes
    BY NextMoves DEF TypeOK
  <1> QED
    BY <1>1, <1>2, ListElements DEF Shown

\* The end of a pump, also by an exception.
LEMMA EndMoves ==
    ASSUME TypeOK, CallbackThrows \/ PumpEnds
    PROVE  /\ draining'.evs = <<>> /\ Drained' = {}
           /\ PumpEnds => Drained = {} /\ lost' = lost
           /\ CallbackThrows =>
                 lost' = [n \in Changes |-> IF n \in Drained THEN "thrown" ELSE lost[n]]
           /\ UNCHANGED <<of, next_change, pending, batch, event_queue, seen>>
  <1>1. ToSet(<<>>) = {}
    BY DEF ToSet
  <1>2. /\ draining' = NoDrain
        /\ UNCHANGED <<of, next_change, pending, batch, event_queue, seen>>
    BY DEF CallbackThrows, PumpEnds, Abandoned, osVars, thrVars
  <1>3. CASE PumpEnds
    BY <1>1, <1>2, <1>3 DEF PumpEnds, NoDrain, Drained, CallbackThrows
  <1>4. CASE CallbackThrows
    BY <1>1, <1>2, <1>4 DEF PumpEnds, NoDrain, Drained, CallbackThrows
  <1> QED
    BY <1>3, <1>4

\* The steps that move no change.
MovingStep ==
    \/ \E i \in Ids : Change(i) \/ ThreadRead(i) \/ ThreadEvent(i) \/ ThreadEvents(i)
    \/ CloseHandle \/ (\E c \in Copies : Pump(c)) \/ CallCallback \/ Skip
    \/ CallbackThrows \/ PumpEnds

LEMMA MovingFrame ==
    ASSUME [Next]_vars, ~MovingStep
    PROVE  UNCHANGED <<of, next_change, pending, batch, event_queue, draining, seen, lost>>
  <1>1. ASSUME NEW i \in Ids, Change(i) \/ ReadFails(i) \/ ThreadStep(i)
        PROVE  UNCHANGED <<of, next_change, pending, batch, event_queue, draining, seen, lost>>
    <2>1. ReadFails(i) \/ ThreadLoop(i) \/ ThreadCall(i) \/ ThreadFailed(i)
      BY <1>1 DEF MovingStep, ThreadStep
    <2> QED
      BY <2>1 DEF ReadFails, ThreadLoop, ThreadCall, ThreadFailed, osVars, jsVars
  <1>2. CASE PumpStep
    <2>1. CallbackReturns
      BY <1>2 DEF MovingStep, PumpStep
    <2> QED
      BY <2>1 DEF CallbackReturns, osVars, thrVars
  <1>3. CASE UNCHANGED kept
    BY <1>3 DEF kept, osVars, thrVars, jsVars
  <1>4. CASE OpenCloseStep
    <2>1. ASSUME NEW c \in Copies, WatchDir(c)
          PROVE  UNCHANGED <<of, next_change, pending, batch, event_queue, draining, seen, lost>>
      BY <2>1 DEF WatchDir, jsVars
    <2>2. ASSUME NEW i \in Ids, Close(i)
          PROVE  UNCHANGED <<of, next_change, pending, batch, event_queue, draining, seen, lost>>
      BY <2>2 DEF Close, osVars, thrVars
    <2>3. CASE Opened
      BY <2>3 DEF Opened, osVars
    <2>4. CASE CloseCancel
      BY <2>4 DEF CloseCancel, osVars, jsVars
    <2>5. CASE CloseJoin
      BY <2>5 DEF CloseJoin, osVars, thrVars
    <2>6. CASE CloseUnknown
      BY <2>6 DEF CloseUnknown, osVars, thrVars
    <2>7. CASE Shutdown
      BY <2>7 DEF Shutdown, osVars, thrVars
    <2>8. CASE Restart
      BY <2>8 DEF Restart, osVars, thrVars
    <2> QED
      BY <1>4, <2>1, <2>2, <2>3, <2>4, <2>5, <2>6, <2>7, <2>8 DEF OpenCloseStep, MovingStep
  <1> QED
    BY <1>1, <1>2, <1>3, <1>4, NextCases

(***************************************************************************)
(* The order of the changes.                                               *)
(***************************************************************************)
LEMMA RisingTail ==
    ASSUME NEW f, NEW s \in Seq(Changes), s # <<>>, Rising(f, s)
    PROVE  Rising(f, Tail(s)) /\ Ahead(f, {Head(s)}, ToSet(Tail(s)))
  <1>1. /\ Len(s) \in Nat \ {0} /\ DOMAIN s = 1 .. Len(s) /\ Head(s) = s[1]
        /\ DOMAIN Tail(s) = 1 .. Len(s) - 1
        /\ \A k \in 1 .. Len(s) - 1 : Tail(s)[k] = s[k + 1]
    OBVIOUS
  <1>2. Rising(f, Tail(s))
    <2> SUFFICES ASSUME NEW j \in DOMAIN Tail(s), NEW k \in DOMAIN Tail(s), j < k,
                        f[Tail(s)[j]] = f[Tail(s)[k]]
                 PROVE  Tail(s)[j] < Tail(s)[k]
      BY DEF Rising
    <2>1. j + 1 \in DOMAIN s /\ k + 1 \in DOMAIN s /\ j + 1 < k + 1
      BY <1>1
    <2> QED
      BY <1>1, <2>1 DEF Rising
  <1>3. ASSUME NEW k \in DOMAIN Tail(s), f[Head(s)] = f[Tail(s)[k]]
        PROVE  Head(s) < Tail(s)[k]
    <2>1. 1 \in DOMAIN s /\ k + 1 \in DOMAIN s /\ 1 < k + 1
      BY <1>1
    <2> QED
      BY <1>1, <1>3, <2>1 DEF Rising
  <1> QED
    BY <1>2, <1>3 DEF Ahead, ToSet

LEMMA RisingAppend ==
    ASSUME NEW f, NEW s \in Seq(Changes), NEW e \in Changes, Rising(f, s),
           Ahead(f, ToSet(s), {e})
    PROVE  Rising(f, Append(s, e))
  <1> DEFINE t == Append(s, e)
  <1>1. /\ Len(s) \in Nat /\ DOMAIN s = 1 .. Len(s) /\ DOMAIN t = 1 .. Len(s) + 1
        /\ \A k \in DOMAIN t : t[k] = IF k = Len(s) + 1 THEN e ELSE s[k]
    BY AppendFacts
  <1>2. \A k \in DOMAIN s : f[s[k]] = f[e] => s[k] < e
    BY DEF Ahead, ToSet
  <1> HIDE DEF t
  <1> SUFFICES ASSUME NEW j \in DOMAIN t, NEW k \in DOMAIN t, j < k, f[t[j]] = f[t[k]]
               PROVE  t[j] < t[k]
    BY DEF Rising, t
  <1>3. j \in DOMAIN s /\ t[j] = s[j]
    BY <1>1
  <1>4. CASE k = Len(s) + 1
    BY <1>1, <1>2, <1>3, <1>4
  <1>5. CASE k # Len(s) + 1
    <2>1. k \in DOMAIN s /\ t[k] = s[k]
      BY <1>1, <1>5
    <2> QED
      BY <1>3, <2>1 DEF Rising
  <1> QED
    BY <1>4, <1>5

LEMMA RisingEmpty == ASSUME NEW f PROVE Rising(f, <<>>)
  BY DEF Rising

\* The order of a list depends on the watches of its changes only.
LEMMA RisingSame ==
    ASSUME NEW f, NEW g, NEW s, Rising(f, s), \A n \in ToSet(s) : g[n] = f[n]
    PROVE  Rising(g, s)
  <1>1. \A k \in DOMAIN s : g[s[k]] = f[s[k]]
    BY DEF ToSet
  <1> QED
    BY <1>1 DEF Rising

LEMMA ReadBatchStep ==
    ASSUME TypeOK, OneAtATime, Fresh, ReadBatch, [Next]_vars PROVE ReadBatch'
  <1>0. /\ at \in [Ids -> {"none", "loop", "call", "blocked", "failed", "events", "ended"}]
        /\ batch \in [Ids -> Seq(Changes)]
        /\ closing = NoId <=> close_step = "none"
        /\ closing \in Ids \union {NoId} /\ next_watch_id \in Int
    BY WatchAssumption DEF TypeOK, Ids
  <1>1. ASSUME NEW i \in Ids, Change(i) \/ ReadFails(i) \/ ThreadStep(i) PROVE ReadBatch'
    <2>1. CASE Change(i)
      BY <2>1 DEF Change, thrVars, ReadBatch
    <2>2. CASE ReadFails(i)
      BY <1>0, <2>2 DEF ReadFails, ReadBatch
    <2>3. CASE ThreadLoop(i)
      BY <1>0, <2>3 DEF ThreadLoop, Moves, ReadBatch
    <2>4. CASE ThreadCall(i)
      BY <1>0, <2>4 DEF ThreadCall, Moves, ReadBatch
    <2>5. CASE ThreadRead(i)
      BY <1>0, <2>5 DEF ThreadRead, Moves, ReadBatch
    <2>6. CASE ThreadFailed(i)
      BY <1>0, <2>6 DEF ThreadFailed, Moves, ReadBatch
    <2>7. CASE ThreadEvent(i)
      BY <1>0, <2>7 DEF ThreadEvent, ReadBatch
    <2>8. CASE ThreadEvents(i)
      BY <1>0, <2>8 DEF ThreadEvents, Moves, ReadBatch
    <2> QED
      BY <1>1, <2>1, <2>2, <2>3, <2>4, <2>5, <2>6, <2>7, <2>8 DEF ThreadStep
  <1>2. CASE PumpStep
    BY <1>2, PumpFrame DEF ReadBatch
  <1>3. CASE UNCHANGED kept
    BY <1>3 DEF kept, thrVars, ReadBatch
  <1>4. ASSUME NEW c \in Copies, WatchDir(c) PROVE ReadBatch'
    <2>1. PICK k \in Ids : k = next_watch_id
      BY <1>4 DEF WatchDir
    <2>2. at' = [at EXCEPT ![k] = "loop"] /\ batch' = batch /\ at[k] = "none"
      BY <1>0, <1>4, <2>1 DEF WatchDir, Fresh
    <2> QED
      BY <1>0, <2>2 DEF ReadBatch
  <1>5. CASE CloseCancel
    <2>1. PICK k \in Ids : k = closing'
      BY <1>5 DEF CloseCancel, TypeOK
    <2>2. /\ at' = [at EXCEPT ![k] = IF at[k] = "blocked" THEN "failed" ELSE at[k]]
          /\ batch' = batch
      BY <1>5, <2>1 DEF CloseCancel
    <2> QED
      BY <1>0, <2>2 DEF ReadBatch
  <1>6. CASE CloseHandle
    <2>1. PICK k \in Ids : k = closing
      BY <1>0, <1>6 DEF CloseHandle
    <2>2. /\ \A i \in Ids : i # k => at'[i] = at[i]
          /\ at'[k] = at[k] \/ at[k] = "blocked"
          /\ batch' = batch
      BY <1>0, <1>6, <2>1 DEF CloseHandle
    <2> QED
      BY <1>0, <2>2 DEF ReadBatch
  <1>7. CASE \E i \in Ids : Close(i)
    BY <1>7 DEF Close, thrVars, ReadBatch
  <1>8. CASE Opened
    BY <1>8 DEF Opened, ReadBatch
  <1>9. CASE CloseJoin
    BY <1>9 DEF CloseJoin, thrVars, ReadBatch
  <1>10. CASE CloseUnknown
    BY <1>10 DEF CloseUnknown, thrVars, ReadBatch
  <1>11. CASE Shutdown
    BY <1>11 DEF Shutdown, thrVars, ReadBatch
  <1>12. CASE Restart
    BY <1>12 DEF Restart, thrVars, ReadBatch
  <1> QED
    BY <1>1, <1>2, <1>3, <1>4, <1>5, <1>6, <1>7, <1>8, <1>9, <1>10, <1>11, <1>12,
       NextCases DEF OpenCloseStep

\* An event that leaves the hands of its thread is in no other place; nor is the one the
\* pump comes to.
LEMMA OnePlace ==
    ASSUME TypeOK, Placed, Sorted, InLine
    PROVE  /\ \A i \in Ids : \A n \in Read(i) \union Held(i) :
                 n \notin Queue \union Drained \union Shown
           /\ \A i \in Ids : Read(i) \intersect Held(i) = {}
           /\ \A i, j \in Ids : i # j =>
                 (Read(i) \union Held(i)) \intersect (Read(j) \union Held(j)) = {}
           /\ (Drained \union Shown) \intersect Queue = {} /\ Shown \intersect Drained = {}
           /\ draining.evs # <<>> => Head(draining.evs) \notin ToSet(Tail(draining.evs))
           /\ \A i \in Ids : batch[i] # <<>> => Head(batch[i]) \notin ToSet(Tail(batch[i]))
  <1>1. /\ Queue \subseteq Int /\ Drained \subseteq Int /\ Shown \subseteq Int
        /\ \A i \in Ids : Read(i) \subseteq Int /\ Held(i) \subseteq Int
    BY PlacesTyped
  <1>2. \A n \in Int : ~(n < n)
    OBVIOUS
  <1>3. ASSUME NEW i \in Ids, NEW n \in Read(i) \union Held(i)
        PROVE  n \notin Queue \union Drained \union Shown
    BY <1>1, <1>2 DEF InLine, Ahead
  <1>4. ASSUME NEW i \in Ids PROVE Read(i) \intersect Held(i) = {}
    BY <1>1, <1>2 DEF InLine, Ahead
  <1>5. \A i, j \in Ids : i # j =>
           (Read(i) \union Held(i)) \intersect (Read(j) \union Held(j)) = {}
    BY DEF Placed
  <1>6. (Drained \union Shown) \intersect Queue = {} /\ Shown \intersect Drained = {}
    BY <1>1, <1>2 DEF InLine, Ahead
  <1>7. /\ draining.evs \in Seq(Changes) /\ \A i \in Ids : batch[i] \in Seq(Changes)
        /\ Changes \subseteq Int
    BY PlacesTyped DEF TypeOK
  <1>8. ASSUME NEW s \in Seq(Changes), s # <<>>, Rising(of, s)
        PROVE  Head(s) \notin ToSet(Tail(s))
    <2>1. Ahead(of, {Head(s)}, ToSet(Tail(s)))
      BY <1>8, RisingTail
    <2>2. Head(s) \in Changes
      BY <1>8
    <2>3. Head(s) \in Int
      BY <1>7, <2>2
    <2> QED
      BY <1>2, <2>1, <2>3 DEF Ahead
  <1> QED
    BY <1>3, <1>4, <1>5, <1>6, <1>7, <1>8 DEF Sorted

LEMMA SortedStep ==
    ASSUME TypeOK, OneAtATime, ReadBatch, Placed, Sorted, InLine, [Next]_vars
    PROVE  Sorted'
  <1>0. /\ event_queue \in Seq(Changes) /\ draining.evs \in Seq(Changes)
        /\ batch \in [Ids -> Seq(Changes)] /\ pending \in [Ids -> Seq(Changes)]
        /\ Changes \subseteq Int /\ next_change \in Int
    BY PlacesTyped DEF TypeOK
  <1>1. ASSUME NEW i \in Ids, Change(i) PROVE Sorted'
    <2>1. /\ next_change \in Changes
          /\ of' = [of EXCEPT ![next_change] = i]
          /\ pending' = [pending EXCEPT ![i] = Append(pending[i], next_change)]
          /\ UNCHANGED <<batch, event_queue, draining>>
      BY <1>1, ChangeMoves
    <2>2. \A n \in Changes : n < next_change => of'[n] = of[n]
      BY <1>0, <2>1 DEF TypeOK
    <2>3. /\ \A n \in Queue \union Drained : n < next_change /\ n \in Changes
          /\ \A j \in Ids : \A n \in Read(j) \union Held(j) : n < next_change /\ n \in Changes
      BY PlacesTyped DEF Placed, OnTheWay
    <2>4. Rising(of', event_queue) /\ Rising(of', draining.evs)
      BY <2>2, <2>3, RisingSame DEF Sorted, Queue, Drained
    <2>5. \A j \in Ids : Rising(of', batch[j])
      BY <2>2, <2>3, RisingSame DEF Sorted, Read
    <2>6. \A j \in Ids : Rising(of', pending[j])
      BY <2>2, <2>3, RisingSame DEF Sorted, Held
    <2>7. Rising(of', Append(pending[i], next_change))
      <3>1. Ahead(of', ToSet(pending[i]), {next_change})
        BY <2>3 DEF Held, Ahead
      <3> QED
        BY <1>0, <2>1, <2>6, <3>1, RisingAppend
    <2>8. \A j \in Ids : Rising(of', pending'[j])
      BY <1>0, <2>1, <2>6, <2>7
    <2> QED
      BY <2>1, <2>4, <2>5, <2>8 DEF Sorted
  <1>2. ASSUME NEW i \in Ids, ThreadRead(i) PROVE Sorted'
    <2>1. /\ batch' = [batch EXCEPT ![i] = pending[i]] /\ pending' = [pending EXCEPT ![i] = <<>>]
          /\ UNCHANGED <<of, event_queue, draining>>
      BY <1>2, ReadMoves
    <2>2. \A j \in Ids : Rising(of, batch'[j])
      BY <1>0, <2>1 DEF Sorted
    <2>3. \A j \in Ids : Rising(of, pending'[j])
      BY <1>0, <2>1, RisingEmpty DEF Sorted
    <2> QED
      BY <2>1, <2>2, <2>3 DEF Sorted
  <1>3. ASSUME NEW i \in Ids, ThreadEvent(i) PROVE Sorted'
    <2>1. PICK h : h = Head(batch[i])
      OBVIOUS
    <2>2. /\ batch[i] # <<>> /\ h \in Read(i)
          /\ batch' = [batch EXCEPT ![i] = Tail(batch[i])]
          /\ event_queue' = event_queue \/ event_queue' = Append(event_queue, h)
          /\ UNCHANGED <<of, pending, draining>>
      BY <1>3, <2>1, EventMoves
    <2>3. Rising(of, Tail(batch[i]))
      BY <1>0, <2>2, RisingTail DEF Sorted
    <2>4. \A j \in Ids : Rising(of, batch'[j])
      BY <1>0, <2>2, <2>3 DEF Sorted
    <2>5. Rising(of, Append(event_queue, h))
      <3>1. h \in Changes
        BY <2>2, PlacesTyped
      <3>2. Ahead(of, ToSet(event_queue), {h})
        BY <2>2 DEF InLine, Ahead, Queue
      <3> QED
        BY <1>0, <3>1, <3>2, RisingAppend DEF Sorted
    <2>6. Rising(of, event_queue')
      BY <2>2, <2>5 DEF Sorted
    <2> QED
      BY <2>2, <2>4, <2>6 DEF Sorted
  <1>4. ASSUME NEW i \in Ids, ThreadEvents(i) PROVE Sorted'
    <2>1. /\ batch' = [batch EXCEPT ![i] = <<>>] /\ UNCHANGED <<of, pending, event_queue, draining>>
      BY <1>4, DropMoves
    <2>2. \A j \in Ids : Rising(of, batch'[j])
      BY <1>0, <2>1, RisingEmpty DEF Sorted
    <2> QED
      BY <2>1, <2>2 DEF Sorted
  <1>5. CASE CloseHandle
    <2>1. /\ pending' = [pending EXCEPT ![closing] = <<>>]
          /\ UNCHANGED <<of, batch, event_queue, draining>>
      BY <1>5, HandleMoves
    <2>2. \A j \in Ids : Rising(of, pending'[j])
      BY <1>0, <2>1, RisingEmpty DEF Sorted
    <2> QED
      BY <2>1, <2>2 DEF Sorted
  <1>6. ASSUME NEW c \in Copies, Pump(c) PROVE Sorted'
    BY <1>6, PumpMoves, RisingEmpty DEF Sorted
  <1>7. CASE CallCallback \/ Skip
    <2>1. Rising(of, Tail(draining.evs))
      BY <1>0, <1>7, NextMoves, RisingTail DEF Sorted
    <2> QED
      BY <1>7, <2>1, NextMoves DEF Sorted
  <1>8. CASE CallbackThrows \/ PumpEnds
    BY <1>8, EndMoves, RisingEmpty DEF Sorted
  <1>9. CASE ~MovingStep
    BY <1>9, MovingFrame DEF Sorted
  <1> QED
    BY <1>1, <1>2, <1>3, <1>4, <1>5, <1>6, <1>7, <1>8, <1>9 DEF MovingStep

LEMMA InLineStep ==
    ASSUME TypeOK, OneAtATime, ReadBatch, Placed, Sorted, InLine, [Next]_vars
    PROVE  InLine'
  <1>0. /\ Queue \subseteq Changes /\ Drained \subseteq Changes /\ Shown \subseteq Changes
        /\ \A i \in Ids : Read(i) \subseteq Changes /\ Held(i) \subseteq Changes
        /\ Changes \subseteq Int /\ next_change \in Int
    BY PlacesTyped
  <1>1. ASSUME NEW i \in Ids, Change(i) PROVE InLine'
    <2>1. /\ next_change \in Changes /\ of' = [of EXCEPT ![next_change] = i]
          /\ \A j \in Ids : Held(j)' = IF j = i THEN Held(i) \union {next_change} ELSE Held(j)
          /\ Queue' = Queue /\ Drained' = Drained /\ Shown' = Shown
          /\ \A j \in Ids : Read(j)' = Read(j)
      BY <1>1, ChangeMoves DEF Queue, Drained, Shown, Read
    <2>2. \A n \in Changes : n < next_change => of'[n] = of[n]
      BY <1>0, <2>1 DEF TypeOK
    <2>3. /\ \A n \in Queue \union Drained \union Shown : n < next_change
          /\ \A j \in Ids : \A n \in Read(j) \union Held(j) : n < next_change
      BY <1>0 DEF Placed, OnTheWay
    <2>4. ASSUME NEW A, NEW B, A \subseteq Changes, B \subseteq Changes, Ahead(of, A, B),
                 \A n \in A \union B : n < next_change
          PROVE  Ahead(of', A, B) /\ Ahead(of', A, B \union {next_change})
      BY <2>2, <2>4 DEF Ahead
    <2>5. ASSUME NEW j \in Ids
          PROVE  /\ Ahead(of', Read(j), Held(j)')
                 /\ Ahead(of', Queue \union Drained \union Shown, Read(j) \union Held(j)')
      <3>1. /\ Ahead(of', Read(j), Held(j)) /\ Ahead(of', Read(j), Held(j) \union {next_change})
        BY <1>0, <2>3, <2>4 DEF InLine
      <3>2. LET A == Queue \union Drained \union Shown
                B == Read(j) \union Held(j)
            IN  Ahead(of', A, B) /\ Ahead(of', A, B \union {next_change})
        BY <1>0, <2>3, <2>4 DEF InLine
      <3>3. Held(j)' = Held(j) \/ Held(j)' = Held(j) \union {next_change}
        BY <2>1
      <3> QED
        BY <3>1, <3>2, <3>3 DEF Ahead
    <2>6. Ahead(of', Drained \union Shown, Queue) /\ Ahead(of', Shown, Drained)
      BY <1>0, <2>3, <2>4 DEF InLine
    <2> QED
      BY <2>1, <2>5, <2>6 DEF InLine
  <1>2. ASSUME NEW i \in Ids, ThreadRead(i) PROVE InLine'
    <2>1. /\ of' = of /\ Queue' = Queue /\ Drained' = Drained /\ Shown' = Shown
          /\ \A j \in Ids : /\ Read(j)' = IF j = i THEN Held(i) ELSE Read(j)
                            /\ Held(j)' = IF j = i THEN {} ELSE Held(j)
      BY <1>2, ReadMoves DEF Queue, Drained, Shown
    <2> QED
      BY <2>1 DEF InLine, Ahead
  <1>3. ASSUME NEW i \in Ids, ThreadEvent(i) PROVE InLine'
    <2>1. PICK h : h = Head(batch[i])
      OBVIOUS
    <2>2. /\ h \in Read(i) /\ Read(i) = {h} \union Read(i)' /\ of' = of
          /\ \A j \in Ids : j # i => Read(j)' = Read(j)
          /\ \A j \in Ids : Held(j)' = Held(j)
          /\ Queue' \subseteq Queue \union {h} /\ Drained' = Drained /\ Shown' = Shown
      BY <1>3, <2>1, EventMoves DEF Queue, Drained, Shown, Held
    <2>3. Ahead(of, {h}, Read(i)')
      <3>1. batch' = [batch EXCEPT ![i] = Tail(batch[i])] /\ batch[i] # <<>>
        BY <1>3, EventMoves
      <3>2. batch \in [Ids -> Seq(Changes)]
        BY DEF TypeOK
      <3> QED
        BY <2>1, <3>1, <3>2, RisingTail DEF Sorted, Read
    <2>4. \A j \in Ids : Read(j)' \subseteq Read(j)
      BY <2>2
    <2>5. ASSUME NEW j \in Ids
          PROVE  /\ Ahead(of, Read(j)', Held(j))
                 /\ Ahead(of, Queue \union Drained \union Shown, Read(j)' \union Held(j))
                 /\ Ahead(of, {h}, Read(j)' \union Held(j))
      <3>1. Ahead(of, Read(j), Held(j))
            /\ Ahead(of, Queue \union Drained \union Shown, Read(j) \union Held(j))
        BY DEF InLine
      <3>2. CASE j = i
        BY <2>2, <2>3, <2>4, <3>1, <3>2 DEF Ahead
      <3>3. CASE j # i
        <4>1. \A n \in Read(j) \union Held(j) : of[n] = j
          BY DEF Placed
        <4>2. of[h] = i
          BY <2>2 DEF Placed
        <4> QED
          BY <2>4, <3>1, <3>3, <4>1, <4>2 DEF Ahead
      <3> QED
        BY <3>2, <3>3
    <2>6. Ahead(of, Drained \union Shown, {h})
      BY <2>2 DEF InLine, Ahead
    <2>7. ASSUME NEW j \in Ids
          PROVE  Ahead(of, Queue' \union Drained \union Shown, Read(j)' \union Held(j))
      BY <2>2, <2>5 DEF Ahead
    <2>8. Ahead(of, Drained \union Shown, Queue')
      BY <2>2, <2>6 DEF InLine, Ahead
    <2> QED
      BY <2>2, <2>5, <2>7, <2>8 DEF InLine
  <1>4. ASSUME NEW i \in Ids, ThreadEvents(i) PROVE InLine'
    <2>1. /\ of' = of /\ Queue' = Queue /\ Drained' = Drained /\ Shown' = Shown
          /\ \A j \in Ids : /\ Read(j)' = IF j = i THEN {} ELSE Read(j)
                            /\ Held(j)' = Held(j)
      BY <1>4, DropMoves DEF Queue, Drained, Shown, Held
    <2> QED
      BY <2>1 DEF InLine, Ahead
  <1>5. CASE CloseHandle
    <2>1. /\ of' = of /\ Queue' = Queue /\ Drained' = Drained /\ Shown' = Shown
          /\ \A j \in Ids : /\ Read(j)' = Read(j)
                            /\ Held(j)' \subseteq Held(j)
      BY <1>5, HandleMoves DEF Queue, Drained, Shown, Read
    <2> QED
      BY <2>1 DEF InLine, Ahead
  <1>6. ASSUME NEW c \in Copies, Pump(c) PROVE InLine'
    <2>1. /\ of' = of /\ Drained' = Queue /\ Queue' = {} /\ Shown' = Shown
          /\ \A j \in Ids : Read(j)' = Read(j) /\ Held(j)' = Held(j)
      BY <1>6, PumpMoves DEF Shown, Read, Held
    <2> QED
      BY <2>1 DEF InLine, Ahead
  <1>7. CASE CallCallback \/ Skip
    <2>1. /\ of' = of /\ Queue' = Queue /\ Drained = {NextEvent} \union Drained'
          /\ \A j \in Ids : Read(j)' = Read(j) /\ Held(j)' = Held(j)
      BY <1>7, NextMoves DEF Queue, Read, Held
    <2>2. Shown' \subseteq Shown \union {NextEvent}
      BY <1>7, ShownMoves DEF Skip, Shown
    <2>3. Ahead(of, {NextEvent}, Drained')
      <3>1. draining.evs \in Seq(Changes)
        BY DEF TypeOK
      <3> QED
        BY <1>7, <3>1, NextMoves, RisingTail DEF Sorted, Drained
    <2>4. Drained' \subseteq Drained /\ NextEvent \in Drained
      BY <2>1
    <2>5. Drained' \union Shown' \subseteq Drained \union Shown
      BY <2>2, <2>4
    <2>6. Ahead(of, Shown', Drained')
      BY <2>2, <2>3, <2>4 DEF InLine, Ahead
    <2> QED
      BY <2>1, <2>5, <2>6 DEF InLine, Ahead
  <1>8. CASE CallbackThrows \/ PumpEnds
    <2>1. /\ of' = of /\ Queue' = Queue /\ Drained' = {} /\ Shown' = Shown
          /\ \A j \in Ids : Read(j)' = Read(j) /\ Held(j)' = Held(j)
      BY <1>8, EndMoves DEF Queue, Shown, Read, Held
    <2> QED
      BY <2>1 DEF InLine, Ahead
  <1>9. CASE ~MovingStep
    BY <1>9, MovingFrame DEF InLine, Queue, Drained, Shown, Read, Held
  <1> QED
    BY <1>1, <1>2, <1>3, <1>4, <1>5, <1>6, <1>7, <1>8, <1>9 DEF MovingStep

LEMMA PlacedStep ==
    ASSUME TypeOK, OneAtATime, ReadBatch, Placed, Sorted, InLine, [Next]_vars
    PROVE  Placed'
  <1>0. /\ Queue \subseteq Changes /\ Drained \subseteq Changes /\ Shown \subseteq Changes
        /\ \A i \in Ids : Read(i) \subseteq Changes /\ Held(i) \subseteq Changes
        /\ Changes \subseteq Int /\ next_change \in Int
        /\ lost \in [Changes -> {"no", "throttled", "thrown", "taken", "closed"}]
        /\ of \in [Changes -> Ids \union {NoId}]
    <2>1. /\ lost \in [Changes -> {"no", "throttled", "thrown", "taken", "closed"}]
          /\ of \in [Changes -> Ids \union {NoId}]
      BY DEF TypeOK
    <2> QED
      BY <2>1, PlacesTyped
  \* A step that brings nothing new on the way and loses nothing that stays on it.
  <1>k. ASSUME next_change' = next_change, of' = of,
               \A n \in Shown' : n \in Shown \/ n \in Drained,
               \A n \in Changes : OnTheWay(n)' => OnTheWay(n) /\ lost'[n] = lost[n],
               \A n \in Changes : n >= next_change => lost'[n] = lost[n],
               \A j \in Ids : \A n \in Read(j)' \union Held(j)' : n \in Read(j) \union Held(j)
        PROVE  Placed'
    <2>1. \A n \in Shown' : n < next_change'
      <3>1. \A n \in Drained : n < next_change
        BY <1>0 DEF Placed, OnTheWay
      <3> QED
        BY <1>k, <3>1 DEF Placed
    <2>2. \A n \in Changes : OnTheWay(n)' => n < next_change'
      BY <1>k DEF Placed
    <2>3. \A n \in Changes : OnTheWay(n)' \/ n >= next_change' => lost'[n] = "no"
      BY <1>k DEF Placed
    <2>4. \A j \in Ids : \A n \in Read(j)' \union Held(j)' : of'[n] = j
      BY <1>k DEF Placed
    <2> QED
      BY <2>1, <2>2, <2>3, <2>4 DEF Placed
  <1>1. ASSUME NEW i \in Ids, Change(i) PROVE Placed'
    <2>1. /\ next_change \in Changes /\ next_change' = next_change + 1
          /\ of' = [of EXCEPT ![next_change] = i] /\ lost' = lost
          /\ \A j \in Ids : Held(j)' = IF j = i THEN Held(i) \union {next_change} ELSE Held(j)
          /\ Queue' = Queue /\ Drained' = Drained /\ Shown' = Shown
          /\ \A j \in Ids : Read(j)' = Read(j)
      BY <1>1, ChangeMoves DEF Queue, Drained, Shown, Read
    <2>2. \A n \in Changes : /\ n < next_change => of'[n] = of[n]
                             /\ n = next_change => of'[n] = i
      BY <1>0, <2>1
    <2>3. \A n \in Changes : OnTheWay(n)' => OnTheWay(n) \/ n = next_change
      BY <2>1 DEF OnTheWay
    <2>4. \A n \in Shown' : n < next_change'
      BY <1>0, <2>1 DEF Placed
    <2>5. \A n \in Changes : OnTheWay(n)' => n < next_change'
      BY <1>0, <2>1, <2>3 DEF Placed
    <2>6. \A n \in Changes : OnTheWay(n)' \/ n >= next_change' => lost'[n] = "no"
      BY <1>0, <2>1, <2>3 DEF Placed
    <2>7. ASSUME NEW j \in Ids, NEW n \in Read(j)' \union Held(j)' PROVE of'[n] = j
      <3>1. n \in Read(j) \union Held(j) \/ (j = i /\ n = next_change)
        BY <2>1, <2>7
      <3>2. CASE n \in Read(j) \union Held(j)
        <4>1. n \in Changes /\ n < next_change /\ of[n] = j
          BY <1>0, <3>2 DEF Placed, OnTheWay
        <4> QED
          BY <2>2, <4>1
      <3> QED
        BY <2>1, <2>2, <3>1, <3>2
    <2> QED
      BY <2>4, <2>5, <2>6, <2>7 DEF Placed
  <1>2. ASSUME NEW i \in Ids, ThreadRead(i) PROVE Placed'
    <2>1. /\ of' = of /\ next_change' = next_change /\ lost' = lost
          /\ Queue' = Queue /\ Drained' = Drained /\ Shown' = Shown
          /\ \A j \in Ids : /\ Read(j)' = IF j = i THEN Held(i) ELSE Read(j)
                            /\ Held(j)' = IF j = i THEN {} ELSE Held(j)
      BY <1>2, ReadMoves DEF Queue, Drained, Shown
    <2>2. \A n \in Changes : OnTheWay(n)' => OnTheWay(n)
      BY <2>1 DEF OnTheWay
    <2> QED
      BY <1>k, <2>1, <2>2
  <1>3. ASSUME NEW i \in Ids, ThreadEvent(i) PROVE Placed'
    <2>1. PICK h : h = Head(batch[i])
      OBVIOUS
    <2>2. /\ h \in Read(i) /\ Read(i) = {h} \union Read(i)' /\ of' = of
          /\ next_change' = next_change
          /\ \A j \in Ids : j # i => Read(j)' = Read(j)
          /\ \A j \in Ids : Held(j)' = Held(j)
          /\ Drained' = Drained /\ Shown' = Shown
          /\ \/ Queue' = Queue /\ lost' = [lost EXCEPT ![h] = "throttled"]
             \/ Queue' = Queue \union {h} /\ lost' = lost
      BY <1>3, <2>1, EventMoves DEF Queue, Drained, Shown, Held
    <2>3. h \in Changes /\ h < next_change
      BY <1>0, <2>2 DEF Placed, OnTheWay
    <2>4. \A n \in Changes : OnTheWay(n)' => OnTheWay(n)
      BY <2>2 DEF OnTheWay
    <2>5. CASE lost' = lost
      BY <1>k, <2>2, <2>4, <2>5
    <2>6. CASE Queue' = Queue /\ lost' = [lost EXCEPT ![h] = "throttled"]
      <3>1. h \notin Read(i)'
        <4>1. batch' = [batch EXCEPT ![i] = Tail(batch[i])] /\ batch[i] # <<>>
          BY <1>3, EventMoves
        <4>2. batch \in [Ids -> Seq(Changes)]
          BY DEF TypeOK
        <4>3. Read(i)' = ToSet(Tail(batch[i]))
          BY <4>1, <4>2 DEF Read
        <4> QED
          BY <2>1, <4>1, <4>3, OnePlace
      <3>2. h \notin Queue /\ h \notin Drained /\ \A j \in Ids : h \notin Held(j)
        BY <2>2, OnePlace
      <3>3. \A j \in Ids : h \notin Read(j)'
        BY <2>2, <3>1, OnePlace
      <3>4. ~OnTheWay(h)'
        BY <2>2, <2>6, <3>2, <3>3 DEF OnTheWay
      <3>5. \A n \in Changes : n # h => lost'[n] = lost[n]
        BY <1>0, <2>6
      <3>6. \A n \in Changes : OnTheWay(n)' => OnTheWay(n) /\ lost'[n] = lost[n]
        BY <2>4, <3>4, <3>5
      <3>7. \A n \in Changes : n >= next_change => lost'[n] = lost[n]
        BY <1>0, <2>3, <3>5
      <3> QED
        BY <1>k, <2>2, <3>6, <3>7
    <2> QED
      BY <2>2, <2>5, <2>6
  <1>4. ASSUME NEW i \in Ids, ThreadEvents(i) PROVE Placed'
    <2>1. /\ of' = of /\ next_change' = next_change /\ lost' = lost
          /\ Queue' = Queue /\ Drained' = Drained /\ Shown' = Shown
          /\ \A j \in Ids : /\ Read(j)' = IF j = i THEN {} ELSE Read(j)
                            /\ Held(j)' = Held(j)
      BY <1>4, DropMoves DEF Queue, Drained, Shown, Held
    <2>2. \A n \in Changes : OnTheWay(n)' => OnTheWay(n)
      BY <2>1 DEF OnTheWay
    <2> QED
      BY <1>k, <2>1, <2>2
  <1>5. CASE CloseHandle
    <2>1. /\ of' = of /\ next_change' = next_change /\ lost' = lost
          /\ Queue' = Queue /\ Drained' = Drained /\ Shown' = Shown
          /\ \A j \in Ids : /\ Read(j)' = Read(j)
                            /\ Held(j)' \subseteq Held(j)
      BY <1>5, HandleMoves DEF Queue, Drained, Shown, Read
    <2>2. \A n \in Changes : OnTheWay(n)' => OnTheWay(n)
      BY <2>1 DEF OnTheWay
    <2> QED
      BY <1>k, <2>1, <2>2
  <1>6. ASSUME NEW c \in Copies, Pump(c) PROVE Placed'
    <2>1. /\ of' = of /\ next_change' = next_change /\ lost' = lost
          /\ Drained' = Queue /\ Queue' = {} /\ Shown' = Shown
          /\ \A j \in Ids : Read(j)' = Read(j) /\ Held(j)' = Held(j)
      BY <1>6, PumpMoves DEF Shown, Read, Held
    <2>2. \A n \in Changes : OnTheWay(n)' => OnTheWay(n)
      BY <2>1 DEF OnTheWay
    <2> QED
      BY <1>k, <2>1, <2>2
  <1>7. CASE CallCallback \/ Skip
    <2>0. PICK h \in Changes : h = NextEvent
      BY <1>7, NextMoves
    <2>1. /\ of' = of /\ next_change' = next_change
          /\ Queue' = Queue /\ Drained = {h} \union Drained'
          /\ \A j \in Ids : Read(j)' = Read(j) /\ Held(j)' = Held(j)
      BY <1>7, <2>0, NextMoves DEF Queue, Read, Held
    <2>2. Shown' \subseteq Shown \union {h}
      BY <1>7, <2>0, ShownMoves DEF Skip, Shown
    <2>3. \A n \in Changes : OnTheWay(n)' => OnTheWay(n)
      BY <2>1 DEF OnTheWay
    <2>4. ~OnTheWay(h)' /\ h < next_change
      <3>1. h \notin Drained'
        BY <1>7, <2>0, NextMoves, OnePlace DEF Drained
      <3>2. h \notin Queue /\ \A j \in Ids : h \notin Read(j) \union Held(j)
        BY <2>1, OnePlace
      <3>3. h < next_change
        BY <2>1 DEF OnTheWay, Placed
      <3> QED
        BY <2>1, <3>1, <3>2, <3>3 DEF OnTheWay
    <2>5. \A n \in Changes : n # h => lost'[n] = lost[n]
      <3>1. CASE CallCallback
        BY <3>1, ShownMoves
      <3>2. CASE Skip
        <4>1. PICK w : lost' = [lost EXCEPT ![h] = w]
          BY <2>0, <3>2 DEF Skip
        <4> QED
          BY <1>0, <4>1
      <3> QED
        BY <1>7, <3>1, <3>2
    <2>6. \A n \in Changes : OnTheWay(n)' => OnTheWay(n) /\ lost'[n] = lost[n]
      BY <2>3, <2>4, <2>5
    <2>7. \A n \in Changes : n >= next_change => lost'[n] = lost[n]
      BY <1>0, <2>4, <2>5
    <2>8. \A n \in Shown' : n \in Shown \/ n \in Drained
      BY <2>1, <2>2
    <2> QED
      BY <1>k, <2>1, <2>6, <2>7, <2>8
  <1>8. CASE CallbackThrows \/ PumpEnds
    <2>1. /\ of' = of /\ next_change' = next_change
          /\ Queue' = Queue /\ Drained' = {} /\ Shown' = Shown
          /\ \A j \in Ids : Read(j)' = Read(j) /\ Held(j)' = Held(j)
      BY <1>8, EndMoves DEF Queue, Shown, Read, Held
    <2>2. \A n \in Changes : n \notin Drained => lost'[n] = lost[n]
      BY <1>8, EndMoves
    <2>3. \A n \in Changes : OnTheWay(n)' => OnTheWay(n) /\ n \notin Drained
      BY <2>1, OnePlace DEF OnTheWay
    <2>4. \A n \in Changes : n >= next_change => n \notin Drained
      BY <1>0 DEF Placed, OnTheWay
    <2> QED
      BY <1>k, <2>1, <2>2, <2>3, <2>4
  <1>9. CASE ~MovingStep
    <2>1. /\ of' = of /\ next_change' = next_change /\ lost' = lost
          /\ Queue' = Queue /\ Drained' = Drained /\ Shown' = Shown
          /\ \A j \in Ids : Read(j)' = Read(j) /\ Held(j)' = Held(j)
      BY <1>9, MovingFrame DEF Queue, Drained, Shown, Read, Held
    <2>2. \A n \in Changes : OnTheWay(n)' => OnTheWay(n)
      BY <2>1 DEF OnTheWay
    <2> QED
      BY <1>k, <2>1, <2>2
  <1> QED
    BY <1>1, <1>2, <1>3, <1>4, <1>5, <1>6, <1>7, <1>8, <1>9 DEF MovingStep

(***************************************************************************)
(* No change is forgotten.                                                 *)
(***************************************************************************)
\* A watch gets a callback, or is about to, only when it is opened.
LEMMA LiveStep ==
    ASSUME TypeOK, OneAtATime, Fresh, Owned, Registered, [Next]_vars,
           NEW i \in Ids, i < next_watch_id, Live(i)'
    PROVE  Live(i)
  <1>0. /\ NoId \notin Ids /\ next_watch_id \in Int /\ opening \in Ids \union {NoId}
        /\ callbacks \in [Copies -> SUBSET Ids]
    BY WatchAssumption DEF TypeOK, NoId, Ids
  <1>1. CASE ~OpenCloseStep
    BY <1>1, WatchFrame DEF Live
  <1>2. ASSUME NEW c \in Copies, WatchDir(c) PROVE Live(i)
    <2>1. opening' = next_watch_id /\ callbacks' = callbacks
      BY <1>2 DEF WatchDir, jsVars
    <2> QED
      BY <1>0, <2>1 DEF Live
  <1>3. ASSUME NEW k \in Ids, Close(k) PROVE Live(i)
    <2>1. opening' = opening /\ \A c \in Copies : callbacks'[c] \subseteq callbacks[c]
      BY <1>0, <1>3 DEF Close, Forgets
    <2> QED
      BY <2>1 DEF Live
  <1>4. CASE Opened
    <2>1. PICK k \in Ids : k = opening
      BY <1>0, <1>4 DEF Opened
    <2>2. PICK c \in Copies : c = owner[k].copy
      BY <2>1 DEF Owned
    <2>3. callbacks' = [callbacks EXCEPT ![c] = callbacks[c] \union {k}] /\ opening' = NoId
      BY <1>4, <2>1, <2>2 DEF Opened
    <2>4. \A d \in Copies : callbacks'[d] \subseteq callbacks[d] \union {k}
      BY <1>0, <2>3
    <2> QED
      BY <1>0, <2>1, <2>3, <2>4 DEF Live
  <1>5. CASE CloseCancel
    BY <1>5 DEF CloseCancel, jsVars, Live
  <1>6. CASE CloseHandle
    BY <1>6 DEF CloseHandle, jsVars, Live
  <1>7. CASE CloseJoin
    BY <1>7 DEF CloseJoin, Live
  <1>8. CASE CloseUnknown
    BY <1>8 DEF CloseUnknown, Live
  <1>9. CASE Shutdown
    <2>1. opening' = opening /\ \A c \in Copies : callbacks'[c] \subseteq callbacks[c]
      BY <1>9 DEF Shutdown
    <2> QED
      BY <2>1 DEF Live
  <1>10. CASE Restart
    BY <1>10 DEF Restart, Live
  <1> QED
    BY <1>1, <1>2, <1>3, <1>4, <1>5, <1>6, <1>7, <1>8, <1>9, <1>10 DEF OpenCloseStep

\* A change that was lost for a reason stays so.
LEMMA ExcuseStep ==
    ASSUME TypeOK, OneAtATime, ReadBatch, Placed, [Next]_vars,
           NEW n \in Changes, Excused(n)
    PROVE  Excused(n)'
  <1>0. /\ lost \in [Changes -> {"no", "throttled", "thrown", "taken", "closed"}]
        /\ \A j \in Ids : Read(j) \subseteq Changes
    BY PlacesTyped DEF TypeOK
  <1>1. ASSUME NEW i \in Ids, ThreadEvent(i) PROVE Excused(n)'
    <2>1. PICK h : h = Head(batch[i])
      OBVIOUS
    <2>2. h \in Changes /\ (lost' = lost \/ lost' = [lost EXCEPT ![h] = "throttled"])
      BY <1>0, <1>1, <2>1, EventMoves
    <2> QED
      BY <1>0, <2>2 DEF Excused
  <1>2. CASE Skip
    <2>1. PICK h \in Changes : h = NextEvent /\ h \in Drained
      BY <1>2, NextMoves
    <2>2. lost[h] = "no"
      BY <2>1 DEF Placed, OnTheWay
    <2>3. PICK w : lost' = [lost EXCEPT ![h] = w]
      BY <1>2, <2>1 DEF Skip
    <2>4. n # h
      BY <2>2 DEF Excused
    <2> QED
      BY <1>0, <2>3, <2>4 DEF Excused
  <1>3. CASE CallbackThrows
    BY <1>0, <1>3, EndMoves DEF Excused
  <1>4. CASE PumpEnds
    BY <1>4, EndMoves DEF Excused
  <1>5. CASE CallCallback
    BY <1>5, ShownMoves DEF Excused
  <1>6. CASE ~MovingStep
    BY <1>6, MovingFrame DEF Excused
  <1>7. CASE CloseHandle
    BY <1>7, HandleMoves DEF Excused
  <1>8. ASSUME NEW c \in Copies, Pump(c) PROVE Excused(n)'
    BY <1>8, PumpMoves DEF Excused
  <1>9. ASSUME NEW i \in Ids, Change(i) \/ ThreadRead(i) \/ ThreadEvents(i) PROVE Excused(n)'
    BY <1>9, ChangeMoves, ReadMoves, DropMoves DEF Excused
  <1> QED
    BY <1>1, <1>2, <1>3, <1>4, <1>5, <1>6, <1>7, <1>8, <1>9 DEF MovingStep

\* A change on its way stays on it, is seen, is lost for a reason, or belongs to a watch
\* without a callback.
LEMMA WayStep ==
    ASSUME TypeOK, OneAtATime, Fresh, Registered, ReadBatch, Placed, Sorted, InLine,
           [Next]_vars, NEW n \in Changes, n < next_change, OnTheWay(n), Live(of[n]),
           of[n] \in Ids
    PROVE  OnTheWay(n)' \/ n \in Shown' \/ Excused(n)'
  <1>0. /\ lost \in [Changes -> {"no", "throttled", "thrown", "taken", "closed"}]
        /\ \A j \in Ids : Read(j) \subseteq Changes
        /\ NoId \notin Ids /\ opening \in Ids \union {NoId}
    <2>1. /\ lost \in [Changes -> {"no", "throttled", "thrown", "taken", "closed"}]
          /\ opening \in Ids \union {NoId}
      BY DEF TypeOK
    <2>2. NoId \notin Ids
      BY DEF NoId, Ids
    <2> QED
      BY <2>1, <2>2, PlacesTyped
  <1>1. ASSUME NEW i \in Ids, Change(i) PROVE OnTheWay(n)'
    <2>1. /\ Queue' = Queue /\ Drained' = Drained
          /\ \A j \in Ids : Read(j)' = Read(j) /\ Held(j) \subseteq Held(j)'
      BY <1>1, ChangeMoves DEF Queue, Drained, Read
    <2> QED
      BY <2>1 DEF OnTheWay
  <1>2. ASSUME NEW i \in Ids, ThreadRead(i) PROVE OnTheWay(n)'
    <2>1. /\ Queue' = Queue /\ Drained' = Drained /\ Read(i) = {}
          /\ \A j \in Ids : /\ Read(j)' = IF j = i THEN Held(i) ELSE Read(j)
                            /\ Held(j)' = IF j = i THEN {} ELSE Held(j)
      BY <1>2, ReadMoves DEF Queue, Drained
    <2> QED
      BY <2>1 DEF OnTheWay
  <1>3. ASSUME NEW i \in Ids, ThreadEvent(i) PROVE OnTheWay(n)' \/ Excused(n)'
    <2>1. PICK h : h = Head(batch[i])
      OBVIOUS
    <2>2. /\ h \in Read(i) /\ Read(i) = {h} \union Read(i)'
          /\ \A j \in Ids : j # i => Read(j)' = Read(j)
          /\ \A j \in Ids : Held(j)' = Held(j)
          /\ Drained' = Drained
          /\ \/ Queue' = Queue /\ lost' = [lost EXCEPT ![h] = "throttled"]
             \/ Queue' = Queue \union {h} /\ lost' = lost
      BY <1>3, <2>1, EventMoves DEF Queue, Drained, Held
    <2>3. CASE n = h
      <3>1. CASE Queue' = Queue \union {h}
        BY <2>3, <3>1 DEF OnTheWay
      <3>2. CASE lost' = [lost EXCEPT ![h] = "throttled"]
        BY <1>0, <2>3, <3>2 DEF Excused
      <3> QED
        BY <2>2, <3>1, <3>2
    <2>4. CASE n # h
      BY <2>2, <2>4 DEF OnTheWay
    <2> QED
      BY <2>3, <2>4
  <1>4. ASSUME NEW i \in Ids, ThreadEvents(i) PROVE OnTheWay(n)'
    <2>1. /\ Queue' = Queue /\ Drained' = Drained /\ (Read(i) = {} \/ terminated[i])
          /\ \A j \in Ids : /\ Read(j)' = IF j = i THEN {} ELSE Read(j)
                            /\ Held(j)' = Held(j)
      BY <1>4, DropMoves DEF Queue, Drained, Held
    <2>2. ASSUME n \in Read(i) PROVE FALSE
      <3>1. of[n] = i /\ terminated[i]
        BY <2>1, <2>2 DEF Placed
      <3> QED
        BY <3>1 DEF Live, Registered, Fresh
    <2> QED
      BY <2>1, <2>2 DEF OnTheWay
  <1>5. CASE CloseHandle
    <2>1. /\ Queue' = Queue /\ Drained' = Drained
          /\ closing \in Ids /\ closing \in ToSet(to_close)
          /\ \A j \in Ids : /\ Read(j)' = Read(j)
                            /\ j # closing => Held(j)' = Held(j)
      BY <1>5, HandleMoves DEF Queue, Drained, Read
    <2>2. of[n] # closing
      <3>1. \A c \in Copies : closing \notin callbacks[c]
        BY <2>1 DEF Registered, ToSet
      <3>2. closing # opening
        BY <1>0, <2>1 DEF OneAtATime, Fresh
      <3> QED
        BY <3>1, <3>2 DEF Live
    <2>3. n \notin Held(closing)
      BY <2>1, <2>2 DEF Placed
    <2> QED
      BY <2>1, <2>3 DEF OnTheWay
  <1>6. ASSUME NEW c \in Copies, Pump(c) PROVE OnTheWay(n)'
    <2>1. /\ Drained = {} /\ Drained' = Queue
          /\ \A j \in Ids : Read(j)' = Read(j) /\ Held(j)' = Held(j)
      BY <1>6, PumpMoves DEF Read, Held
    <2> QED
      BY <2>1 DEF OnTheWay
  <1>7. CASE CallCallback \/ Skip
    <2>0. PICK h \in Changes : h = NextEvent
      BY <1>7, NextMoves
    <2>1. /\ Queue' = Queue /\ Drained = {h} \union Drained'
          /\ \A j \in Ids : Read(j)' = Read(j) /\ Held(j)' = Held(j)
      BY <1>7, <2>0, NextMoves DEF Queue, Read, Held
    <2>2. CASE n # h
      BY <2>1, <2>2 DEF OnTheWay
    <2>3. CASE n = h /\ CallCallback
      BY <2>0, <2>3, ShownMoves
    <2>4. CASE n = h /\ Skip
      <3>1. opening = NoId
        BY <2>4 DEF Skip, OneAtATime, Busy
      <3>2. \E c \in Copies : of[h] \in callbacks[c]
        BY <1>0, <2>4, <3>1 DEF Live
      <3>3. lost' = [lost EXCEPT ![h] = "taken"]
        BY <2>0, <2>4, <3>2 DEF Skip
      <3> QED
        BY <1>0, <2>4, <3>3 DEF Excused
    <2> QED
      BY <1>7, <2>2, <2>3, <2>4
  <1>8. CASE CallbackThrows \/ PumpEnds
    <2>1. /\ Queue' = Queue
          /\ \A j \in Ids : Read(j)' = Read(j) /\ Held(j)' = Held(j)
      BY <1>8, EndMoves DEF Queue, Read, Held
    <2>2. n \in Drained => Excused(n)'
      BY <1>0, <1>8, EndMoves DEF Excused
    <2> QED
      BY <2>1, <2>2 DEF OnTheWay
  <1>9. CASE ~MovingStep
    BY <1>9, MovingFrame DEF OnTheWay, Queue, Drained, Read, Held
  <1> QED
    BY <1>1, <1>2, <1>3, <1>4, <1>5, <1>6, <1>7, <1>8, <1>9 DEF MovingStep

\* What only grows: the ids, the changes and what was seen; the watch of a change stays.
LEMMA Grows ==
    ASSUME TypeOK, OneAtATime, ReadBatch, [Next]_vars
    PROVE  /\ next_watch_id' >= next_watch_id
           /\ \A n \in Changes : n < next_change => of'[n] = of[n]
           /\ Shown \subseteq Shown'
           /\ next_change' = next_change \/ \E i \in Ids : Change(i)
  <1>0. /\ next_watch_id \in Int /\ next_change \in Int /\ Changes \subseteq Int
        /\ of \in [Changes -> Ids \union {NoId}]
    <2>1. next_watch_id \in Int /\ of \in [Changes -> Ids \union {NoId}]
      BY WatchAssumption DEF TypeOK
    <2> QED
      BY <2>1, PlacesTyped
  <1>1. next_watch_id' >= next_watch_id
    <2>1. CASE ~OpenCloseStep
      BY <1>0, <2>1, WatchFrame DEF idVars
    <2>2. ASSUME NEW c \in Copies, WatchDir(c) PROVE next_watch_id' = next_watch_id + 1
      BY <2>2 DEF WatchDir
    <2>3. CASE Opened \/ CloseCancel \/ CloseHandle
      BY <1>0, <2>3 DEF Opened, CloseCancel, CloseHandle, idVars
    <2>4. CASE CloseJoin \/ CloseUnknown
      BY <1>0, <2>4 DEF CloseJoin, CloseUnknown, idVars
    <2>5. CASE Shutdown \/ Restart
      BY <1>0, <2>5 DEF Shutdown, Restart, idVars
    <2>6. CASE \E i \in Ids : Close(i)
      BY <1>0, <2>6 DEF Close, idVars
    <2> QED
      BY <1>0, <2>1, <2>2, <2>3, <2>4, <2>5, <2>6 DEF OpenCloseStep
  <1>2. CASE \E i \in Ids : Change(i)
    <2>1. PICK i \in Ids : Change(i)
      BY <1>2
    <2>2. of' = [of EXCEPT ![next_change] = i] /\ seen' = seen
      BY <2>1, ChangeMoves
    <2>3. \A n \in Changes : n < next_change => of'[n] = of[n]
      BY <1>0, <2>2
    <2> QED
      BY <1>1, <1>2, <2>2, <2>3 DEF Shown
  <1>3. CASE ~\E i \in Ids : Change(i)
    <2>1. of' = of /\ next_change' = next_change /\ Shown \subseteq Shown'
      <3>1. CASE CallCallback
        BY <3>1, NextMoves, ShownMoves
      <3>2. CASE Skip
        BY <3>2, NextMoves DEF Skip, Shown
      <3>3. CASE MovingStep /\ ~CallCallback /\ ~Skip
        BY <1>3, <3>3, ReadMoves, EventMoves, DropMoves, HandleMoves, PumpMoves, EndMoves
           DEF MovingStep, Shown
      <3>4. CASE ~MovingStep
        BY <3>4, MovingFrame DEF Shown
      <3> QED
        BY <3>1, <3>2, <3>3, <3>4
    <2> QED
      BY <1>1, <2>1
  <1> QED
    BY <1>2, <1>3

LEMMA AccountedStep ==
    ASSUME TypeOK, OneAtATime, Fresh, Owned, Registered, ReadBatch, Placed, Sorted, InLine,
           Accounted, [Next]_vars
    PROVE  Accounted'
  <1>0. /\ next_watch_id \in Int /\ next_change \in Int /\ Changes \subseteq Int
        /\ next_watch_id' \in Int /\ Ids \subseteq Int
    <2>1. next_watch_id \in Int /\ Ids \subseteq Int
      BY WatchAssumption DEF TypeOK, Ids
    <2>2. next_watch_id' \in Int
      BY TypeStep, WatchAssumption DEF TypeOK
    <2> QED
      BY <2>1, <2>2, PlacesTyped
  <1> SUFFICES ASSUME NEW n \in Changes, n < next_change'
               PROVE  /\ of'[n] \in Ids /\ of'[n] < next_watch_id'
                      /\ Live(of[n])' => OnTheWay(n)' \/ n \in Shown' \/ Excused(n)'
    BY DEF Accounted
  <1>1. CASE n < next_change
    <2>1. PICK i \in Ids : i = of[n] /\ i < next_watch_id
      BY <1>1 DEF Accounted
    <2>2. of'[n] = i /\ i < next_watch_id'
      BY <1>0, <1>1, <2>1, Grows
    <2>3. ASSUME Live(i)' PROVE OnTheWay(n)' \/ n \in Shown' \/ Excused(n)'
      <3>1. Live(i)
        BY <2>1, <2>3, LiveStep
      <3>2. OnTheWay(n) \/ n \in Shown \/ Excused(n)
        BY <1>1, <2>1, <3>1 DEF Accounted
      <3> QED
        BY <1>1, <2>1, <3>1, <3>2, WayStep, ExcuseStep, Grows
    <2> QED
      BY <2>2, <2>3 DEF Live
  <1>2. CASE ~(n < next_change)
    <2>1. PICK i \in Ids : Change(i)
      BY <1>2, Grows
    <2>2. /\ n = next_change /\ of' = [of EXCEPT ![next_change] = i] /\ hDir[i] = "armed"
          /\ Held(i)' = Held(i) \union {next_change} /\ next_watch_id' = next_watch_id
      BY <1>0, <1>2, <2>1, ChangeMoves, ThreadFrame DEF idVars
    <2>3. of'[n] = i
      BY <2>2 DEF TypeOK
    <2>4. i < next_watch_id
      BY <1>0, <2>2 DEF Fresh
    <2>5. OnTheWay(n)'
      BY <2>2 DEF OnTheWay
    <2> QED
      BY <2>2, <2>3, <2>4, <2>5
  <1> QED
    BY <1>1, <1>2

\* The event the pump comes to is the first of its watch that is left.
LEMMA NextIsFirst ==
    ASSUME TypeOK, Placed, Sorted, InLine, CallCallback,
           NEW n \in Changes, n < NextEvent, of[n] = of[NextEvent]
    PROVE  ~OnTheWay(n)
  <1>1. /\ NextEvent \in Changes /\ NextEvent \in Drained /\ Drained = {NextEvent} \union Drained'
        /\ Changes \subseteq Int
    BY NextMoves, PlacesTyped
  <1>2. ~(NextEvent < n)
    BY <1>1
  <1>3. Ahead(of, {NextEvent}, Drained')
    <2>1. draining.evs \in Seq(Changes)
      BY DEF TypeOK
    <2> QED
      BY <2>1, NextMoves, RisingTail DEF Sorted, Drained
  <1>4. n \notin Drained
    BY <1>1, <1>2, <1>3 DEF Ahead
  <1>5. n \notin Queue /\ \A i \in Ids : n \notin Read(i) \union Held(i)
    BY <1>1, <1>2 DEF InLine, Ahead
  <1> QED
    BY <1>4, <1>5 DEF OnTheWay

LEMMA SeenStep ==
    ASSUME TypeOK, OneAtATime, ReadBatch, Placed, Sorted, InLine, Accounted, SeenInOrder,
           [Next]_vars
    PROVE  SeenInOrder'
  <1>0. /\ seen \in Seq(Changes) /\ Changes \subseteq Int /\ next_change \in Int
        /\ \A n \in Int : \A m \in Changes : n \in 1 .. m - 1 => n \in Changes /\ n < m
    <2>1. /\ seen \in Seq(Changes) /\ next_change \in Int
      BY PlacesTyped DEF TypeOK
    <2> QED
      BY <2>1, WatchAssumption DEF Changes
  \* What was said of the changes seen so far stays true.
  <1>k. ASSUME NEW k \in DOMAIN seen, NEW n \in 1 .. seen[k] - 1, of'[n] = of'[seen[k]]
        PROVE  (\E j \in 1 .. k - 1 : seen[j] = n) \/ Excused(n)'
    <2>1. seen[k] \in Changes /\ seen[k] < next_change
      <3>1. seen[k] \in Shown
        BY DEF Shown, ToSet
      <3> QED
        BY <1>0, <3>1 DEF Placed
    <2>2. n \in Changes /\ n < next_change
      <3>1. PICK m \in Changes : m = seen[k]
        BY <2>1
      <3>2. m \in Int /\ n \in Int /\ n \in 1 .. m - 1 /\ m < next_change
        BY <1>0, <2>1, <3>1
      <3>3. n \in Changes /\ n < m
        BY <1>0, <3>2
      <3> QED
        BY <1>0, <3>2, <3>3
    <2>3. of[n] = of[seen[k]]
      BY <1>k, <2>1, <2>2, Grows
    <2>4. (\E j \in 1 .. k - 1 : seen[j] = n) \/ Excused(n)
      BY <2>3 DEF SeenInOrder, Excused
    <2> QED
      BY <2>2, <2>4, ExcuseStep
  <1>1. CASE ~CallCallback
    <2>1. seen' = seen
      <3>1. CASE MovingStep
        BY <1>1, <3>1, ChangeMoves, ReadMoves, EventMoves, DropMoves, HandleMoves, PumpMoves,
           EndMoves DEF MovingStep, Skip
      <3>2. CASE ~MovingStep
        BY <3>2, MovingFrame
      <3> QED
        BY <3>1, <3>2
    <2> QED
      BY <1>k, <2>1 DEF SeenInOrder, Excused
  <1>2. CASE CallCallback
    <2>1. PICK h \in Changes : h = NextEvent /\ h \in Drained
      BY <1>2, NextMoves
    <2>2. seen' = Append(seen, h) /\ lost' = lost /\ of' = of
      BY <1>2, <2>1, ShownMoves, NextMoves
    <2>3. /\ Len(seen) \in Nat /\ DOMAIN seen = 1 .. Len(seen)
          /\ DOMAIN seen' = 1 .. Len(seen) + 1
          /\ \A k \in DOMAIN seen' : seen'[k] = IF k = Len(seen) + 1 THEN h ELSE seen[k]
      BY <1>0, <2>2, AppendFacts
    <2>4. \A k \in DOMAIN seen : seen[k] # h
      BY <2>1, OnePlace DEF Shown, ToSet
    <2>5. IsInjective(seen')
      BY <2>3, <2>4 DEF SeenInOrder, IsInjective
    <2>6. ASSUME NEW k \in DOMAIN seen', NEW n \in 1 .. seen'[k] - 1, of'[n] = of'[seen'[k]]
          PROVE  (\E j \in 1 .. k - 1 : seen'[j] = n) \/ Excused(n)'
      <3>1. CASE k = Len(seen) + 1
        <4>1. n \in Changes /\ n < h /\ of[n] = of[h]
          BY <1>0, <2>2, <2>3, <2>6, <3>1
        <4>2. h < next_change /\ n < next_change
          BY <1>0, <2>1, <4>1 DEF Placed, OnTheWay
        <4>3. Live(of[n])
          <5>1. of[h] \in callbacks[draining.copy] /\ draining.copy \in Copies
            BY <1>2, <2>1 DEF CallCallback, Known, OneAtATime
          <5> QED
            BY <4>1, <5>1 DEF Live
        <4>4. ~OnTheWay(n)
          BY <1>2, <2>1, <4>1, NextIsFirst
        <4>5. n \in Shown \/ Excused(n)
          BY <4>1, <4>2, <4>3, <4>4 DEF Accounted
        <4>6. CASE n \in Shown
          <5>1. PICK j \in DOMAIN seen : seen[j] = n
            BY <4>6 DEF Shown, ToSet
          <5>2. j \in 1 .. k - 1 /\ seen'[j] = n
            BY <2>3, <3>1, <5>1
          <5> QED
            BY <5>2
        <4> QED
          BY <2>2, <4>5, <4>6 DEF Excused
      <3>2. CASE k # Len(seen) + 1
        <4>1. k \in DOMAIN seen /\ seen'[k] = seen[k]
          BY <2>3, <3>2
        <4>2. \A j \in 1 .. k - 1 : seen'[j] = seen[j]
          BY <2>3, <4>1
        <4> QED
          BY <1>k, <2>6, <4>1, <4>2
      <3> QED
        BY <3>1, <3>2
    <2> QED
      BY <2>5, <2>6 DEF SeenInOrder, Excused
  <1> QED
    BY <1>1, <1>2

(***************************************************************************)
(* The invariant and what it gives.                                        *)
(***************************************************************************)
LEMMA InitIInv == ASSUME Init PROVE IInv
  <1>0. /\ ToSet(<<>>) = {} /\ <<>> \in Seq(Changes) /\ <<>> \in Seq(Ids)
        /\ NoId \notin Ids /\ NoCopy \notin Copies /\ \A i \in Ids : i # NoId
        /\ MaxGen \in Nat \ {0} /\ MaxIds \in Nat /\ MaxChanges \in Nat
    BY WatchAssumption DEF ToSet, NoId, Ids
  <1>1. TypeOK
    <2>1. /\ next_watch_id \in 1 .. MaxIds + 1 /\ next_change \in 1 .. MaxChanges + 1
          /\ gen \in 1 .. MaxGen /\ watches \subseteq Ids
      BY <1>0 DEF Init
    <2>2. owner \in [Ids -> [gen : 0 .. MaxGen, copy : Copies \union {NoCopy}, late : BOOLEAN]]
      BY <1>0 DEF Init
    <2>3. /\ draining \in [copy : Copies \union {NoCopy}, evs : Seq(Changes)]
          /\ js \in {"script", "pump", "callback"} /\ js = "script" <=> draining = NoDrain
      BY <1>0 DEF Init, NoDrain
    <2>4. /\ pending \in [Ids -> Seq(Changes)] /\ batch \in [Ids -> Seq(Changes)]
          /\ event_queue \in Seq(Changes) /\ to_close \in Seq(Ids) /\ seen \in Seq(Changes)
      BY <1>0 DEF Init
    <2>5. closes \in [Ids -> 0 .. 2]
      BY DEF Init
    <2> QED
      BY <2>1, <2>2, <2>3, <2>4, <2>5 DEF Init, TypeOK
  <1>2. GoneWithThread /\ ReadBatch
    BY DEF Init, GoneWithThread, ReadBatch
  <1>3. OneAtATime
    BY DEF Init, OneAtATime, Busy
  <1>4. Fresh
    BY <1>0 DEF Init, Fresh, NoId
  <1>5. Owned
    BY <1>0 DEF Init, Owned
  <1>6. Registered
    BY <1>0 DEF Init, Registered
  <1>7. Pumped /\ Covered
    BY <1>0 DEF Init, Pumped, Covered
  <1>8. Queue = {} /\ Drained = {} /\ Shown = {} /\ \A i \in Ids : Read(i) = {} /\ Held(i) = {}
    BY <1>0 DEF Init, Queue, Drained, Shown, Read, Held, NoDrain
  <1>9. Placed /\ InLine
    <2>1. \A n \in Changes : lost[n] = "no"
      BY DEF Init
    <2> QED
      BY <1>8, <2>1 DEF Placed, InLine, Ahead, OnTheWay
  <1>10. Sorted
    BY RisingEmpty DEF Init, Sorted, NoDrain
  <1>11. Accounted
    BY <1>0 DEF Init, Accounted, Changes
  <1>12. SeenInOrder
    BY DEF Init, SeenInOrder, IsInjective
  <1> QED
    BY <1>1, <1>2, <1>3, <1>4, <1>5, <1>6, <1>7, <1>9, <1>10, <1>11, <1>12
       DEF IInv, WellFormed

LEMMA StepIInv == ASSUME IInv, [Next]_vars PROVE IInv'
  <1>1. TypeOK' /\ GoneWithThread' /\ OneAtATime'
    BY TypeStep, GoneStep, OneStep DEF IInv, WellFormed
  <1>2. Fresh' /\ Owned' /\ Registered'
    BY FreshStep, OwnedStep, RegisteredStep DEF IInv, WellFormed
  <1>3. Pumped' /\ Covered' /\ ReadBatch'
    BY PumpedStep, CoveredStep, ReadBatchStep DEF IInv, WellFormed
  <1>4. Placed' /\ Sorted' /\ InLine'
    BY PlacedStep, SortedStep, InLineStep DEF IInv, WellFormed
  <1>5. Accounted' /\ SeenInOrder'
    BY AccountedStep, SeenStep DEF IInv, WellFormed
  <1> QED
    BY <1>1, <1>2, <1>3, <1>4, <1>5 DEF IInv, WellFormed

\* The inductive invariant holds in every state of the watches, for any number of copies
\* of fs.js, watches, changes and runtimes.
THEOREM Invariant == Spec => []IInv
  <1>1. Init => IInv
    BY InitIInv
  <1>2. IInv /\ [Next]_vars => IInv'
    BY StepIInv
  <1> QED
    BY <1>1, <1>2, PTL DEF Spec

\* The types hold, a watch leaves the list only when its thread has ended, and no thread
\* waits in a directory whose handle was closed (CloseWatch, TWatchThread.Execute).
THEOREM WatchesWellFormed == Spec => []WellFormed
  <1>1. IInv => WellFormed
    BY DEF IInv
  <1> QED
    BY <1>1, Invariant, PTL

\* A callback sees the changes of its watch in order, each once, and misses one only for
\* one of three reasons (TWatchThread.Execute, DrainWatchQueue, the pump of io/fs.js).
THEOREM ChangesAreSeenInOrder == Spec => []SeenInOrder
  <1>1. IInv => SeenInOrder
    BY DEF IInv
  <1> QED
    BY <1>1, Invariant, PTL

\* Between calls, a copy of fs.js holds its pump exactly while it has callbacks
\* (_watchPumpAcquired): no watch is without a pump, and the event loop can end.
THEOREM PumpIsHeld == Spec => []PumpWhileWatching
  <1>1. IInv => PumpWhileWatching
    <2> SUFFICES ASSUME IInv, ~Busy, NEW c \in Copies
                 PROVE  pumping[c] <=> callbacks[c] # {}
      BY DEF PumpWhileWatching
    <2>1. to_close = <<>> /\ DOMAIN to_close = {}
      BY DEF Busy
    <2>2. pumping[c] \in BOOLEAN
      BY DEF IInv, WellFormed, TypeOK
    <2> QED
      BY <2>1, <2>2 DEF IInv, Pumped
  <1> QED
    BY <1>1, Invariant, PTL

LEMMA SeenStays ==
    ASSUME IInv, [Next]_vars
    PROVE  \A n \in ToSet(seen') \ ToSet(seen) : of[n] \in watches /\ ~terminated[of[n]]
  <1>1. CASE CallCallback
    <2>1. Shown' = Shown \union {NextEvent}
      BY <1>1, ShownMoves DEF IInv, WellFormed
    <2>2. of[NextEvent] \in callbacks[draining.copy] /\ draining.copy \in Copies
      BY <1>1 DEF CallCallback, Known, IInv, OneAtATime
    <2>3. of[NextEvent] \in watches /\ ~terminated[of[NextEvent]]
      BY <2>2 DEF IInv, Registered
    <2> QED
      BY <2>1, <2>3 DEF Shown
  <1>2. CASE ~CallCallback
    <2>1. seen' = seen
      <3>1. CASE MovingStep
        BY <1>2, <3>1, ChangeMoves, ReadMoves, EventMoves, DropMoves, HandleMoves, PumpMoves,
           EndMoves DEF MovingStep, Skip, IInv, WellFormed
      <3>2. CASE ~MovingStep
        BY <3>2, MovingFrame
      <3> QED
        BY <3>1, <3>2
    <2> QED
      BY <2>1
  <1> QED
    BY <1>1, <1>2

\* A callback is called for no watch that was closed, not even by an earlier callback of
\* the same batch (fs.js deletes the callback before it closes the watch).
THEOREM SeenOnlyWhileOpen == Spec => SeenWhileOpen
  <1>1. IInv /\ [Next]_vars =>
          [\A n \in ToSet(seen') \ ToSet(seen) : of[n] \in watches /\ ~terminated[of[n]]]_vars
    BY SeenStays
  <1> QED
    BY <1>1, Invariant, PTL DEF Spec, SeenWhileOpen

\* When shutdown() has run a hook, every watch its copy of fs.js opened before is closed
\* or in line to be (_shutdownAllWatches): what outlives the runtime then was opened later.
THEOREM ShutdownClosesAll == Spec => []ShutdownCloses
  <1>1. IInv => ShutdownCloses
    BY DEF IInv, Covered, ShutdownCloses
  <1> QED
    BY <1>1, Invariant, PTL
=============================================================================
