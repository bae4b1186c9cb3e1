-------------------------- MODULE HttpAsyncProofs --------------------------
(***************************************************************************)
(* Proofs about HttpAsync for every number of requests, of runtimes and of *)
(* throwing calls, and every finite set of worker threads.                 *)
(***************************************************************************)
EXTENDS HttpAsync, DataLemmas, TLAPS

\* Task ids are handed out in order, each in the runtime that then exists.
Numbered ==
    /\ \A r \in Reqs : fate[r] = "none" <=> r >= next_task_id
    /\ \A r \in Reqs : made[r] = 0 <=> r >= next_task_id
    /\ \A r \in Reqs : made[r] <= gen

\* A reaction is queued once, for a fetch of this runtime that was answered and still
\* holds the pump; and only an answered fetch has released it.
Reactions ==
    /\ \A i, j \in DOMAIN jobs : jobs[i] = jobs[j] => i = j
    /\ \A i \in DOMAIN jobs : /\ made[jobs[i]] = gen /\ jobs[i] \notin released
                              /\ fate[jobs[i]] \in {"resolved", "rejected"}
    /\ \A r \in released : fate[r] \in {"resolved", "rejected"}

\* The inductive invariant.
IInv == WellFormed /\ NoLostWakeup /\ PumpCountsFetches /\ Numbered /\ Reactions

\* The results of a request, whatever their outcome.
Of(r) == {x \in Result : x.id = r}
Doers(d, r) == {w \in Workers : d[w] = r}

LEMMA ResultEntries ==
    ASSUME NEW s \in Seq(Result), NEW r
    PROVE  /\ {k \in DOMAIN s : s[k].id = r} = Entries(s, Of(r))
           /\ IsFiniteSet(Entries(s, Of(r))) /\ Cardinality(Entries(s, Of(r))) \in Nat
           /\ r \in {x.id : x \in ToSet(s)} <=> Cardinality(Entries(s, Of(r))) > 0
  <1>1. {k \in DOMAIN s : s[k].id = r} = Entries(s, Of(r))
    BY DEF Entries, Of
  <1>2. IsFiniteSet(Entries(s, Of(r))) /\ Cardinality(Entries(s, Of(r))) \in Nat
    BY EntriesFinite
  <1>3. r \in {x.id : x \in ToSet(s)} <=> Entries(s, Of(r)) # {}
    BY <1>1 DEF ToSet
  <1>4. Entries(s, Of(r)) = {} <=> Cardinality(Entries(s, Of(r))) = 0
    BY <1>2, FS_EmptySet
  <1> QED
    BY <1>1, <1>2, <1>3, <1>4

LEMMA DoersCounted ==
    ASSUME NEW d \in [Workers -> Reqs \union {NoTask}], NEW r \in Reqs
    PROVE  IsFiniteSet(Doers(d, r)) /\ Cardinality(Doers(d, r)) \in Nat
  <1>1. IsFiniteSet(Workers) /\ Doers(d, r) \in SUBSET Workers
    BY HttpAssumption DEF Doers
  <1> QED
    BY <1>1, FS_Subset, FS_CardinalityType

\* A worker that takes a task, or is done with it, changes the count of that task only.
LEMMA DoerTakes ==
    ASSUME NEW d \in [Workers -> Reqs \union {NoTask}], NEW w \in Workers,
           d[w] = NoTask, NEW q \in Reqs, NEW r \in Reqs
    PROVE  Cardinality(Doers([d EXCEPT ![w] = q], r))
               = Cardinality(Doers(d, r)) + (IF r = q THEN 1 ELSE 0)
  <1>1. IsFiniteSet(Doers(d, r)) /\ Cardinality(Doers(d, r)) \in Nat
    BY DoersCounted
  <1>2. w \notin Doers(d, r)
    BY DEF Doers, NoTask, Reqs
  <1>3. CASE r = q
    <2>1. Doers([d EXCEPT ![w] = q], r) = Doers(d, r) \cup {w}
      BY <1>3 DEF Doers
    <2> QED
      BY <1>1, <1>2, <1>3, <2>1, FS_AddElement
  <1>4. CASE r # q
    <2>1. Doers([d EXCEPT ![w] = q], r) = Doers(d, r)
      BY <1>2, <1>4 DEF Doers
    <2> QED
      BY <1>1, <1>4, <2>1
  <1> QED
    BY <1>3, <1>4

LEMMA DoerIsDone ==
    ASSUME NEW d \in [Workers -> Reqs \union {NoTask}], NEW w \in Workers,
           NEW q \in Reqs, d[w] = q, NEW r \in Reqs
    PROVE  Cardinality(Doers([d EXCEPT ![w] = NoTask], r))
               = Cardinality(Doers(d, r)) - (IF r = q THEN 1 ELSE 0)
  <1>1. IsFiniteSet(Doers(d, r)) /\ Cardinality(Doers(d, r)) \in Nat
    BY DoersCounted
  <1>2. NoTask # r
    BY DEF NoTask, Reqs
  <1>3. CASE r = q
    <2>1. Doers([d EXCEPT ![w] = NoTask], r) = Doers(d, r) \ {w} /\ w \in Doers(d, r)
      BY <1>2, <1>3 DEF Doers
    <2> QED
      BY <1>1, <1>3, <2>1, FS_RemoveElement
  <1>4. CASE r # q
    <2>1. Doers([d EXCEPT ![w] = NoTask], r) = Doers(d, r)
      BY <1>2, <1>4 DEF Doers
    <2> QED
      BY <1>1, <1>4, <2>1
  <1> QED
    BY <1>3, <1>4

\* What PumpHttpRequests holds while it delivers.
LEMMA Delivering ==
    ASSUME TypeOK, js = "pump"
    PROVE  /\ drained \in Seq(Result) /\ drained # <<>>
           /\ Head(drained) \in Result /\ Head(drained).id \in Reqs
           /\ Tail(drained) \in Seq(Result)
           /\ Returns = "pump" <=> Tail(drained) # <<>>
           /\ Returns \in {"script", "pump"}
  <1>1. drained \in Seq(Result) /\ drained # <<>>
    BY DEF TypeOK
  <1>2. Head(drained) \in Result /\ Tail(drained) \in Seq(Result)
    BY <1>1
  <1>3. Head(drained).id \in Reqs
    BY <1>2 DEF Result
  <1>4. Len(drained) = 1 <=> Tail(drained) = <<>>
    <2>1. Len(Tail(drained)) = Len(drained) - 1 /\ Len(drained) \in Nat
      BY <1>1
    <2>2. Len(Tail(drained)) = 0 <=> Tail(drained) = <<>>
      BY <1>2, EmptySeq
    <2> QED
      BY <2>1, <2>2
  <1> QED
    BY <1>1, <1>2, <1>3, <1>4 DEF Returns

\* The event loop begins or ends: nothing else changes.
LoopTurns == LoopBegins \/ LoopEnds

LEMMA TypeStep ==
    ASSUME TypeOK, [Next]_vars PROVE TypeOK'
  <1> USE HttpAssumption DEF Reqs, Gens, Fates, NoTask, poolVars, pumpVars
  <1>1. CASE Fetch
    <2>1. next_task_id \in Reqs /\ next_task_id + 1 \in 1 .. NumReqs + 1 /\ gen \in 0 .. MaxGen
      BY <1>1 DEF Fetch, TypeOK
    <2>2. at' \in [Workers -> {"none", "pop", "wait", "request"}]
      BY <1>1 DEF Fetch, Started, TypeOK
    <2>3. \A w \in Workers : at'[w] = "request" <=> doing'[w] # NoTask
      BY <1>1 DEF Fetch, Started, TypeOK
    <2>4. task_queue' \in Seq(Reqs) /\ pump_count' \in Nat /\ timer' \in BOOLEAN
      BY <1>1, <2>1 DEF Fetch, acquirePump, TypeOK
    <2>5. made' \in [Reqs -> 0 .. MaxGen] /\ fate' \in [Reqs -> Fates]
      BY <1>1, <2>1 DEF Fetch, TypeOK
    <2>6. js = "script" /\ js' = "signal" /\ next_task_id' \in 1 .. NumReqs + 1
      BY <1>1, <2>1 DEF Fetch
    <2>7. looping' \in BOOLEAN
      BY <1>1 DEF Fetch, acquirePump, TypeOK
    <2> QED
      BY <1>1, <2>2, <2>3, <2>4, <2>5, <2>6, <2>7 DEF Fetch, TypeOK
  <1>2. CASE Signal
    BY <1>2 DEF Signal, TypeOK
  <1>3. CASE FetchThrows
    <2>1. at' \in [Workers -> {"none", "pop", "wait", "request"}]
      BY <1>3 DEF FetchThrows, Started, TypeOK
    <2>2. \A w \in Workers : at'[w] = "request" <=> doing'[w] # NoTask
      BY <1>3 DEF FetchThrows, Started, TypeOK
    <2>3. refused' \in 0 .. MaxThrows /\ pump_count' \in Nat /\ timer' \in BOOLEAN
      BY <1>3 DEF FetchThrows, acquirePump, TypeOK
    <2>4. looping' \in BOOLEAN
      BY <1>3 DEF FetchThrows, acquirePump, TypeOK
    <2> QED
      BY <1>3, <2>1, <2>2, <2>3, <2>4 DEF FetchThrows, TypeOK
  <1>4. ASSUME NEW w \in Workers, WorkerPop(w) PROVE TypeOK'
    <2>1. CASE task_queue = <<>>
      <3>1. at' = [at EXCEPT ![w] = "wait"] /\ UNCHANGED <<task_queue, doing>>
        BY <1>4, <2>1 DEF WorkerPop
      <3> QED
        BY <1>4, <3>1 DEF WorkerPop, TypeOK
    <2>2. CASE task_queue # <<>>
      <3>1. /\ at' = [at EXCEPT ![w] = "request"]
            /\ doing' = [doing EXCEPT ![w] = Head(task_queue)]
            /\ task_queue' = Tail(task_queue)
        BY <1>4, <2>2 DEF WorkerPop, Dequeued
      <3>2. Head(task_queue) \in Reqs /\ Tail(task_queue) \in Seq(Reqs)
        BY <2>2 DEF TypeOK
      <3>3. doing' \in [Workers -> Reqs \union {NoTask}]
        BY <3>1, <3>2 DEF TypeOK
      <3>4. \A x \in Workers : at'[x] = "request" <=> doing'[x] # NoTask
        BY <3>1, <3>2 DEF TypeOK
      <3> QED
        BY <1>4, <3>1, <3>2, <3>3, <3>4 DEF WorkerPop, TypeOK
    <2> QED
      BY <2>1, <2>2
  <1>5. ASSUME NEW w \in Workers, WorkerWake(w) PROVE TypeOK'
    BY <1>5 DEF WorkerWake, TypeOK
  <1>6. ASSUME NEW w \in Workers, WorkerAnswer(w) PROVE TypeOK'
    <2>1. PICK ok \in BOOLEAN :
             result_queue' = Append(result_queue, [id |-> doing[w], ok |-> ok])
      BY <1>6 DEF WorkerAnswer
    <2>2. [id |-> doing[w], ok |-> ok] \in Result
      BY <1>6 DEF WorkerAnswer, TypeOK, Result
    <2>3. result_queue' \in Seq(Result)
      BY <2>1, <2>2 DEF TypeOK
    <2> QED
      BY <1>6, <2>3 DEF WorkerAnswer, AfterAnswer, TypeOK
  <1>7. CASE PumpHttpRequests
    <2>1. result_queue' = <<>> /\ drained' = result_queue /\ js' = "pump"
      BY <1>7 DEF PumpHttpRequests, Kept
    <2> QED
      BY <1>7, <2>1 DEF PumpHttpRequests, TypeOK
  <1>8. CASE Deliver
    <2>1. jobs' \in Seq(Reqs)
      BY <1>8, Delivering DEF Deliver, TypeOK
    <2>2. fate' \in [Reqs -> Fates]
      BY <1>8, Delivering DEF Deliver, TypeOK
    <2>3. drained' \in Seq(Result) /\ (js' = "pump" <=> drained' # <<>>)
          /\ js' \in {"script", "signal", "pump"}
      BY <1>8, Delivering DEF Deliver
    <2> QED
      BY <1>8, <2>1, <2>2, <2>3 DEF Deliver, TypeOK
  <1>9. CASE DeliverStale
    <2>1. fate' \in [Reqs -> Fates]
      BY <1>9, Delivering DEF DeliverStale, TypeOK
    <2>2. drained' \in Seq(Result) /\ (js' = "pump" <=> drained' # <<>>)
          /\ js' \in {"script", "signal", "pump"}
      BY <1>9, Delivering DEF DeliverStale
    <2> QED
      BY <1>9, <2>1, <2>2 DEF DeliverStale, TypeOK
  <1>10. CASE PumpRaises
    BY <1>10 DEF PumpRaises, TypeOK
  <1>11. CASE RunJob
    <2>1. Head(jobs) \in Reqs /\ Tail(jobs) \in Seq(Reqs)
      BY <1>11 DEF RunJob, TypeOK
    <2>2. pump_count' \in Nat /\ timer' \in BOOLEAN /\ released' \subseteq Reqs
      <3>1. CASE pump_count > 0
        <4>1. /\ pump_count' = pump_count - 1 /\ timer' = (pump_count - 1 > 0)
              /\ released' = released \union {Head(jobs)}
          BY <1>11, <3>1 DEF RunJob, Releases, CountAfter
        <4>2. pump_count \in Nat /\ released \subseteq Reqs
          BY DEF TypeOK
        <4>3. pump_count' \in Nat
          BY <3>1, <4>1, <4>2
        <4>4. timer' \in BOOLEAN
          BY <4>1
        <4>5. released' \subseteq Reqs
          BY <2>1, <4>1, <4>2
        <4> QED
          BY <4>3, <4>4, <4>5
      <3>2. CASE ~(pump_count > 0)
        BY <1>11, <3>2 DEF RunJob, TypeOK
      <3> QED
        BY <3>1, <3>2
    <2>3. jobs' = Tail(jobs) /\ js = "script"
          /\ UNCHANGED <<poolVars, next_task_id, gen, made, fate, js, drained, looping,
                         refused>>
      BY <1>11 DEF RunJob
    <2>4. jobs' \in Seq(Reqs)
      BY <2>1, <2>3
    <2>5. js' # "pump" /\ drained' = drained /\ drained = <<>>
      BY <2>3 DEF TypeOK
    <2> QED
      <3>1. /\ task_queue' \in Seq(Reqs) /\ result_queue' \in Seq(Result)
            /\ has_work' \in BOOLEAN /\ next_task_id' \in 1 .. NumReqs + 1
        BY <2>3 DEF TypeOK
      <3>2. /\ at' \in [Workers -> {"none", "pop", "wait", "request"}]
            /\ doing' \in [Workers -> Reqs \union {NoTask}]
            /\ \A w \in Workers : at'[w] = "request" <=> doing'[w] # NoTask
        BY <2>3 DEF TypeOK
      <3>3. /\ gen' \in Gens /\ made' \in [Reqs -> 0 .. MaxGen] /\ fate' \in [Reqs -> Fates]
            /\ looping' \in BOOLEAN /\ refused' \in 0 .. MaxThrows
        BY <2>3 DEF TypeOK
      <3>4. /\ js' \in {"script", "signal", "pump"}
            /\ drained' \in Seq(Result) /\ (js' = "pump" <=> drained' # <<>>)
        BY <2>3, <2>5 DEF TypeOK
      <3> QED
        BY <2>2, <2>4, <3>1, <3>2, <3>3, <3>4 DEF TypeOK
  <1>12. CASE Restart
    <2>1. gen' \in Gens /\ refused' \in 0 .. MaxThrows
      <3>1. gen \in 1 .. MaxGen
        BY DEF TypeOK
      <3>2. gen < MaxGen /\ gen' = gen + 1 /\ refused' = 0
        BY <1>12 DEF Restart
      <3> QED
        BY <3>1, <3>2
    <2>2. jobs' \in Seq(Reqs) /\ pump_count' \in Nat /\ timer' \in BOOLEAN
      <3>1. jobs' = <<>> /\ pump_count' = 0
        BY <1>12 DEF Restart
      <3>2. timer' = FALSE
        BY <1>12 DEF Restart
      <3>3. jobs' \in Seq(Reqs)
        BY <3>1
      <3> QED
        BY <3>1, <3>2, <3>3
    <2>3. UNCHANGED <<task_queue, result_queue, has_work, next_task_id, at, doing, made, fate,
                      js, drained, released>>
      BY <1>12 DEF Restart
    <2>4. looping' \in BOOLEAN
      BY <1>12 DEF Restart
    <2> QED
      BY <2>1, <2>2, <2>3, <2>4 DEF TypeOK
  <1>13. CASE LoopTurns \/ UNCHANGED vars
    BY <1>13 DEF LoopTurns, LoopBegins, LoopEnds, vars, TypeOK
  <1> QED
    BY <1>1, <1>2, <1>3, <1>4, <1>5, <1>6, <1>7, <1>8, <1>9, <1>10, <1>11, <1>12, <1>13
       DEF Next, NativeStep, LoopTurns, WorkerStep

(***************************************************************************)
(* One holder: where a request is, place by place.                         *)
(***************************************************************************)
Places(tq, d, rq, dr, r) ==
      Cardinality(Entries(tq, {r})) + Cardinality(Doers(d, r))
    + Cardinality(Entries(rq, Of(r))) + Cardinality(Entries(dr, Of(r)))

LEMMA CountedInPlaces ==
    ASSUME NEW tq \in Seq(Reqs), NEW d \in [Workers -> Reqs \union {NoTask}],
           NEW rq \in Seq(Result), NEW dr \in Seq(Result), NEW r \in Reqs
    PROVE  /\ Cardinality(Entries(tq, {r})) \in Nat /\ Cardinality(Doers(d, r)) \in Nat
           /\ Cardinality(Entries(rq, Of(r))) \in Nat /\ Cardinality(Entries(dr, Of(r))) \in Nat
           /\ Cardinality({k \in DOMAIN tq : tq[k] = r})
                  + Cardinality({w \in Workers : d[w] = r})
                  + Cardinality({k \in DOMAIN rq : rq[k].id = r})
                  + Cardinality({k \in DOMAIN dr : dr[k].id = r}) = Places(tq, d, rq, dr, r)
  <1>1. {k \in DOMAIN tq : tq[k] = r} = Entries(tq, {r})
    BY DEF Entries
  <1>2. {w \in Workers : d[w] = r} = Doers(d, r)
    BY DEF Doers
  <1>3. /\ {k \in DOMAIN rq : rq[k].id = r} = Entries(rq, Of(r))
        /\ {k \in DOMAIN dr : dr[k].id = r} = Entries(dr, Of(r))
    BY ResultEntries
  <1>4. /\ Cardinality(Entries(tq, {r})) \in Nat /\ Cardinality(Doers(d, r)) \in Nat
        /\ Cardinality(Entries(rq, Of(r))) \in Nat /\ Cardinality(Entries(dr, Of(r))) \in Nat
    BY EntriesFinite, DoersCounted
  <1> QED
    BY <1>1, <1>2, <1>3, <1>4 DEF Places

\* A result taken off the head of a list changes the count of its request only.
LEMMA HeadResult ==
    ASSUME NEW s \in Seq(Result), s # <<>>, NEW r \in Reqs
    PROVE  /\ Head(s) \in Result /\ Tail(s) \in Seq(Result)
           /\ Cardinality(Entries(s, Of(r)))
                 = Cardinality(Entries(Tail(s), Of(r))) + (IF Head(s).id = r THEN 1 ELSE 0)
  <1>1. Head(s) \in Result /\ Tail(s) \in Seq(Result)
    OBVIOUS
  <1>2. Head(s) \in Of(r) <=> Head(s).id = r
    BY <1>1 DEF Of
  <1> QED
    BY <1>1, <1>2, DroppedHead

LEMMA HolderStep ==
    ASSUME TypeOK, TypeOK', OneHolder, Numbered, [Next]_vars PROVE OneHolder'
  <1> USE DEF poolVars, pumpVars
  <1> SUFFICES ASSUME NEW r \in Reqs
               PROVE  Held(r)' = IF fate'[r] = "pending" THEN 1 ELSE 0
    BY DEF OneHolder
  <1>a. /\ task_queue \in Seq(Reqs) /\ doing \in [Workers -> Reqs \union {NoTask}]
        /\ result_queue \in Seq(Result) /\ drained \in Seq(Result)
        /\ fate \in [Reqs -> Fates] /\ next_task_id \in Nat
    BY HttpAssumption DEF TypeOK
  <1>b. /\ task_queue' \in Seq(Reqs) /\ doing' \in [Workers -> Reqs \union {NoTask}]
        /\ result_queue' \in Seq(Result) /\ drained' \in Seq(Result)
    BY DEF TypeOK
  <1> DEFINE t == Cardinality(Entries(task_queue, {r}))
             d == Cardinality(Doers(doing, r))
             q == Cardinality(Entries(result_queue, Of(r)))
             p == Cardinality(Entries(drained, Of(r)))
  <1>c. /\ t \in Nat /\ d \in Nat /\ q \in Nat /\ p \in Nat
        /\ t + d + q + p = IF fate[r] = "pending" THEN 1 ELSE 0
    <2>1. Held(r) = Places(task_queue, doing, result_queue, drained, r)
      BY <1>a, CountedInPlaces DEF Held
    <2>2. Held(r) = IF fate[r] = "pending" THEN 1 ELSE 0
      BY DEF OneHolder
    <2>3. t \in Nat /\ d \in Nat /\ q \in Nat /\ p \in Nat
      BY <1>a, CountedInPlaces
    <2> QED
      BY <2>1, <2>2, <2>3 DEF Places
  <1>d. Held(r)' = t' + d' + q' + p'
    <2>1. Held(r)' = Places(task_queue', doing', result_queue', drained', r)
      BY <1>b, CountedInPlaces DEF Held
    <2> QED
      BY <2>1 DEF Places
  <1>e. js # "pump" => drained = <<>>
    BY DEF TypeOK
  <1>n. ASSUME UNCHANGED <<task_queue, doing, result_queue, drained, fate>>
        PROVE  Held(r)' = IF fate'[r] = "pending" THEN 1 ELSE 0
    BY <1>n, <1>c, <1>d
  <1> HIDE DEF t, d, q, p
  <1>1. CASE Fetch
    <2>1. next_task_id \in Reqs /\ UNCHANGED <<doing, result_queue, drained>>
          /\ task_queue' = Append(task_queue, next_task_id)
          /\ fate' = [fate EXCEPT ![next_task_id] = "pending"]
      BY <1>1 DEF Fetch
    <2>2. d' = d /\ q' = q /\ p' = p
      BY <2>1 DEF d, q, p
    <2>3. t' = t + (IF next_task_id \in {r} THEN 1 ELSE 0)
      BY <2>1, <1>a, AppendedEntry DEF t
    <2>4. fate[next_task_id] = "none"
      BY <2>1, <1>a DEF Numbered
    <2> QED
      BY <1>a, <1>c, <1>d, <2>1, <2>2, <2>3, <2>4
  <1>2. CASE Signal \/ FetchThrows \/ RunJob \/ Restart
    BY <1>2, <1>n DEF Signal, FetchThrows, RunJob, Restart
  <1>3. ASSUME NEW w \in Workers, WorkerPop(w)
        PROVE  Held(r)' = IF fate'[r] = "pending" THEN 1 ELSE 0
    <2>0. UNCHANGED <<result_queue, drained, fate>> /\ at[w] = "pop"
      BY <1>3 DEF WorkerPop
    <2>1. CASE task_queue = <<>>
      BY <1>3, <2>1, <2>0, <1>n DEF WorkerPop
    <2>2. CASE task_queue # <<>>
      <3>1. /\ doing' = [doing EXCEPT ![w] = Head(task_queue)] /\ task_queue' = Tail(task_queue)
        BY <1>3, <2>2 DEF WorkerPop, Dequeued
      <3>2. Head(task_queue) \in Reqs /\ doing[w] = NoTask
        BY <1>a, <2>0, <2>2 DEF TypeOK
      <3>3. t = t' + (IF Head(task_queue) \in {r} THEN 1 ELSE 0)
        BY <1>a, <2>2, <3>1, DroppedHead DEF t
      <3>4. d' = d + (IF r = Head(task_queue) THEN 1 ELSE 0)
        BY <1>a, <3>1, <3>2, DoerTakes DEF d
      <3>5. q' = q /\ p' = p /\ fate' = fate
        BY <2>0 DEF q, p
      <3>6. t' \in Nat /\ d' \in Nat
        BY <1>b, EntriesFinite, DoersCounted DEF t, d
      <3>7. t' + d' = t + d
        BY <1>c, <3>3, <3>4, <3>6
      <3>8. Held(r)' = t + d + q + p
        BY <1>c, <1>d, <3>5, <3>6, <3>7
      <3> QED
        BY <1>c, <3>5, <3>8
    <2> QED
      BY <2>1, <2>2
  <1>4. ASSUME NEW w \in Workers, WorkerWake(w)
        PROVE  Held(r)' = IF fate'[r] = "pending" THEN 1 ELSE 0
    BY <1>4, <1>n DEF WorkerWake
  <1>5. ASSUME NEW w \in Workers, WorkerAnswer(w)
        PROVE  Held(r)' = IF fate'[r] = "pending" THEN 1 ELSE 0
    <2>1. PICK ok \in BOOLEAN :
             result_queue' = Append(result_queue, [id |-> doing[w], ok |-> ok])
      BY <1>5 DEF WorkerAnswer
    <2>2. /\ UNCHANGED <<task_queue, drained, fate>> /\ at[w] = "request"
          /\ doing' = [doing EXCEPT ![w] = NoTask]
      BY <1>5 DEF WorkerAnswer
    <2>3. doing[w] \in Reqs
      BY <1>a, <2>2 DEF TypeOK
    <2> DEFINE e == [id |-> doing[w], ok |-> ok]
    <2>4. e \in Result /\ (e \in Of(r) <=> r = doing[w])
      BY <2>3 DEF Of, Result
    <2> HIDE DEF e
    <2>5. q' = q + (IF e \in Of(r) THEN 1 ELSE 0)
      BY <1>a, <2>1, <2>4, AppendedEntry DEF q, e
    <2>6. d' = d - (IF r = doing[w] THEN 1 ELSE 0)
      BY <1>a, <2>2, <2>3, DoerIsDone DEF d
    <2>7. t' = t /\ p' = p /\ fate' = fate
      BY <2>2 DEF t, p
    <2> QED
      BY <1>c, <1>d, <2>4, <2>5, <2>6, <2>7
  <1>6. CASE PumpHttpRequests
    <2>1. /\ result_queue' = <<>> /\ drained' = result_queue /\ js = "script"
          /\ UNCHANGED <<task_queue, doing, fate>>
      BY <1>6 DEF PumpHttpRequests, Kept
    <2>2. p = 0 /\ q' = 0
      BY <1>e, <2>1, NoEntries DEF p, q
    <2>3. p' = q /\ t' = t /\ d' = d /\ fate' = fate
      BY <2>1 DEF p, q, t, d
    <2> QED
      BY <1>c, <1>d, <2>2, <2>3
  <1>7. CASE Deliver \/ DeliverStale
    <2>1. js = "pump" /\ drained # <<>> /\ Head(drained).id \in Reqs
      BY <1>7, Delivering DEF Deliver, DeliverStale
    <2>2. /\ drained' = Tail(drained) /\ UNCHANGED <<task_queue, doing, result_queue>>
          /\ \E v \in Fates \ {"pending"} : fate' = [fate EXCEPT ![Head(drained).id] = v]
      BY <1>7 DEF Deliver, DeliverStale, Fates
    <2>3. p = p' + (IF Head(drained).id = r THEN 1 ELSE 0) /\ p' \in Nat
      BY <1>a, <1>b, <2>1, <2>2, HeadResult, EntriesFinite DEF p
    <2>4. t' = t /\ d' = d /\ q' = q
      BY <2>2 DEF t, d, q
    <2>5. Head(drained).id # r => fate'[r] = fate[r]
      BY <1>a, <2>1, <2>2
    <2>6. Head(drained).id = r => fate'[r] # "pending"
      BY <1>a, <2>1, <2>2
    <2>7. CASE Head(drained).id = r
      <3>1. p = p' + 1
        BY <2>3, <2>7
      <3>2. Held(r)' = 0
        BY <1>c, <1>d, <2>3, <2>4, <3>1
      <3> QED
        BY <2>6, <2>7, <3>2
    <2>8. CASE Head(drained).id # r
      <3>1. p = p' + 0
        BY <2>3, <2>8
      <3>2. Held(r)' = t + d + q + p
        BY <1>c, <1>d, <2>3, <2>4, <3>1
      <3> QED
        BY <1>c, <2>5, <2>8, <3>2
    <2> QED
      BY <2>7, <2>8
  <1>8. CASE PumpRaises
    <2>1. /\ drained' = <<>> /\ UNCHANGED <<task_queue, doing, result_queue>>
          /\ fate'[r] = IF r \in {x.id : x \in ToSet(drained)} THEN "lost" ELSE fate[r]
      BY <1>8 DEF PumpRaises
    <2>2. p' = 0
      BY <2>1, NoEntries DEF p
    <2>3. r \in {x.id : x \in ToSet(drained)} <=> p > 0
      BY <1>a, ResultEntries DEF p
    <2>4. t' = t /\ d' = d /\ q' = q
      BY <2>1 DEF t, d, q
    <2> QED
      BY <1>c, <1>d, <2>1, <2>2, <2>3, <2>4
  <1>9. CASE LoopTurns \/ UNCHANGED vars
    BY <1>9, <1>n DEF LoopTurns, LoopBegins, LoopEnds, vars
  <1> QED
    BY <1>1, <1>2, <1>3, <1>4, <1>5, <1>6, <1>7, <1>8, <1>9
       DEF Next, NativeStep, LoopTurns, WorkerStep

(***************************************************************************)
(* The other conjuncts of the invariant.                                   *)
(***************************************************************************)
LEMMA WakeupStep ==
    ASSUME TypeOK, NoLostWakeup, [Next]_vars PROVE NoLostWakeup'
  <1> USE DEF poolVars, pumpVars
  <1>t. at \in [Workers -> {"none", "pop", "wait", "request"}]
    BY DEF TypeOK
  <1>1. CASE Fetch
    BY <1>1 DEF Fetch, NoLostWakeup
  <1>2. CASE Signal
    BY <1>2 DEF Signal, NoLostWakeup
  <1>3. CASE FetchThrows
    <2>1. UNCHANGED <<task_queue, has_work, js>>
      BY <1>3 DEF FetchThrows
    <2>2. \A w \in Workers : at'[w] = "wait" => at[w] = "wait"
      BY <1>3, <1>t DEF FetchThrows, Started
    <2> QED
      BY <2>1, <2>2 DEF NoLostWakeup
  <1>4. ASSUME NEW w \in Workers, WorkerPop(w) PROVE NoLostWakeup'
    <2>1. CASE task_queue = <<>>
      BY <1>4, <2>1 DEF WorkerPop, NoLostWakeup
    <2>2. CASE task_queue # <<>>
      <3>1. at'[w] = "request"
        BY <1>4, <2>2, <1>t DEF WorkerPop
      <3> QED
        BY <3>1 DEF NoLostWakeup
    <2> QED
      BY <2>1, <2>2
  <1>5. ASSUME NEW w \in Workers, WorkerWake(w) \/ WorkerAnswer(w) PROVE NoLostWakeup'
    <2>1. at'[w] = "pop"
      BY <1>5, <1>t DEF WorkerWake, WorkerAnswer, AfterAnswer
    <2> QED
      BY <2>1 DEF NoLostWakeup
  <1>6. CASE PumpHttpRequests \/ RunJob \/ Restart \/ LoopTurns \/ UNCHANGED vars
    <2>1. UNCHANGED <<task_queue, has_work, at>> /\ (js = "signal" => js' = "signal")
      BY <1>6 DEF PumpHttpRequests, RunJob, Restart, LoopTurns, LoopBegins, LoopEnds, vars
    <2> QED
      BY <2>1 DEF NoLostWakeup
  <1>7. CASE Deliver \/ DeliverStale \/ PumpRaises
    <2>1. UNCHANGED <<task_queue, has_work, at>> /\ js = "pump"
      BY <1>7 DEF Deliver, DeliverStale, PumpRaises
    <2> QED
      BY <2>1 DEF NoLostWakeup
  <1> QED
    BY <1>1, <1>2, <1>3, <1>4, <1>5, <1>6, <1>7 DEF Next, NativeStep, LoopTurns, WorkerStep

\* The steps that hand out no id and end no runtime.
LEMMA SameNumbers ==
    ASSUME UNCHANGED <<next_task_id, made, gen>>, Numbered,
           \A r \in Reqs : fate'[r] = "none" <=> fate[r] = "none"
    PROVE  Numbered'
  BY DEF Numbered

\* A request that PumpHttpRequests holds is pending.
LEMMA DrainedIsPending ==
    ASSUME TypeOK, OneHolder, NEW r \in Reqs, r \in {x.id : x \in ToSet(drained)}
    PROVE  fate[r] = "pending"
  <1>1. /\ task_queue \in Seq(Reqs) /\ doing \in [Workers -> Reqs \union {NoTask}]
        /\ result_queue \in Seq(Result) /\ drained \in Seq(Result)
    BY DEF TypeOK
  <1>2. Held(r) = Places(task_queue, doing, result_queue, drained, r)
    BY <1>1, CountedInPlaces DEF Held
  <1>3. Cardinality(Entries(drained, Of(r))) > 0
    BY <1>1, ResultEntries
  <1>4. Held(r) > 0
    <2>1. /\ Cardinality(Entries(task_queue, {r})) \in Nat
          /\ Cardinality(Doers(doing, r)) \in Nat
          /\ Cardinality(Entries(result_queue, Of(r))) \in Nat
          /\ Cardinality(Entries(drained, Of(r))) \in Nat
      BY <1>1, CountedInPlaces
    <2> QED
      BY <1>2, <1>3, <2>1 DEF Places
  <1> QED
    BY <1>4 DEF OneHolder

LEMMA HeadIsPending ==
    ASSUME TypeOK, OneHolder, js = "pump"
    PROVE  fate[Head(drained).id] = "pending"
  <1>1. drained \in Seq(Result) /\ drained # <<>> /\ Head(drained).id \in Reqs
    BY Delivering
  <1>2. Head(drained) \in ToSet(drained)
    BY <1>1 DEF ToSet
  <1> QED
    BY <1>1, <1>2, DrainedIsPending

LEMMA NumberedStep ==
    ASSUME TypeOK, OneHolder, Numbered, [Next]_vars PROVE Numbered'
  <1> USE DEF poolVars, pumpVars
  <1>t. /\ fate \in [Reqs -> Fates] /\ made \in [Reqs -> 0 .. MaxGen] /\ gen \in 1 .. MaxGen
        /\ next_task_id \in Nat
    BY HttpAssumption DEF TypeOK, Gens
  <1>1. CASE Fetch
    <2>1. /\ next_task_id \in Reqs /\ next_task_id' = next_task_id + 1
          /\ fate' = [fate EXCEPT ![next_task_id] = "pending"]
          /\ made' = [made EXCEPT ![next_task_id] = gen] /\ gen' = gen
      BY <1>1 DEF Fetch
    <2>2. \A r \in Reqs : r >= next_task_id' <=> r >= next_task_id /\ r # next_task_id
      BY <1>t, <2>1 DEF Reqs
    <2>3. fate'[next_task_id] # "none" /\ made'[next_task_id] = gen /\ gen # 0
      BY <1>t, <2>1, HttpAssumption
    <2>4. \A r \in Reqs : r # next_task_id => fate'[r] = fate[r] /\ made'[r] = made[r]
      BY <1>t, <2>1
    <2>5. \A r \in Reqs : fate'[r] = "none" <=> r >= next_task_id'
      BY <2>2, <2>3, <2>4 DEF Numbered
    <2>6. \A r \in Reqs : made'[r] = 0 <=> r >= next_task_id'
      BY <2>2, <2>3, <2>4 DEF Numbered
    <2>7. \A r \in Reqs : made'[r] <= gen'
      BY <1>t, <2>1, <2>3, <2>4 DEF Numbered
    <2> QED
      BY <2>5, <2>6, <2>7 DEF Numbered
  <1>2. CASE \/ Signal \/ FetchThrows \/ RunJob \/ PumpHttpRequests
             \/ LoopTurns \/ UNCHANGED vars
             \/ \E w \in Workers : WorkerStep(w)
    <2>1. UNCHANGED <<next_task_id, made, gen, fate>>
      BY <1>2 DEF Signal, FetchThrows, RunJob, PumpHttpRequests,
                  LoopTurns, LoopBegins, LoopEnds, vars, WorkerStep, WorkerPop,
                  WorkerWake, WorkerAnswer
    <2> QED
      BY <2>1, SameNumbers
  <1>3. CASE Restart
    <2>1. UNCHANGED <<next_task_id, made, fate>> /\ gen' = gen + 1
      BY <1>3 DEF Restart
    <2>2. \A r \in Reqs : made'[r] <= gen'
      <3> SUFFICES ASSUME NEW r \in Reqs PROVE made[r] <= gen + 1
        BY <2>1
      <3>1. made[r] \in Nat /\ gen \in Nat /\ made[r] <= gen
        BY <1>t, HttpAssumption DEF Numbered
      <3> QED
        BY <3>1
    <2> QED
      BY <2>1, <2>2 DEF Numbered
  <1>4. CASE Deliver \/ DeliverStale
    <2>1. js = "pump" /\ UNCHANGED <<next_task_id, made, gen>>
          /\ \E v \in Fates \ {"none"} : fate' = [fate EXCEPT ![Head(drained).id] = v]
      BY <1>4 DEF Deliver, DeliverStale, Fates
    <2>2. fate[Head(drained).id] = "pending"
      BY <2>1, HeadIsPending
    <2>3. \A r \in Reqs : fate'[r] = "none" <=> fate[r] = "none"
      BY <1>t, <2>1, <2>2
    <2> QED
      BY <2>1, <2>3, SameNumbers
  <1>5. CASE PumpRaises
    <2>1. UNCHANGED <<next_task_id, made, gen>>
          /\ \A r \in Reqs : fate'[r] = IF r \in {x.id : x \in ToSet(drained)}
                                        THEN "lost" ELSE fate[r]
      BY <1>5 DEF PumpRaises
    <2>2. \A r \in Reqs : r \in {x.id : x \in ToSet(drained)} => fate[r] = "pending"
      BY DrainedIsPending
    <2>3. \A r \in Reqs : fate'[r] = "none" <=> fate[r] = "none"
      BY <2>1, <2>2
    <2> QED
      BY <2>1, <2>3, SameNumbers
  <1> QED
    BY <1>1, <1>2, <1>3, <1>4, <1>5 DEF Next, NativeStep, LoopTurns

LEMMA ReactionStep ==
    ASSUME TypeOK, OneHolder, Numbered, Reactions, [Next]_vars PROVE Reactions'
  <1> USE DEF poolVars, pumpVars
  <1>t. /\ fate \in [Reqs -> Fates] /\ made \in [Reqs -> 0 .. MaxGen]
        /\ jobs \in Seq(Reqs) /\ released \subseteq Reqs
    BY DEF TypeOK
  <1>1. CASE Fetch
    <2>1. /\ next_task_id \in Reqs /\ UNCHANGED <<jobs, released, gen>>
          /\ fate' = [fate EXCEPT ![next_task_id] = "pending"]
          /\ made' = [made EXCEPT ![next_task_id] = gen]
      BY <1>1 DEF Fetch
    <2>2. fate[next_task_id] = "none"
      BY <2>1, <1>t, HttpAssumption DEF Numbered, Reqs
    <2>3. \A r \in Reqs : fate[r] \in {"resolved", "rejected"}
                             => fate'[r] = fate[r] /\ made'[r] = made[r]
      BY <1>t, <2>1, <2>2
    <2>4. \A i \in DOMAIN jobs : jobs[i] \in Reqs
      BY <1>t
    <2> QED
      BY <1>t, <2>1, <2>3, <2>4 DEF Reactions
  <1>2. CASE \/ Signal \/ FetchThrows \/ PumpHttpRequests \/ LoopTurns \/ UNCHANGED vars
             \/ \E w \in Workers : WorkerStep(w)
    <2>1. UNCHANGED <<made, gen, fate, jobs, released>>
      BY <1>2 DEF Signal, FetchThrows, PumpHttpRequests,
                  LoopTurns, LoopBegins, LoopEnds, vars, WorkerStep, WorkerPop,
                  WorkerWake, WorkerAnswer
    <2> QED
      BY <2>1 DEF Reactions
  <1>3. CASE Deliver
    <2> DEFINE h == Head(drained).id
    <2>1. js = "pump" /\ UNCHANGED <<made, gen, released>> /\ made[h] = gen
          /\ jobs' = Append(jobs, h)
      BY <1>3 DEF Deliver
    <2>2. \E v \in {"resolved", "rejected"} : fate' = [fate EXCEPT ![h] = v]
      BY <1>3 DEF Deliver
    <2>3. h \in Reqs /\ fate[h] = "pending"
      BY <2>1, HeadIsPending, Delivering
    <2> HIDE DEF h
    <2>4. /\ DOMAIN jobs = 1 .. Len(jobs) /\ Len(jobs) \in Nat
          /\ DOMAIN jobs' = 1 .. Len(jobs) + 1
          /\ jobs'[Len(jobs) + 1] = h
          /\ \A i \in DOMAIN jobs : jobs'[i] = jobs[i] /\ jobs[i] \in Reqs
      BY <1>t, <2>1, <2>3
    <2>5. \A i \in DOMAIN jobs : jobs[i] # h
      BY <2>3 DEF Reactions
    <2>6. h \notin released
      BY <2>3 DEF Reactions
    <2>7. fate'[h] \in {"resolved", "rejected"} /\ \A r \in Reqs : r # h => fate'[r] = fate[r]
      BY <1>t, <2>2, <2>3
    <2>8. \A i, j \in DOMAIN jobs' : jobs'[i] = jobs'[j] => i = j
      BY <2>4, <2>5 DEF Reactions
    <2>9. \A i \in DOMAIN jobs' : /\ made'[jobs'[i]] = gen' /\ jobs'[i] \notin released'
                                  /\ fate'[jobs'[i]] \in {"resolved", "rejected"}
      <3> SUFFICES ASSUME NEW i \in DOMAIN jobs'
                   PROVE  /\ made'[jobs'[i]] = gen' /\ jobs'[i] \notin released'
                          /\ fate'[jobs'[i]] \in {"resolved", "rejected"}
        OBVIOUS
      <3>1. CASE i = Len(jobs) + 1
        BY <2>1, <2>4, <2>6, <2>7, <3>1
      <3>2. CASE i \in DOMAIN jobs
        BY <2>1, <2>4, <2>5, <2>7, <3>2 DEF Reactions
      <3> QED
        BY <2>4, <3>1, <3>2
    <2>10. \A r \in released' : fate'[r] \in {"resolved", "rejected"}
      BY <1>t, <2>1, <2>7 DEF Reactions
    <2> QED
      BY <2>8, <2>9, <2>10 DEF Reactions
  <1>4. CASE DeliverStale
    <2>1. js = "pump" /\ UNCHANGED <<made, gen, released, jobs>>
          /\ fate' = [fate EXCEPT ![Head(drained).id] = "stale"]
      BY <1>4 DEF DeliverStale
    <2>2. fate[Head(drained).id] = "pending"
      BY <2>1, HeadIsPending
    <2>3. \A r \in Reqs : fate[r] \in {"resolved", "rejected"} => fate'[r] = fate[r]
      BY <1>t, <2>1, <2>2
    <2>4. \A i \in DOMAIN jobs : jobs[i] \in Reqs
      BY <1>t
    <2> QED
      BY <1>t, <2>1, <2>3, <2>4 DEF Reactions
  <1>5. CASE PumpRaises
    <2>1. UNCHANGED <<made, gen, released, jobs>>
          /\ \A r \in Reqs : fate'[r] = IF r \in {x.id : x \in ToSet(drained)}
                                        THEN "lost" ELSE fate[r]
      BY <1>5 DEF PumpRaises
    <2>2. \A r \in Reqs : r \in {x.id : x \in ToSet(drained)} => fate[r] = "pending"
      BY DrainedIsPending
    <2>3. \A r \in Reqs : fate[r] \in {"resolved", "rejected"} => fate'[r] = fate[r]
      BY <2>1, <2>2
    <2>4. \A i \in DOMAIN jobs : jobs[i] \in Reqs
      BY <1>t
    <2> QED
      BY <1>t, <2>1, <2>3, <2>4 DEF Reactions
  <1>6. CASE RunJob
    <2>1. /\ jobs # <<>> /\ jobs' = Tail(jobs) /\ UNCHANGED <<made, gen, fate>>
          /\ released' \in {released, released \union {Head(jobs)}}
      BY <1>6 DEF RunJob
    <2>2. /\ Head(jobs) = jobs[1] /\ 1 \in DOMAIN jobs
          /\ DOMAIN jobs = 1 .. Len(jobs) /\ Len(jobs) \in Nat
          /\ DOMAIN jobs' = 1 .. Len(jobs) - 1
          /\ \A i \in DOMAIN jobs' : jobs'[i] = jobs[i + 1]
      BY <1>t, <2>1
    <2>3. \A i \in DOMAIN jobs' : i + 1 \in DOMAIN jobs /\ i + 1 # 1
      BY <2>2
    <2>4. \A i, j \in DOMAIN jobs' : jobs'[i] = jobs'[j] => i = j
      <3> SUFFICES ASSUME NEW i \in DOMAIN jobs', NEW j \in DOMAIN jobs', jobs'[i] = jobs'[j]
                   PROVE  i = j
        OBVIOUS
      <3>1. i + 1 = j + 1
        BY <2>2, <2>3 DEF Reactions
      <3> QED
        BY <2>2, <3>1
    <2>5. \A i \in DOMAIN jobs' : /\ made'[jobs'[i]] = gen' /\ jobs'[i] \notin released'
                                  /\ fate'[jobs'[i]] \in {"resolved", "rejected"}
      BY <2>1, <2>2, <2>3 DEF Reactions
    <2>6. \A r \in released' : fate'[r] \in {"resolved", "rejected"}
      BY <2>1, <2>2 DEF Reactions
    <2> QED
      BY <2>4, <2>5, <2>6 DEF Reactions
  <1>7. CASE Restart
    <2>1. jobs' = <<>> /\ UNCHANGED <<fate, released>>
      BY <1>7 DEF Restart
    <2>2. DOMAIN jobs' = {}
      BY <2>1
    <2> QED
      BY <2>1, <2>2 DEF Reactions
  <1> QED
    BY <1>1, <1>2, <1>3, <1>4, <1>5, <1>6, <1>7 DEF Next, NativeStep, LoopTurns

\* The steps that neither open nor close a fetch.
LEMMA SameOpen ==
    ASSUME UNCHANGED <<made, gen, released, pump_count, timer, refused>>, PumpCountsFetches
    PROVE  PumpCountsFetches'
  BY DEF PumpCountsFetches, OpenFetches

LEMMA OpenIsFinite ==
    /\ IsFiniteSet(OpenFetches) /\ Cardinality(OpenFetches) \in Nat
  <1>1. OpenFetches \in SUBSET Reqs /\ IsFiniteSet(Reqs)
    BY HttpAssumption, FS_Interval DEF OpenFetches, Reqs
  <1> QED
    BY <1>1, FS_Subset, FS_CardinalityType

LEMMA PumpStep ==
    ASSUME TypeOK, Numbered, Reactions, PumpCountsFetches, [Next]_vars
    PROVE  PumpCountsFetches'
  <1> USE DEF poolVars, pumpVars
  <1>t. /\ made \in [Reqs -> 0 .. MaxGen] /\ gen \in 1 .. MaxGen /\ jobs \in Seq(Reqs)
        /\ released \subseteq Reqs /\ pump_count \in Nat /\ refused \in Nat
    BY HttpAssumption DEF TypeOK, Gens
  <1> DEFINE c == Cardinality(OpenFetches)
  <1>c. /\ c \in Nat /\ pump_count = c + refused /\ (timer <=> pump_count > 0)
        /\ IsFiniteSet(OpenFetches)
    BY OpenIsFinite DEF PumpCountsFetches
  <1> HIDE DEF c
  <1>1. CASE Fetch
    <2>1. /\ next_task_id \in Reqs /\ UNCHANGED <<released, gen, refused>>
          /\ made' = [made EXCEPT ![next_task_id] = gen]
          /\ pump_count' = pump_count + 1
      BY <1>1 DEF Fetch, acquirePump
    <2>2. timer' = TRUE
      BY <1>1 DEF Fetch, acquirePump
    <2>3. made[next_task_id] = 0 /\ fate[next_task_id] = "none"
      BY <2>1, HttpAssumption DEF Numbered, Reqs
    <2>4. next_task_id \notin OpenFetches /\ next_task_id \notin released
      BY <1>t, <2>3, HttpAssumption DEF OpenFetches, Reactions
    <2>5. OpenFetches' = OpenFetches \cup {next_task_id}
      BY <1>t, <2>1, <2>4 DEF OpenFetches
    <2>6. c' = c + 1
      BY <1>c, <2>4, <2>5, FS_AddElement DEF c
    <2>7. pump_count' = c' + refused' /\ pump_count' > 0
      BY <1>c, <1>t, <2>1, <2>6
    <2> QED
      BY <2>2, <2>7 DEF PumpCountsFetches, c
  <1>2. CASE FetchThrows
    <2>1. /\ UNCHANGED <<released, gen, made>> /\ refused' = refused + 1
          /\ pump_count' = pump_count + 1
      BY <1>2 DEF FetchThrows, acquirePump
    <2>2. timer' = TRUE
      BY <1>2 DEF FetchThrows, acquirePump
    <2>3. c' = c
      BY <2>1 DEF c, OpenFetches
    <2>4. pump_count' = c' + refused' /\ pump_count' > 0
      BY <1>c, <1>t, <2>1, <2>3
    <2> QED
      BY <2>2, <2>4 DEF PumpCountsFetches, c
  <1>3. CASE RunJob
    <2> DEFINE h == Head(jobs)
    <2>1. h \in OpenFetches
      <3>1. 1 \in DOMAIN jobs /\ h = jobs[1] /\ h \in Reqs
        BY <1>3, <1>t DEF RunJob
      <3> QED
        BY <3>1 DEF Reactions, OpenFetches
    <2>2. OpenFetches # {} /\ c > 0
      <3>1. OpenFetches # {}
        BY <2>1
      <3>2. c # 0
        BY <1>c, <3>1, FS_EmptySet DEF c
      <3> QED
        BY <1>c, <3>1, <3>2
    <2>3. pump_count > 0
      BY <1>c, <1>t, <2>2
    <2>4. /\ pump_count' = pump_count - 1 /\ released' = released \union {h}
          /\ UNCHANGED <<made, gen, refused>>
      BY <1>3, <2>3 DEF RunJob, Releases, CountAfter
    <2>5. timer' = (pump_count - 1 > 0)
      BY <1>3, <2>3 DEF RunJob, Releases, CountAfter
    <2>6. OpenFetches' = OpenFetches \ {h}
      BY <2>4 DEF OpenFetches
    <2>7. c' = c - 1
      BY <1>c, <2>1, <2>6, FS_RemoveElement DEF c
    <2>8. pump_count' = c' + refused'
      BY <1>c, <1>t, <2>4, <2>7
    <2>9. timer' <=> pump_count' > 0
      BY <2>4, <2>5
    <2> QED
      BY <2>8, <2>9 DEF PumpCountsFetches, c
  <1>4. CASE Restart
    <2>1. /\ pump_count' = 0 /\ refused' = 0 /\ gen' = gen + 1 /\ made' = made
      BY <1>4 DEF Restart
    <2>2. timer' = FALSE
      BY <1>4 DEF Restart
    <2>3. \A r \in Reqs : made[r] # gen + 1
      <3> SUFFICES ASSUME NEW r \in Reqs PROVE made[r] # gen + 1
        OBVIOUS
      <3>1. made[r] \in Nat /\ gen \in Nat /\ made[r] <= gen
        BY <1>t, HttpAssumption DEF Numbered
      <3> QED
        BY <3>1
    <2>4. OpenFetches' = {}
      BY <2>1, <2>3 DEF OpenFetches
    <2>5. Cardinality(OpenFetches)' = 0
      BY <2>4, FS_EmptySet
    <2> QED
      BY <2>1, <2>2, <2>5 DEF PumpCountsFetches
  <1>5. CASE \/ Signal \/ PumpHttpRequests \/ Deliver \/ DeliverStale \/ PumpRaises
             \/ LoopTurns \/ UNCHANGED vars \/ \E w \in Workers : WorkerStep(w)
    <2>1. UNCHANGED <<made, gen, released, refused>>
      BY <1>5 DEF Signal, PumpHttpRequests, Deliver, DeliverStale, PumpRaises,
                  LoopTurns, LoopBegins, LoopEnds, vars,
                  WorkerStep, WorkerPop, WorkerWake, WorkerAnswer
    <2>2. UNCHANGED <<pump_count, timer>>
      BY <1>5 DEF Signal, PumpHttpRequests, Deliver, DeliverStale, PumpRaises,
                  LoopTurns, LoopBegins, LoopEnds, vars,
                  WorkerStep, WorkerPop, WorkerWake, WorkerAnswer
    <2> QED
      BY <2>1, <2>2, SameOpen
  <1> QED
    BY <1>1, <1>2, <1>3, <1>4, <1>5 DEF Next, NativeStep, LoopTurns

LEMMA InitIInv ==
    ASSUME Init PROVE IInv
  <1>1. TypeOK
    <2>1. /\ task_queue \in Seq(Reqs) /\ result_queue \in Seq(Result) /\ drained \in Seq(Result)
          /\ jobs \in Seq(Reqs) /\ (js = "pump" <=> drained # <<>>)
      BY DEF Init
    <2>2. has_work \in BOOLEAN /\ timer \in BOOLEAN /\ looping \in BOOLEAN
      BY DEF Init
    <2>3. /\ next_task_id \in 1 .. NumReqs + 1 /\ gen \in Gens /\ pump_count \in Nat
          /\ refused \in 0 .. MaxThrows
      BY HttpAssumption DEF Init, Gens
    <2>4. /\ at \in [Workers -> {"none", "pop", "wait", "request"}]
          /\ doing \in [Workers -> Reqs \union {NoTask}]
          /\ \A w \in Workers : at[w] = "request" <=> doing[w] # NoTask
      BY DEF Init
    <2>5. made \in [Reqs -> 0 .. MaxGen] /\ fate \in [Reqs -> Fates]
      BY HttpAssumption DEF Init, Fates
    <2>6. js \in {"script", "signal", "pump"} /\ released \subseteq Reqs
      BY DEF Init
    <2> QED
      BY <2>1, <2>2, <2>3, <2>4, <2>5, <2>6 DEF TypeOK
  <1>2. OneHolder
    <2> SUFFICES ASSUME NEW r \in Reqs PROVE Held(r) = 0
      BY DEF Init, OneHolder
    <2>1. /\ task_queue = <<>> /\ result_queue = <<>> /\ drained = <<>>
          /\ doing \in [Workers -> Reqs \union {NoTask}]
      BY <1>1 DEF Init, TypeOK
    <2>2. Held(r) = Places(task_queue, doing, result_queue, drained, r)
      BY <1>1, CountedInPlaces DEF Held, TypeOK
    <2>3. Doers(doing, r) = {}
      BY HttpAssumption DEF Init, Doers, NoTask, Reqs
    <2> QED
      BY <2>1, <2>2, <2>3, NoEntries, FS_EmptySet DEF Places
  <1>3. NoLostWakeup
    BY DEF Init, NoLostWakeup
  <1>4. PumpCountsFetches
    <2>1. OpenFetches = {}
      BY HttpAssumption DEF Init, OpenFetches
    <2> QED
      BY <2>1, FS_EmptySet DEF Init, PumpCountsFetches
  <1>5. Numbered
    BY HttpAssumption DEF Init, Numbered, Reqs
  <1>6. Reactions
    BY DEF Init, Reactions
  <1> QED
    BY <1>1, <1>2, <1>3, <1>4, <1>5, <1>6 DEF IInv, WellFormed

LEMMA StepIInv ==
    ASSUME IInv, [Next]_vars PROVE IInv'
  <1>1. TypeOK'
    BY TypeStep DEF IInv, WellFormed
  <1> QED
    BY <1>1, HolderStep, WakeupStep, NumberedStep, ReactionStep, PumpStep DEF IInv, WellFormed

\* In every behaviour of the program the whole invariant holds.
THEOREM Invariant == Spec => []IInv
  <1>1. Init => IInv
    BY InitIInv
  <1>2. IInv /\ [Next]_vars => IInv'
    BY StepIInv
  <1> QED
    BY <1>1, <1>2, PTL DEF Spec

\* Every variable has its type, and a request whose promise is pending is in exactly one
\* of the two queues, a worker's hands or the batch being delivered; no other request is in
\* any of them.
THEOREM RequestsWellFormed == Spec => []WellFormed
  <1>1. IInv => WellFormed
    BY DEF IInv
  <1> QED
    BY <1>1, Invariant, PTL

\* TaskQueuePush sets the event after it has left the lock: even so the workers never all
\* wait on a queued task with the event neither set nor about to be.
THEOREM NoWakeupIsLost == Spec => []NoLostWakeup
  <1>1. IInv => NoLostWakeup
    BY DEF IInv
  <1> QED
    BY <1>1, Invariant, PTL

\* The count of the pump is the number of fetches of this runtime that still wait for their
\* reaction, and of calls that threw; the timer runs exactly while it is positive.
THEOREM PumpIsCounted == Spec => []PumpCountsFetches
  <1>1. IInv => PumpCountsFetches
    BY DEF IInv
  <1> QED
    BY <1>1, Invariant, PTL

(***************************************************************************)
(* The refinement: every step is a step of the request board, or leaves it *)
(* as it is.                                                               *)
(***************************************************************************)
Seen == [r \in Reqs |-> StateOf(r)]

\* The steps that change no promise.
LEMMA SameSeen ==
    ASSUME UNCHANGED <<fate, made, gen>> PROVE UNCHANGED Seen
  BY DEF Seen, StateOf

LEMMA SeenIs ==
    ASSUME TypeOK, NEW r \in Reqs
    PROVE  /\ fate[r] = "none" <=> Seen[r] = "new"
           /\ fate[r] = "pending" /\ made[r] = gen <=> Seen[r] = "open"
           /\ fate[r] = "resolved" <=> Seen[r] = "resolved"
           /\ fate[r] = "rejected" <=> Seen[r] = "rejected"
           /\ Seen[r] \in {"new", "open", "resolved", "rejected", "dropped"}
  BY DEF Seen, StateOf, TypeOK, Fates

LEMMA FetchAsks ==
    ASSUME IInv, Fetch PROVE Board!Ask
  <1> DEFINE n == next_task_id
  <1>1. /\ n \in Reqs /\ fate' = [fate EXCEPT ![n] = "pending"]
        /\ made' = [made EXCEPT ![n] = gen] /\ gen' = gen
    BY DEF Fetch
  <1>2. /\ fate \in [Reqs -> Fates] /\ made \in [Reqs -> 0 .. MaxGen] /\ TypeOK
    BY DEF IInv, WellFormed, TypeOK
  <1>3. Seen[n] = "new"
    <2>1. fate[n] = "none"
      BY <1>1, HttpAssumption DEF IInv, Numbered, Reqs
    <2> QED
      BY <1>1, <1>2, <2>1, SeenIs
  <1>4. \A q \in 1 .. n - 1 : Seen[q] # "new"
    <2> SUFFICES ASSUME NEW q \in 1 .. n - 1 PROVE Seen[q] # "new"
      OBVIOUS
    <2>1. q \in Reqs /\ ~(q >= n)
      BY <1>1, HttpAssumption DEF Reqs
    <2>2. fate[q] # "none"
      BY <2>1 DEF IInv, Numbered
    <2> QED
      BY <1>2, <2>1, <2>2, SeenIs
  <1> HIDE DEF n
  <1>5. Seen' = [r \in Reqs |-> IF r \in {n} THEN "open" ELSE Seen[r]]
    <2>1. \A r \in Reqs : StateOf(r)' = IF r \in {n} THEN "open" ELSE StateOf(r)
      BY <1>1, <1>2 DEF StateOf
    <2> QED
      BY <2>1 DEF Seen
  <1> QED
    BY <1>1, <1>3, <1>4, <1>5 DEF Board!Ask, Board!With, Seen

LEMMA DeliverSettles ==
    ASSUME IInv, Deliver PROVE Board!Settle
  <1> DEFINE h == Head(drained).id
             s == IF Head(drained).ok THEN "resolved" ELSE "rejected"
  <1>1. /\ js = "pump" /\ made[h] = gen /\ UNCHANGED <<made, gen>>
        /\ fate' = [fate EXCEPT ![h] = s]
    BY DEF Deliver
  <1>2. /\ fate \in [Reqs -> Fates] /\ TypeOK /\ OneHolder
    BY DEF IInv, WellFormed, TypeOK
  <1>3. h \in Reqs /\ fate[h] = "pending"
    BY <1>1, <1>2, Delivering, HeadIsPending
  <1>4. s \in {"resolved", "rejected"}
    OBVIOUS
  <1> HIDE DEF h, s
  <1>5. Seen[h] = "open"
    BY <1>1, <1>2, <1>3, SeenIs
  <1>6. Seen' = [r \in Reqs |-> IF r \in {h} THEN s ELSE Seen[r]]
    <2>1. \A r \in Reqs : StateOf(r)' = IF r \in {h} THEN s ELSE StateOf(r)
      BY <1>1, <1>2, <1>3, <1>4 DEF StateOf
    <2> QED
      BY <2>1 DEF Seen
  <1> QED
    BY <1>3, <1>4, <1>5, <1>6 DEF Board!Settle, Board!Open, Board!With, Seen

\* An answer for a runtime that is gone changes nothing: its request is dropped already.
LEMMA StaleIsDropped ==
    ASSUME IInv, DeliverStale PROVE UNCHANGED Seen
  <1> DEFINE h == Head(drained).id
  <1>1. /\ js = "pump" /\ made[h] # gen /\ UNCHANGED <<made, gen>>
        /\ fate' = [fate EXCEPT ![h] = "stale"]
    BY DEF DeliverStale
  <1>2. /\ fate \in [Reqs -> Fates] /\ TypeOK /\ OneHolder
    BY DEF IInv, WellFormed, TypeOK
  <1>3. h \in Reqs /\ fate[h] = "pending"
    BY <1>1, <1>2, Delivering, HeadIsPending
  <1> HIDE DEF h
  <1>4. \A r \in Reqs : StateOf(r)' = StateOf(r)
    BY <1>1, <1>2, <1>3 DEF StateOf
  <1> QED
    BY <1>4 DEF Seen

LEMMA RaisingLoses ==
    ASSUME IInv, PumpRaises PROVE Board!Lose
  <1> DEFINE h == Head(drained).id
             B == {x.id : x \in ToSet(drained)}
             O == {r \in Reqs : Seen[r] = "open"}
  <1>1. /\ js = "pump" /\ made[h] # gen /\ UNCHANGED <<made, gen>>
        /\ fate' = [r \in Reqs |-> IF r \in B THEN "lost" ELSE fate[r]]
    BY DEF PumpRaises, Raises
  <1>2. /\ fate \in [Reqs -> Fates] /\ TypeOK /\ OneHolder
    BY DEF IInv, WellFormed, TypeOK
  <1>3. h \in Reqs /\ fate[h] = "pending"
    BY <1>1, <1>2, Delivering, HeadIsPending
  <1>4. \A r \in Reqs : r \in B => fate[r] = "pending"
    BY <1>2, DrainedIsPending
  <1> HIDE DEF h, B
  <1>5. Seen[h] = "dropped"
    BY <1>1, <1>2, <1>3, SeenIs
  <1>6. Seen' = [r \in Reqs |-> IF r \in B \intersect O THEN "dropped" ELSE Seen[r]]
    <2>1. ASSUME NEW r \in Reqs
          PROVE  StateOf(r)' = IF r \in B \intersect O THEN "dropped" ELSE StateOf(r)
      <3>1. CASE r \in B
        <4>1. StateOf(r)' = "dropped"
          BY <1>1, <3>1 DEF StateOf
        <4>2. StateOf(r) \in {"open", "dropped"}
          BY <1>4, <3>1 DEF StateOf
        <4>3. r \in O <=> StateOf(r) = "open"
          BY DEF Seen
        <4> QED
          BY <3>1, <4>1, <4>2, <4>3
      <3>2. CASE r \notin B
        BY <1>1, <3>2 DEF StateOf
      <3> QED
        BY <3>1, <3>2
    <2> QED
      BY <2>1 DEF Seen
  <1>7. B \intersect O \in SUBSET O
    OBVIOUS
  <1> QED
    BY <1>3, <1>5, <1>6, <1>7 DEF Board!Lose, Board!Open, Board!With, Seen

LEMMA RestartEnds ==
    ASSUME IInv, Restart PROVE Board!EndRuntime
  <1> DEFINE O == {r \in Reqs : Seen[r] = "open"}
  <1>1. gen' = gen + 1 /\ UNCHANGED <<made, fate>>
    BY DEF Restart
  <1>2. \A r \in Reqs : made[r] # gen + 1
    <2> SUFFICES ASSUME NEW r \in Reqs PROVE made[r] # gen + 1
      OBVIOUS
    <2>1. made[r] \in Nat /\ gen \in Nat /\ made[r] <= gen
      BY HttpAssumption DEF IInv, WellFormed, TypeOK, Numbered, Gens
    <2> QED
      BY <2>1
  <1>3. ASSUME NEW r \in Reqs
        PROVE  StateOf(r)' = IF r \in O THEN "dropped" ELSE StateOf(r)
    <2>1. r \in O <=> StateOf(r) = "open"
      BY DEF Seen
    <2>2. StateOf(r) = "open" => StateOf(r)' = "dropped"
      BY <1>1, <1>2 DEF StateOf
    <2>3. StateOf(r) # "open" => StateOf(r)' = StateOf(r)
      BY <1>1, <1>2 DEF StateOf
    <2> QED
      BY <2>1, <2>2, <2>3
  <1>4. Seen' = [r \in Reqs |-> IF r \in O THEN "dropped" ELSE Seen[r]]
    BY <1>3 DEF Seen
  <1> QED
    BY <1>4 DEF Board!EndRuntime, Board!Open, Board!With, Seen

LEMMA BoardStep ==
    ASSUME IInv, [Next]_vars PROVE [Board!Next]_Seen
  <1>1. CASE \/ Signal \/ FetchThrows \/ RunJob \/ PumpHttpRequests
             \/ LoopTurns \/ UNCHANGED vars
             \/ \E w \in Workers : WorkerStep(w)
    <2>1. UNCHANGED <<fate, made, gen>>
      BY <1>1 DEF Signal, FetchThrows, RunJob, PumpHttpRequests,
                  LoopTurns, LoopBegins, LoopEnds, vars, WorkerStep, WorkerPop,
                  WorkerWake, WorkerAnswer
    <2> QED
      BY <2>1, SameSeen
  <1> QED
    BY <1>1, FetchAsks, DeliverSettles, StaleIsDropped, RaisingLoses, RestartEnds
       DEF Next, NativeStep, LoopTurns, Board!Next

\* Seen as the state of each request, the program asks in order, answers once, drops what
\* its runtime leaves open, and loses answers only next to such a request's.
THEOREM BoardImplemented == Spec => ImplementsBoard
  <1>1. Init => Board!Init
    <2> SUFFICES ASSUME Init PROVE Seen = [r \in Reqs |-> "new"]
      BY DEF Board!Init, Seen
    <2> QED
      BY DEF Init, Seen, StateOf
  <1>2. IInv /\ [Next]_vars => [Board!Next]_Seen
    BY BoardStep
  <1> QED
    BY <1>1, <1>2, Invariant, PTL DEF Spec, ImplementsBoard, Board!Spec, Seen
=============================================================================
