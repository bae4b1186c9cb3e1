-------------------------- MODULE EventLoopProofs --------------------------
(***************************************************************************)
(* Proofs about EventLoop for every set of senders, every set of delays,   *)
(* every choice of modes and every bound.                                  *)
(***************************************************************************)
EXTENDS EventLoop, DataLemmas, TLAPS

\* Ids of timers are handed out once: those in the list differ and are used up, and so
\* is the id of the one-shot timer whose function runs, which Unlist took off the list.
TimerIds ==
    /\ \A i, j \in DOMAIN timers : timers[i].id = timers[j].id => i = j
    /\ \A i \in DOMAIN timers : timers[i].id < next_timer
    /\ callee.kind = "timer" => callee.id < next_timer

\* No message is taken that was not posted.
PostedFirst == \A s \in Senders : handled[s] <= sent[s]

\* Only lines of the REPL do not go on to the event loop.
GoesOn == mode # "repl" => run_std_loop

\* The inductive invariant.
IInv == WellFormed /\ TimerIds /\ MessagesKept /\ PostedFirst /\ GoesOn /\ NothingForgotten

LEMMA MaxDelayBounds ==
    MaxDelay \in Nat /\ \A k \in Delays : k \in 0 .. MaxDelay
  <1>1. Delays \subseteq Int /\ IsFiniteSet(Delays) /\ Delays # {}
    BY LoopAssumption
  <1>2. \E m \in Delays : \A k \in Delays : k <= m
    BY <1>1, GreatestExists
  <1>3. MaxDelay \in Delays /\ \A k \in Delays : k <= MaxDelay
    BY <1>2 DEF MaxDelay
  <1> QED
    BY <1>3, LoopAssumption

LEMMA ChosenIsDue ==
    ASSUME TypeOK, DueTimers # {}
    PROVE  Chosen \in DOMAIN timers /\ timers[Chosen].left = 0
  <1>1. DueTimers \subseteq Nat
    BY DEF TypeOK, DueTimers
  <1>2. \E k \in DueTimers : \A j \in DueTimers : k <= j
    BY <1>1, LeastExists
  <1>3. Chosen \in DueTimers
    BY <1>2 DEF Chosen
  <1> QED
    BY <1>3 DEF DueTimers, Due

\* The message taken is that of a port that is signalled, wherever it is in the list.
LEMMA ReceivedIsSignalled ==
    ASSUME TypeOK, Signalled, "stdin" \notin handlers
    PROVE  /\ Received \in DOMAIN ports
           /\ ports[Received] \in Senders
           /\ waker[ports[Received]]
  <1> DEFINE Woken == {k \in DOMAIN ports : waker[ports[k]]}
  <1>1. Woken # {} /\ Woken \subseteq Nat
    <2>1. ports \in Seq(Senders)
      BY DEF TypeOK
    <2>2. DOMAIN ports \subseteq Nat
      BY <2>1
    <2>3. \E k \in DOMAIN ports : waker[ports[k]]
      BY DEF Signalled
    <2> QED
      BY <2>2, <2>3
  <1>2. PICK k \in Woken : \A j \in Woken : k <= j
    BY <1>1, LeastExists
  <1>3. \E m \in DOMAIN ports :
           waker[ports[m]] /\ \A j \in DOMAIN ports : waker[ports[j]] => m <= j
    BY <1>2
  <1>4. Received \in DOMAIN ports /\ waker[ports[Received]]
    BY <1>3 DEF Received
  <1> QED
    BY <1>4 DEF TypeOK

\* What posting and taking do to a list of messages numbered in the order of posting.
LEMMA PostedList ==
    ASSUME NEW h \in Nat, NEW n \in Nat, h <= n
    PROVE  Append([k \in 1 .. n - h |-> h + k], n + 1)
               = [k \in 1 .. (n + 1) - h |-> h + k]
  <1> DEFINE q == [k \in 1 .. n - h |-> h + k]
             r == [k \in 1 .. (n + 1) - h |-> h + k]
  <1>1. q \in Seq(Nat) /\ Len(q) = n - h /\ r \in Seq(Nat) /\ Len(r) = (n + 1) - h
    OBVIOUS
  <1>2. /\ Append(q, n + 1) \in Seq(Nat)
        /\ Len(Append(q, n + 1)) = (n + 1) - h
    BY <1>1
  <1>3. ASSUME NEW i \in 1 .. (n + 1) - h PROVE Append(q, n + 1)[i] = r[i]
    <2>1. r[i] = h + i
      OBVIOUS
    <2>2. CASE i = (n + 1) - h
      BY <1>1, <2>1, <2>2
    <2>3. CASE i # (n + 1) - h
      <3>1. i \in 1 .. n - h
        BY <2>3
      <3> QED
        BY <1>1, <2>1, <3>1
    <2> QED
      BY <2>2, <2>3
  <1> HIDE DEF q, r
  <1> QED
    BY <1>1, <1>2, <1>3, SeqEqual DEF q, r

LEMMA TakenList ==
    ASSUME NEW h \in Nat, NEW n \in Nat, h < n
    PROVE  RemoveAt([k \in 1 .. n - h |-> h + k], 1)
               = [k \in 1 .. n - (h + 1) |-> (h + 1) + k]
  <1> DEFINE q == [k \in 1 .. n - h |-> h + k]
             r == [k \in 1 .. n - (h + 1) |-> (h + 1) + k]
  <1>1. /\ q \in Seq(Nat) /\ Len(q) = n - h /\ 1 \in DOMAIN q
        /\ r \in Seq(Nat) /\ Len(r) = n - (h + 1)
    OBVIOUS
  <1>2. /\ RemoveAt(q, 1) \in Seq(Nat) /\ Len(RemoveAt(q, 1)) = Len(q) - 1
        /\ \A i \in 1 .. Len(q) - 1 :
              RemoveAt(q, 1)[i] = IF i < 1 THEN q[i] ELSE q[i + 1]
    <2> HIDE DEF q
    <2> QED
      BY <1>1, RemoveAtFacts
  <1>3. Len(RemoveAt(q, 1)) = Len(r)
    BY <1>1, <1>2
  <1>4. ASSUME NEW i \in 1 .. Len(r) PROVE RemoveAt(q, 1)[i] = r[i]
    <2>1. i \in 1 .. Len(q) - 1 /\ ~(i < 1) /\ i + 1 \in 1 .. n - h
      BY <1>1
    <2>2. RemoveAt(q, 1)[i] = q[i + 1]
      BY <1>2, <2>1
    <2>3. q[i + 1] = h + (i + 1) /\ r[i] = (h + 1) + i
      BY <1>1, <2>1
    <2> QED
      BY <2>1, <2>2, <2>3
  <1> HIDE DEF q, r
  <1> QED
    BY <1>1, <1>2, <1>3, <1>4, SeqEqual DEF q, r

\* Who touches the pipes: the other threads, and this one where a message is taken or
\* the runtime is a new one.
LEMMA PipeStep ==
    ASSUME [Next]_vars
    PROVE  UNCHANGED pipes \/ DaemonJob \/ MessageCalled \/ \E s \in Senders : postMessage(s)
  <1>1. CASE HostStep
    BY <1>1 DEF HostStep, Evaluate, EvalReturns, EvalThrows, PendingJob,
       ExecutePendingJob, PollSpawned, RejectionCheck, AwaitDone, JobReturns, JobThrows,
       RunTimer, PollEnds, PollSleeps, StdinCalled, WaitTimesOut, CallbackReturns,
       CallbackThrows
  <1>2. CASE UserCode
    BY <1>2 DEF UserCode, setTimeout, clearTimeout, EnqueueJob, RejectPromise,
       HandleRejection, SettleAwaited, setReadHandler, ReadStdin, set_onmessage
  <1>3. CASE World
    BY <1>3 DEF World, Tick, StdinSignals
  <1> QED
    BY <1>1, <1>2, <1>3 DEF Next, vars

\* No message is lost, repeated or reordered, and none waits behind an event that is
\* not set.
LEMMA MessageStep ==
    ASSUME TypeOK, MessagesKept, PostedFirst, [Next]_vars
    PROVE  MessagesKept' /\ PostedFirst' /\ handled' \in [Senders -> 0 .. MaxSent]
  <1> USE DEF MessagesKept, WakerMeansMessage, MessagesInOrder, PostedFirst
  <1>1. CASE UNCHANGED pipes
    BY <1>1 DEF pipes, TypeOK
  <1>2. CASE DaemonJob
    <2>1. \A s \in Senders : /\ queue'[s] = <<>> /\ ~waker'[s]
                             /\ sent'[s] = 0 /\ handled'[s] = 0
      BY <1>2 DEF DaemonJob
    <2>2. [k \in 1 .. 0 - 0 |-> 0 + k] = <<>>
      OBVIOUS
    <2>3. handled' \in [Senders -> 0 .. MaxSent]
      BY <1>2, LoopAssumption DEF DaemonJob
    <2> QED
      BY <2>1, <2>2, <2>3
  <1>3. CASE MessageCalled
    <2> DEFINE s == ports[Received]
               q == RemoveAt(queue[s], 1)
    <2>1. s \in Senders /\ waker[s]
      BY <1>3, ReceivedIsSignalled DEF MessageCalled
    <2>2. /\ queue' = [queue EXCEPT ![s] = q]
          /\ waker' = [waker EXCEPT ![s] = (q # <<>>)]
          /\ handled' = [handled EXCEPT ![s] = queue[s][1]]
          /\ sent' = sent
      BY <1>3 DEF MessageCalled, Taken, StaysSignalled
    <2> HIDE DEF s
    <2>3. handled[s] \in Nat /\ sent[s] \in Nat /\ handled[s] <= sent[s] /\ sent[s] <= MaxSent
      BY <2>1 DEF TypeOK
    <2>4. queue[s] = [k \in 1 .. sent[s] - handled[s] |-> handled[s] + k]
      BY <2>1
    <2>5. queue[s] # <<>>
      BY <2>1
    <2>6. handled[s] < sent[s]
      <3>1. CASE handled[s] = sent[s]
        <4>1. 1 .. sent[s] - handled[s] = {}
          BY <2>3, <3>1
        <4> QED
          BY <2>4, <2>5, <4>1
      <3> QED
        BY <2>3, <3>1
    <2>7. queue[s][1] = handled[s] + 1
      BY <2>3, <2>4, <2>6
    <2>8. q = [k \in 1 .. sent[s] - (handled[s] + 1) |-> (handled[s] + 1) + k]
      BY <2>3, <2>4, <2>6, TakenList
    <2> HIDE DEF q
    <2>9. handled' = [handled EXCEPT ![s] = handled[s] + 1]
      BY <2>2, <2>7
    <2>10. ASSUME NEW x \in Senders
           PROVE  /\ waker'[x] <=> queue'[x] # <<>>
                  /\ queue'[x] = [k \in 1 .. sent'[x] - handled'[x] |-> handled'[x] + k]
                  /\ handled'[x] <= sent'[x]
      <3>1. CASE x = s
        <4>1. queue'[x] = q /\ waker'[x] = (q # <<>>) /\ sent'[x] = sent[s]
          BY <2>1, <2>2, <3>1 DEF TypeOK
        <4>2. handled'[x] = handled[s] + 1
          BY <2>1, <2>9, <3>1 DEF TypeOK
        <4>3. handled[s] + 1 <= sent[s]
          BY <2>3, <2>6
        <4> QED
          BY <2>8, <4>1, <4>2, <4>3
      <3>2. CASE x # s
        <4>1. queue'[x] = queue[x] /\ waker'[x] = waker[x] /\ sent'[x] = sent[x]
          BY <2>2, <3>2 DEF TypeOK
        <4>2. handled'[x] = handled[x]
          BY <2>9, <3>2 DEF TypeOK
        <4> QED
          BY <4>1, <4>2
      <3> QED
        BY <3>1, <3>2
    <2>11. handled' \in [Senders -> 0 .. MaxSent]
      <3>1. handled[s] + 1 \in 0 .. MaxSent
        BY <2>3, <2>6, LoopAssumption
      <3> QED
        BY <2>9, <3>1 DEF TypeOK
    <2> QED
      BY <2>10, <2>11
  <1>4. ASSUME NEW s \in Senders, postMessage(s)
        PROVE  MessagesKept' /\ PostedFirst' /\ handled' \in [Senders -> 0 .. MaxSent]
    <2>1. /\ sent' = [sent EXCEPT ![s] = sent[s] + 1]
          /\ waker' = [waker EXCEPT ![s] = waker[s] \/ queue[s] = <<>>]
          /\ queue' = [queue EXCEPT ![s] = Append(queue[s], sent[s] + 1)]
          /\ handled' = handled
      BY <1>4 DEF postMessage, Signals, TypeOK
    <2>2. handled[s] \in Nat /\ sent[s] \in Nat /\ handled[s] <= sent[s]
      BY DEF TypeOK
    <2>3. queue[s] = [k \in 1 .. sent[s] - handled[s] |-> handled[s] + k]
      OBVIOUS
    <2>4. Append(queue[s], sent[s] + 1)
              = [k \in 1 .. (sent[s] + 1) - handled[s] |-> handled[s] + k]
      BY <2>2, <2>3, PostedList
    <2>5. Append(queue[s], sent[s] + 1) # <<>>
      <3>1. queue[s] \in Seq(Nat) /\ sent[s] + 1 \in Nat
        BY <2>2 DEF TypeOK
      <3> QED
        BY <3>1, AppendProperties
    <2>6. ASSUME NEW x \in Senders
          PROVE  /\ waker'[x] <=> queue'[x] # <<>>
                 /\ queue'[x] = [k \in 1 .. sent'[x] - handled'[x] |-> handled'[x] + k]
                 /\ handled'[x] <= sent'[x]
      <3>1. CASE x = s
        <4>1. /\ queue'[x] = Append(queue[s], sent[s] + 1)
              /\ waker'[x] = (waker[s] \/ queue[s] = <<>>)
              /\ sent'[x] = sent[s] + 1 /\ handled'[x] = handled[s]
          BY <2>1, <3>1 DEF TypeOK
        <4>2. waker[s] <=> queue[s] # <<>>
          OBVIOUS
        <4>3. waker'[x]
          BY <4>1, <4>2
        <4>4. handled'[x] <= sent'[x]
          BY <2>2, <4>1
        <4> QED
          BY <2>4, <2>5, <4>1, <4>3, <4>4
      <3>2. CASE x # s
        <4>1. /\ queue'[x] = queue[x] /\ waker'[x] = waker[x]
              /\ sent'[x] = sent[x] /\ handled'[x] = handled[x]
          BY <2>1, <3>2 DEF TypeOK
        <4> QED
          BY <4>1
      <3> QED
        BY <3>1, <3>2
    <2> QED
      BY <2>1, <2>6 DEF TypeOK
  <1> QED
    BY <1>1, <1>2, <1>3, <1>4, PipeStep

\* Who touches the timers, and who calls a timer's function.
LEMMA TimerListStep ==
    ASSUME [Next]_vars
    PROVE  \/ /\ UNCHANGED <<timers, next_timer>>
              /\ callee' = callee \/ callee'.kind # "timer"
           \/ DaemonJob
           \/ \E delay \in Delays, repeats \in BOOLEAN : setTimeout(delay, repeats)
           \/ \E k \in DOMAIN timers : clearTimeout(k)
           \/ RunTimer
           \/ Tick
  <1> USE DEF owned, pcVars
  <1>1. CASE HostStep
    <2> DEFINE Other == /\ UNCHANGED <<timers, next_timer>>
                        /\ callee' = callee \/ callee'.kind # "timer"
    <2> USE DEF Goto, Finish, Nobody, Call
    <2>1. EvalReturns \/ EvalThrows => Other
      BY DEF EvalReturns, EvalThrows
    <2>6. ASSUME Evaluate PROVE Other
      <3>1. callee'.kind = "eval"
        BY <2>6 DEF Evaluate, Begin
      <3> QED
        BY <2>6, <3>1 DEF Evaluate
    <2>2. PendingJob \/ PollSpawned \/ RejectionCheck => Other
      BY DEF PendingJob, ExecutePendingJob, PollSpawned, RejectionCheck
    <2>3. AwaitDone => Other
      BY DEF AwaitDone
    <2>4. JobReturns \/ JobThrows \/ PollEnds \/ PollSleeps \/ WaitTimesOut => Other
      BY DEF JobReturns, JobThrows, NextAfterJob, PollEnds, PollSleeps, WaitTimesOut
    <2>5. StdinCalled \/ MessageCalled \/ CallbackReturns \/ CallbackThrows => Other
      BY DEF StdinCalled, MessageCalled, CallbackReturns, CallbackThrows
    <2> QED
      BY <1>1, <2>1, <2>2, <2>3, <2>4, <2>5, <2>6 DEF HostStep
  <1>2. CASE UserCode
    BY <1>2 DEF UserCode, EnqueueJob, RejectPromise, HandleRejection, SettleAwaited,
       setReadHandler, ReadStdin, set_onmessage
  <1>3. CASE World
    BY <1>3 DEF World, StdinSignals, postMessage
  <1> QED
    BY <1>1, <1>2, <1>3 DEF Next, vars

\* Taking a timer off the list keeps the ids of the others, which are not its own.
LEMMA FreedTimer ==
    ASSUME TypeOK, TimerIds, NEW k \in DOMAIN timers
    PROVE  LET rest == RemoveAt(timers, k) IN
           /\ rest \in Seq(TimerType)
           /\ \A i, j \in DOMAIN rest : rest[i].id = rest[j].id => i = j
           /\ \A i \in DOMAIN rest : rest[i].id < next_timer /\ rest[i].id # timers[k].id
           /\ \A i \in DOMAIN rest : \E j \in DOMAIN timers : rest[i] = timers[j]
  <1> DEFINE rest == RemoveAt(timers, k)
             from(i) == IF i < k THEN i ELSE i + 1
  <1>1. timers \in Seq(TimerType)
    BY DEF TypeOK
  <1>2. rest \in Seq(TimerType)
    BY <1>1, RemoveAtFacts
  <1>3. /\ DOMAIN rest = 1 .. Len(timers) - 1
        /\ \A i \in DOMAIN rest :
              \E j \in DOMAIN timers \ {k} :
                 rest[i] = timers[j] /\ j = (IF i < k THEN i ELSE i + 1)
    BY <1>1, RemoveAtPlaces
  <1> HIDE DEF rest
  <1>4. \A i \in DOMAIN rest : from(i) \in DOMAIN timers \ {k} /\ rest[i] = timers[from(i)]
    BY <1>3
  <1>5. ASSUME NEW i \in DOMAIN rest, NEW j \in DOMAIN rest, rest[i].id = rest[j].id
        PROVE  i = j
    <2>1. from(i) = from(j)
      BY <1>4, <1>5 DEF TimerIds
    <2>2. i \in Nat /\ j \in Nat /\ k \in Nat
      BY <1>1, <1>3
    <2> QED
      BY <2>1, <2>2
  <1>6. ASSUME NEW i \in DOMAIN rest
        PROVE  rest[i].id < next_timer /\ rest[i].id # timers[k].id
    BY <1>4 DEF TimerIds
  <1> HIDE DEF from
  <1> QED
    BY <1>2, <1>4, <1>5, <1>6 DEF rest

\* The function of a one-shot timer runs once, and no id is ever used again.
LEMMA TimerStep ==
    ASSUME TypeOK, TimerIds, CalledTimerIsGone, [Next]_vars
    PROVE  /\ timers' \in Seq(TimerType) /\ next_timer' \in Nat \ {0}
           /\ TimerIds' /\ CalledTimerIsGone'
  <1> USE DEF TimerIds, CalledTimerIsGone
  <1>0. /\ timers \in Seq(TimerType) /\ DOMAIN timers = 1 .. Len(timers)
        /\ Len(timers) \in Nat /\ next_timer \in Nat \ {0} /\ callee.id \in Nat
        /\ \A i \in DOMAIN timers : timers[i] \in TimerType
    BY DEF TypeOK
  <1>1. CASE /\ UNCHANGED <<timers, next_timer>>
             /\ callee' = callee \/ callee'.kind # "timer"
    BY <1>0, <1>1
  <1>2. CASE DaemonJob
    <2>1. timers' = <<>> /\ next_timer' = 1 /\ callee'.kind = "eval"
      BY <1>2 DEF DaemonJob, Begin, Call
    <2> QED
      BY <2>1
  <1>3. ASSUME NEW delay \in Delays, NEW repeats \in BOOLEAN, setTimeout(delay, repeats)
        PROVE  /\ timers' \in Seq(TimerType) /\ next_timer' \in Nat \ {0}
               /\ TimerIds' /\ CalledTimerIsGone'
    <2> DEFINE t == [id |-> next_timer, left |-> delay, delay |-> delay,
                     repeats |-> repeats]
    <2>1. t \in TimerType
      BY <1>0, MaxDelayBounds DEF TimerType
    <2>2. /\ timers' = Append(timers, t) /\ next_timer' = next_timer + 1
          /\ callee' = callee
      BY <1>3 DEF setTimeout, pcVars
    <2>3. t.id = next_timer
      OBVIOUS
    <2> HIDE DEF t
    <2>4. /\ timers' \in Seq(TimerType) /\ DOMAIN timers' = 1 .. Len(timers) + 1
          /\ \A i \in DOMAIN timers' :
                timers'[i] = IF i = Len(timers) + 1 THEN t ELSE timers[i]
      BY <1>0, <2>1, <2>2, AppendFacts
    <2>5. \A i \in DOMAIN timers' :
             \/ i = Len(timers) + 1 /\ timers'[i].id = next_timer
             \/ i \in DOMAIN timers /\ timers'[i] = timers[i] /\ timers'[i].id < next_timer
      BY <1>0, <2>3, <2>4
    <2>6. TimerIds'
      <3>1. \A i \in DOMAIN timers' : timers'[i].id < next_timer'
        BY <1>0, <2>2, <2>5 DEF TimerType
      <3>2. ASSUME NEW i \in DOMAIN timers', NEW j \in DOMAIN timers',
                   timers'[i].id = timers'[j].id
            PROVE  i = j
        BY <1>0, <2>5, <3>2 DEF TimerType
      <3> QED
        BY <1>0, <2>2, <3>1, <3>2
    <2>7. CalledTimerIsGone'
      <3>1. ASSUME NEW i \in DOMAIN timers', callee.kind = "timer"
            PROVE  timers'[i].id # callee.id
        BY <1>0, <2>5, <3>1
      <3> QED
        BY <2>2, <3>1
    <2> QED
      BY <1>0, <2>2, <2>4, <2>6, <2>7
  <1>4. ASSUME NEW k \in DOMAIN timers, clearTimeout(k)
        PROVE  /\ timers' \in Seq(TimerType) /\ next_timer' \in Nat \ {0}
               /\ TimerIds' /\ CalledTimerIsGone'
    <2>1. timers' = RemoveAt(timers, k) /\ next_timer' = next_timer /\ callee' = callee
      BY <1>4 DEF clearTimeout, free_timer, pcVars
    <2> QED
      BY <1>0, <2>1, FreedTimer
  <1>5. CASE RunTimer
    <2> DEFINE k == Chosen
    <2>1. k \in DOMAIN timers
      BY <1>5, ChosenIsDue DEF RunTimer
    <2> HIDE DEF k
    <2>2. CASE timers[k].repeats
      <3>1. /\ timers' = [timers EXCEPT ![k].left = timers[k].delay]
            /\ callee'.kind = "timer" /\ callee'.id = 0 /\ next_timer' = next_timer
        BY <1>5, <2>2 DEF RunTimer, Call, k
      <3> DEFINE t == [timers[k] EXCEPT !.left = timers[k].delay]
      <3>2. t \in TimerType /\ t.id = timers[k].id
        BY <1>0, <2>1, MaxDelayBounds DEF TimerType
      <3>3. timers' = [timers EXCEPT ![k] = t]
        BY <3>1
      <3> HIDE DEF t
      <3>4. /\ timers' \in Seq(TimerType) /\ DOMAIN timers' = DOMAIN timers
            /\ \A i \in DOMAIN timers : timers'[i].id = timers[i].id
        BY <1>0, <2>1, <3>2, <3>3
      <3>5. \A i \in DOMAIN timers : timers[i].id # 0
        BY <1>0 DEF TimerType
      <3> QED
        BY <1>0, <3>1, <3>4, <3>5
    <2>3. CASE ~timers[k].repeats
      <3>1. /\ timers' = RemoveAt(timers, k) /\ next_timer' = next_timer
            /\ callee'.kind = "timer" /\ callee'.id = timers[k].id
        BY <1>5, <2>3 DEF RunTimer, Unlist, Call, k
      <3>2. timers[k].id < next_timer
        BY <2>1
      <3> QED
        BY <1>0, <2>1, <3>1, <3>2, FreedTimer
    <2> QED
      BY <2>2, <2>3
  <1>6. CASE Tick
    <2> DEFINE n(k) == IF timers[k].left = 0 THEN 0 ELSE timers[k].left - 1
               t(k) == [timers[k] EXCEPT !.left = n(k)]
    <2>1. timers' = [k \in DOMAIN timers |-> t(k)] /\ UNCHANGED <<next_timer, callee>>
      BY <1>6 DEF Tick, pcVars
    <2>2. ASSUME NEW k \in DOMAIN timers
          PROVE  t(k) \in TimerType /\ t(k).id = timers[k].id
      <3>1. n(k) \in 0 .. MaxDelay
        BY <1>0, MaxDelayBounds DEF TimerType
      <3> HIDE DEF n
      <3> QED
        BY <1>0, <3>1 DEF TimerType
    <2> HIDE DEF t
    <2>3. /\ timers' \in Seq(TimerType) /\ DOMAIN timers' = DOMAIN timers
          /\ \A i \in DOMAIN timers : timers'[i].id = timers[i].id
      BY <1>0, <2>1, <2>2
    <2> QED
      BY <1>0, <2>1, <2>3
  <1> QED
    BY <1>1, <1>2, <1>3, <1>4, <1>5, <1>6, TimerListStep

\* Control: what a step does to where the thread is, and to what it may leave undone.
LEMMA ControlStep ==
    ASSUME TypeOK, GoesOn, NothingForgotten, [Next]_vars
    PROVE  GoesOn' /\ NothingForgotten'
  <1> USE DEF GoesOn, NothingForgotten, LoopPollsIdle, EndsWithNothingLeft
  <1>1. CASE Evaluate \/ DaemonJob
    BY <1>1 DEF Evaluate, DaemonJob, Begin
  <1>2. CASE EvalReturns \/ EvalThrows
    BY <1>2 DEF EvalReturns, EvalThrows, Goto, Finish, host, owned
  <1>3. CASE UserCode
    <2>1. UNCHANGED <<host, pcVars>> /\ step = "call"
      BY <1>3 DEF UserCode, InCode, setTimeout, clearTimeout, EnqueueJob, RejectPromise,
         HandleRejection, SettleAwaited, setReadHandler, ReadStdin, set_onmessage
    <2> QED
      BY <2>1 DEF host, pcVars
  <1>4. CASE PendingJob
    BY <1>4 DEF PendingJob, ExecutePendingJob, host
  <1>5. CASE PollSpawned
    <2>1. GoesOn'
      BY <1>5 DEF PollSpawned, host
    <2>2. CASE run_std_loop
      BY <1>5, <2>1, <2>2 DEF PollSpawned, Goto
    <2>3. CASE ~run_std_loop
      <3>1. step' = "idle"
        BY <1>5, <2>3 DEF PollSpawned, Finish, Over
      <3> QED
        BY <2>1, <3>1
    <2> QED
      BY <2>2, <2>3
  <1>6. CASE RejectionCheck
    <2>1. jobs = 0
      BY <1>6 DEF RejectionCheck, JobPending, TypeOK
    <2> QED
      BY <1>6, <2>1 DEF RejectionCheck, Goto, host, owned
  <1>7. CASE AwaitDone
    <2>1. UNCHANGED <<host, owned>> /\ step' # "poll" /\ step' # "asleep"
      BY <1>7 DEF AwaitDone, Goto, Finish, Over
    <2>2. step' = "ended" => ~ok'
      BY <1>7 DEF AwaitDone, Goto, Finish, Over
    <2> QED
      BY <2>1, <2>2 DEF host
  <1>8. CASE JobReturns \/ JobThrows
    BY <1>8 DEF JobReturns, JobThrows, NextAfterJob, Goto, Finish, Over, host, owned
  <1>9. CASE RunTimer
    BY <1>9 DEF RunTimer, host
  <1>10. CASE PollEnds
    <2>1. timers = <<>> /\ handlers = {} /\ ports = <<>>
      BY <1>10 DEF PollEnds, NoMoreEvents
    <2>2. CASE driver = "loop"
      <3>1. jobs = 0 /\ rejected = {}
        BY <1>10, <2>2 DEF PollEnds
      <3>2. UNCHANGED <<host, owned>> /\ step' \in {"ended", "idle"}
        BY <1>10, <2>2 DEF PollEnds, Finish, Over
      <3> QED
        BY <2>1, <3>1, <3>2 DEF host, owned
    <2>3. CASE driver # "loop"
      BY <1>10, <2>3 DEF PollEnds, Goto, host
    <2> QED
      BY <2>2, <2>3
  <1>11. CASE PollSleeps \/ WaitTimesOut
    BY <1>11 DEF PollSleeps, WaitTimesOut, Goto, host, owned
  <1>12. CASE StdinCalled \/ MessageCalled
    BY <1>12 DEF StdinCalled, MessageCalled, host
  <1>13. CASE CallbackReturns \/ CallbackThrows
    BY <1>13 DEF CallbackReturns, CallbackThrows, Goto, Finish, host
  <1>14. CASE Tick
    <2>1. timers # <<>>
      BY <1>14 DEF Tick, TypeOK
    <2> QED
      BY <1>14, <2>1 DEF Tick, host, pcVars
  <1>15. CASE StdinSignals \/ \E s \in Senders : postMessage(s)
    BY <1>15 DEF StdinSignals, postMessage, host, pcVars, owned
  <1>16. CASE UNCHANGED vars
    BY <1>16 DEF vars, host, pcVars, owned
  <1> QED
    BY <1>1, <1>2, <1>3, <1>4, <1>5, <1>6, <1>7, <1>8, <1>9, <1>10, <1>11, <1>12,
       <1>13, <1>14, <1>15, <1>16 DEF Next, HostStep, World

\* The types of the rest: the host, where the thread is, what it owns, the pipes.
LEMMA TypeStep ==
    ASSUME TypeOK, [Next]_vars
    PROVE  /\ mode' \in Modes /\ run_std_loop' \in BOOLEAN /\ evals' \in 0 .. MaxEvals
           /\ driver' \in Drivers /\ step' \in Steps /\ ok' \in BOOLEAN
           /\ callee' \in [kind : Callees, id : Nat]
           /\ ops' \in 0 .. MaxOps /\ jobs' \in Nat
           /\ rejected' \subseteq {"awaited", "other"}
           /\ awaited' \in {"none", "pending", "fulfilled", "rejected"}
           /\ handlers' \subseteq Fds /\ stdin' \in BOOLEAN /\ ports' \in Seq(Senders)
           /\ queue' \in [Senders -> Seq(Nat)] /\ waker' \in [Senders -> BOOLEAN]
           /\ sent' \in [Senders -> 0 .. MaxSent]
  <1>1. mode' \in Modes /\ run_std_loop' \in BOOLEAN /\ evals' \in 0 .. MaxEvals
    <2>1. CASE UNCHANGED host
      BY <2>1 DEF host, TypeOK
    <2>2. CASE Evaluate \/ DaemonJob
      <3>1. mode' = mode /\ evals' = evals + 1
        BY <2>2 DEF Evaluate, DaemonJob, Begin
      <3>3. run_std_loop' \in BOOLEAN
        <4>1. CASE DaemonJob
          BY <4>1 DEF DaemonJob, TypeOK
        <4>2. CASE Evaluate /\ mode # "repl"
          BY <4>2 DEF Evaluate
        <4>3. CASE Evaluate /\ mode = "repl"
          BY <4>3 DEF Evaluate
        <4> QED
          BY <2>2, <4>1, <4>2, <4>3
      <3>2. evals < MaxEvals
        <4>1. evals < MaxEvals \/ evals < 1
          BY <2>2 DEF Evaluate, DaemonJob
        <4>2. evals \in 0 .. MaxEvals /\ MaxEvals \in Nat \ {0}
          BY LoopAssumption DEF TypeOK
        <4> QED
          BY <4>1, <4>2
      <3> QED
        BY <3>1, <3>2, <3>3, LoopAssumption DEF TypeOK
    <2>3. UNCHANGED host \/ Evaluate \/ DaemonJob
      <3>1. CASE HostStep
        BY <3>1 DEF HostStep, EvalReturns, EvalThrows, PendingJob, ExecutePendingJob,
           PollSpawned, RejectionCheck, AwaitDone, JobReturns, JobThrows, RunTimer,
           PollEnds, PollSleeps, StdinCalled, MessageCalled, WaitTimesOut,
           CallbackReturns, CallbackThrows
      <3>2. CASE UserCode
        BY <3>2 DEF UserCode, setTimeout, clearTimeout, EnqueueJob, RejectPromise,
           HandleRejection, SettleAwaited, setReadHandler, ReadStdin, set_onmessage
      <3>3. CASE World
        BY <3>3 DEF World, Tick, StdinSignals, postMessage
      <3> QED
        BY <3>1, <3>2, <3>3 DEF Next, vars
    <2> QED
      BY <2>1, <2>2, <2>3
  <1>2. /\ driver' \in Drivers /\ step' \in Steps /\ ok' \in BOOLEAN
        /\ callee' \in [kind : Callees, id : Nat]
    <2> DEFINE CalleeType == [kind : Callees, id : Nat]
               Typed == /\ driver' \in Drivers /\ step' \in Steps /\ ok' \in BOOLEAN
                        /\ callee' \in CalleeType
    <2> SUFFICES Typed
      OBVIOUS
    <2>01. driver \in Drivers /\ step \in Steps /\ ok \in BOOLEAN /\ callee \in CalleeType
      BY DEF TypeOK
    <2>02. /\ "none" \in Drivers /\ "await" \in Drivers /\ "drain" \in Drivers
           /\ "loop" \in Drivers
      BY DEF Drivers
    <2>03. /\ "idle" \in Steps /\ "top" \in Steps /\ "poll" \in Steps /\ "asleep" \in Steps
           /\ "call" \in Steps /\ "exited" \in Steps /\ Over \in Steps
      BY DEF Steps, Over
    <2>04. /\ Nobody \in CalleeType
           /\ \A kind \in Callees, id \in Nat : Call(kind, id) \in CalleeType
      BY DEF Nobody, Call, Callees
    <2>05. /\ "eval" \in Callees /\ "job" \in Callees /\ "timer" \in Callees
           /\ "stdin" \in Callees /\ "message" \in Callees
      BY DEF Callees
    <2> HIDE DEF CalleeType
    <2> USE <2>01, <2>02, <2>03, <2>04, <2>05 DEF Goto, Finish
    <2>1. CASE Evaluate \/ DaemonJob
      <3>1. driver' = "none" /\ step' = "call" /\ ok' = TRUE /\ callee' = Call("eval", 0)
        BY <2>1 DEF Evaluate, DaemonJob, Begin
      <3> QED
        BY <3>1
    <2>2. CASE EvalReturns \/ EvalThrows
      BY <2>2 DEF EvalReturns, EvalThrows
    <2>3. CASE PendingJob
      BY <2>3 DEF PendingJob, ExecutePendingJob
    <2>13. CASE PollSpawned
      BY <2>13 DEF PollSpawned
    <2>12. CASE RejectionCheck
      BY <2>12 DEF RejectionCheck
    <2>4. CASE AwaitDone
      <3>1. CASE mode = "worker"
        BY <2>4, <3>1 DEF AwaitDone
      <3>2. CASE mode # "worker" /\ awaited = "fulfilled"
        BY <2>4, <3>2 DEF AwaitDone
      <3>3. CASE mode # "worker" /\ awaited # "fulfilled"
        BY <2>4, <3>3 DEF AwaitDone
      <3> QED
        BY <3>1, <3>2, <3>3
    <2>5. CASE JobReturns \/ JobThrows
      BY <2>5 DEF JobReturns, JobThrows, NextAfterJob
    <2>14. CASE PollEnds \/ PollSleeps \/ WaitTimesOut
      BY <2>14 DEF PollEnds, PollSleeps, WaitTimesOut
    <2>6. CASE RunTimer
      <3>1. timers[Chosen].id \in Nat
        <4>1. Chosen \in DOMAIN timers
          BY <2>6, ChosenIsDue DEF RunTimer
        <4>2. timers[Chosen] \in TimerType
          BY <4>1 DEF TypeOK
        <4> QED
          BY <4>2 DEF TimerType
      <3>2. \E id \in Nat : callee' = Call("timer", id)
        BY <2>6, <3>1 DEF RunTimer
      <3>3. step' = "call" /\ UNCHANGED <<driver, ok>>
        BY <2>6 DEF RunTimer
      <3> QED
        BY <3>2, <3>3
    <2>7. CASE StdinCalled \/ MessageCalled
      BY <2>7 DEF StdinCalled, MessageCalled
    <2>8. CASE CallbackReturns \/ CallbackThrows
      BY <2>8 DEF CallbackReturns, CallbackThrows
    <2>9. CASE UserCode \/ World
      <3>1. UNCHANGED pcVars
        BY <2>9 DEF UserCode, setTimeout, clearTimeout, EnqueueJob, RejectPromise,
           HandleRejection, SettleAwaited, setReadHandler, ReadStdin, set_onmessage,
           World, Tick, StdinSignals, postMessage
      <3> QED
        BY <3>1 DEF pcVars
    <2>10. CASE UNCHANGED vars
      BY <2>10 DEF vars, pcVars
    <2>11. \/ Evaluate \/ DaemonJob \/ EvalReturns \/ EvalThrows
           \/ PendingJob \/ PollSpawned \/ RejectionCheck \/ AwaitDone \/ JobReturns
           \/ JobThrows \/ RunTimer \/ PollEnds \/ PollSleeps \/ StdinCalled
           \/ MessageCalled \/ WaitTimesOut \/ CallbackReturns \/ CallbackThrows
           \/ UserCode \/ World \/ UNCHANGED vars
      BY DEF Next, HostStep
    <2> QED
      BY <2>1, <2>2, <2>3, <2>4, <2>5, <2>6, <2>7, <2>8, <2>9, <2>10, <2>11, <2>12,
         <2>13, <2>14
  <1>3. /\ ops' \in 0 .. MaxOps /\ jobs' \in Nat
        /\ rejected' \subseteq {"awaited", "other"}
        /\ awaited' \in {"none", "pending", "fulfilled", "rejected"}
        /\ handlers' \subseteq Fds /\ stdin' \in BOOLEAN /\ ports' \in Seq(Senders)
    <2> DEFINE Typed == /\ ops' \in 0 .. MaxOps /\ jobs' \in Nat
                        /\ rejected' \subseteq {"awaited", "other"}
                        /\ awaited' \in {"none", "pending", "fulfilled", "rejected"}
                        /\ handlers' \subseteq Fds /\ stdin' \in BOOLEAN
                        /\ ports' \in Seq(Senders)
    <2>0. /\ ops \in 0 .. MaxOps /\ jobs \in Nat
          /\ rejected \subseteq {"awaited", "other"}
          /\ awaited \in {"none", "pending", "fulfilled", "rejected"}
          /\ handlers \subseteq Fds /\ stdin \in BOOLEAN /\ ports \in Seq(Senders)
      BY DEF TypeOK
    <2> USE <2>0
    <2>1. CASE Evaluate
      <3>1. awaited' \in {"none", "pending"}
        <4>1. CASE mode = "repl"
          BY <2>1, <4>1 DEF Evaluate
        <4>2. CASE mode = "worker"
          BY <2>1, <4>2 DEF Evaluate
        <4>3. CASE mode # "repl" /\ mode # "worker"
          BY <2>1, <4>3 DEF Evaluate
        <4> QED
          BY <4>1, <4>2, <4>3
      <3> QED
        BY <2>1, <3>1 DEF Evaluate
    <2>2. CASE DaemonJob
      BY <2>2 DEF DaemonJob
    <2>3. CASE PendingJob \/ PollSpawned
      <3>1. jobs' \in Nat
        <4>1. CASE PendingJob
          <5>1. jobs > 0 /\ jobs' = jobs - 1
            BY <4>1 DEF PendingJob, ExecutePendingJob, JobPending
          <5> QED
            BY <5>1
        <4>2. CASE PollSpawned
          <5>1. jobs' \in 0 .. 1
            BY <4>2 DEF PollSpawned
          <5> QED
            BY <5>1
        <4> QED
          BY <2>3, <4>1, <4>2
      <3>2. UNCHANGED <<ops, rejected, awaited, handlers, stdin, ports>>
        BY <2>3 DEF PendingJob, ExecutePendingJob, PollSpawned
      <3> QED
        BY <3>1, <3>2
    <2>4. CASE RunTimer
      BY <2>4 DEF RunTimer
    <2>5. CASE \/ EvalReturns \/ EvalThrows \/ RejectionCheck \/ AwaitDone
               \/ JobReturns \/ JobThrows \/ PollEnds \/ PollSleeps
               \/ StdinCalled \/ MessageCalled \/ WaitTimesOut
               \/ CallbackReturns \/ CallbackThrows
      <3>1. UNCHANGED <<owned, stdin>>
        BY <2>5 DEF EvalReturns, EvalThrows, RejectionCheck, AwaitDone, JobReturns,
           JobThrows, PollEnds, PollSleeps, StdinCalled, MessageCalled, WaitTimesOut,
           CallbackReturns, CallbackThrows
      <3> QED
        BY <3>1 DEF owned
    <2>6. CASE UserCode
      <3>1. ops' \in 0 .. MaxOps
        <4>1. ops > 0 /\ ops' = ops - 1
          BY <2>6 DEF UserCode, InCode, setTimeout, clearTimeout, EnqueueJob,
             RejectPromise, HandleRejection, SettleAwaited, setReadHandler, ReadStdin,
             set_onmessage
        <4> QED
          BY <4>1, LoopAssumption
      <3>2. CASE \/ \E delay \in Delays, repeats \in BOOLEAN : setTimeout(delay, repeats)
                 \/ \E k \in DOMAIN timers : clearTimeout(k)
        BY <3>1, <3>2 DEF setTimeout, clearTimeout
      <3>9. CASE EnqueueJob
        BY <3>1, <3>9 DEF EnqueueJob
      <3>3. CASE RejectPromise \/ HandleRejection
        BY <3>1, <3>3 DEF RejectPromise, HandleRejection, Track
      <3>4. ASSUME NEW result \in {"fulfilled", "rejected"}, SettleAwaited(result)
            PROVE  rejected' \subseteq {"awaited", "other"} /\ awaited' = result
        BY <3>4 DEF SettleAwaited, Track
      <3>5. CASE \E result \in {"fulfilled", "rejected"} : SettleAwaited(result)
        BY <3>1, <3>4, <3>5 DEF SettleAwaited
      <3>6. CASE \/ \E fd \in Fds, on \in BOOLEAN : setReadHandler(fd, on)
                 \/ ReadStdin
        BY <3>1, <3>6 DEF setReadHandler, ReadStdin
      <3>7. ASSUME NEW s \in Senders, NEW on \in BOOLEAN, set_onmessage(s, on)
            PROVE  ports' \in Seq(Senders)
        <4>1. CASE on
          BY <3>7, <4>1 DEF set_onmessage
        <4>2. CASE ~on
          <5>1. PICK k \in DOMAIN ports : ports' = RemoveAt(ports, k)
            BY <3>7, <4>2 DEF set_onmessage
          <5> QED
            BY <5>1, RemoveAtFacts
        <4> QED
          BY <4>1, <4>2
      <3>8. CASE \E s \in Senders, on \in BOOLEAN : set_onmessage(s, on)
        BY <3>1, <3>7, <3>8 DEF set_onmessage
      <3> QED
        BY <2>6, <3>2, <3>3, <3>5, <3>6, <3>8, <3>9 DEF UserCode
    <2>7. CASE World
      BY <2>7 DEF World, Tick, StdinSignals, postMessage, owned
    <2>8. CASE UNCHANGED vars
      BY <2>8 DEF vars, owned
    <2> QED
      BY <2>1, <2>2, <2>3, <2>4, <2>5, <2>6, <2>7, <2>8 DEF Next, HostStep
  <1>4. /\ queue' \in [Senders -> Seq(Nat)] /\ waker' \in [Senders -> BOOLEAN]
        /\ sent' \in [Senders -> 0 .. MaxSent]
    <2> USE DEF TypeOK
    <2>1. CASE UNCHANGED pipes
      BY <2>1 DEF pipes
    <2>2. CASE DaemonJob
      BY <2>2, LoopAssumption DEF DaemonJob
    <2>3. CASE MessageCalled
      <3> DEFINE s == ports[Received]
                 q == RemoveAt(queue[s], 1)
      <3>1. s \in Senders /\ queue[s] \in Seq(Nat)
        BY <2>3, ReceivedIsSignalled DEF MessageCalled
      <3>2. /\ queue' = [queue EXCEPT ![s] = q]
            /\ waker' = [waker EXCEPT ![s] = (q # <<>>)]
            /\ sent' = sent
        BY <2>3 DEF MessageCalled, Taken, StaysSignalled
      <3> HIDE DEF s
      <3>3. q \in Seq(Nat)
        <4> DEFINE l == queue[s]
        <4>1. l \in Seq(Nat)
          BY <3>1
        <4> HIDE DEF l
        <4>2. CASE 1 \in DOMAIN l
          BY <4>1, <4>2, RemoveAtFacts DEF l
        <4>3. CASE 1 \notin DOMAIN l
          <5>1. l = <<>>
            BY <4>1, <4>3
          <5>2. RemoveAt(l, 1) = <<>>
            <6>1. SubSeq(<<>>, 1, 1 - 1) = <<>> /\ SubSeq(<<>>, 1 + 1, Len(<<>>)) = <<>>
              BY SubSeqEmpty
            <6> QED
              BY <5>1, <6>1 DEF RemoveAt
          <5> QED
            BY <5>2, EmptySeq DEF l
        <4> QED
          BY <4>2, <4>3
      <3> QED
        BY <3>1, <3>2, <3>3
    <2>4. ASSUME NEW s \in Senders, postMessage(s)
          PROVE  /\ queue' \in [Senders -> Seq(Nat)] /\ waker' \in [Senders -> BOOLEAN]
                 /\ sent' \in [Senders -> 0 .. MaxSent]
      <3>1. sent[s] + 1 \in 0 .. MaxSent /\ Append(queue[s], sent[s] + 1) \in Seq(Nat)
        BY <2>4, LoopAssumption DEF postMessage
      <3>2. (waker[s] \/ Signals(s)) \in BOOLEAN
        BY DEF Signals
      <3> QED
        BY <2>4, <3>1, <3>2 DEF postMessage
    <2> QED
      BY <2>1, <2>2, <2>3, <2>4, PipeStep
  <1> QED
    BY <1>1, <1>2, <1>3, <1>4

LEMMA InitIInv == Init => IInv
  <1> SUFFICES ASSUME Init PROVE IInv
    OBVIOUS
  <1>1. TypeOK
    <2>1. /\ mode \in Modes /\ run_std_loop \in BOOLEAN /\ evals \in 0 .. MaxEvals
          /\ driver \in Drivers /\ step \in Steps /\ ok \in BOOLEAN
          /\ callee \in [kind : Callees, id : Nat]
      BY LoopAssumption DEF Init, Drivers, Steps, Callees, Nobody
    <2>2. /\ ops \in 0 .. MaxOps /\ jobs \in Nat /\ next_timer \in Nat \ {0}
      BY LoopAssumption DEF Init
    <2>5. /\ rejected \subseteq {"awaited", "other"}
          /\ awaited \in {"none", "pending", "fulfilled", "rejected"}
          /\ handlers \subseteq Fds /\ stdin \in BOOLEAN
      BY DEF Init
    <2>3. timers \in Seq(TimerType) /\ ports \in Seq(Senders)
      BY EmptySeq DEF Init
    <2>4. /\ queue \in [Senders -> Seq(Nat)] /\ waker \in [Senders -> BOOLEAN]
          /\ sent \in [Senders -> 0 .. MaxSent] /\ handled \in [Senders -> 0 .. MaxSent]
      BY LoopAssumption DEF Init
    <2> QED
      BY <2>1, <2>2, <2>3, <2>4, <2>5 DEF TypeOK
  <1>2. CalledTimerIsGone /\ TimerIds
    BY DEF Init, CalledTimerIsGone, TimerIds, Nobody
  <1>3. MessagesKept /\ PostedFirst
    <2>1. [k \in 1 .. 0 - 0 |-> 0 + k] = <<>>
      OBVIOUS
    <2> QED
      BY <2>1 DEF Init, MessagesKept, WakerMeansMessage, MessagesInOrder, PostedFirst
  <1>4. GoesOn /\ NothingForgotten
    BY DEF Init, GoesOn, NothingForgotten, LoopPollsIdle, EndsWithNothingLeft
  <1> QED
    BY <1>1, <1>2, <1>3, <1>4 DEF IInv, WellFormed

\* The invariant of the thread: its timers, its pipes and where it is fit together in
\* every reachable state (js_std_loop, js_std_await, js_os_poll).
THEOREM Invariant == Spec => []IInv
  <1>1. ASSUME IInv, [Next]_vars PROVE IInv'
    <2>1. /\ TypeOK /\ CalledTimerIsGone /\ TimerIds /\ MessagesKept /\ PostedFirst
          /\ GoesOn /\ NothingForgotten
      BY <1>1 DEF IInv, WellFormed
    <2>2. /\ timers' \in Seq(TimerType) /\ next_timer' \in Nat \ {0}
          /\ TimerIds' /\ CalledTimerIsGone'
      BY <1>1, <2>1, TimerStep
    <2>3. MessagesKept' /\ PostedFirst' /\ handled' \in [Senders -> 0 .. MaxSent]
      BY <1>1, <2>1, MessageStep
    <2>4. GoesOn' /\ NothingForgotten'
      BY <1>1, <2>1, ControlStep
    <2>5. TypeOK'
      BY <1>1, <2>1, <2>2, <2>3, TypeStep DEF TypeOK
    <2> QED
      BY <2>2, <2>3, <2>4, <2>5 DEF IInv, WellFormed
  <1> QED
    BY InitIInv, <1>1, PTL DEF Spec

\* The types, and that the list of timers no longer has the one-shot timer whose
\* function runs: clearTimeout in it frees nothing twice (js_os_run_timers).
THEOREM TimersWellFormed == Spec => []WellFormed
  <1>1. IInv => WellFormed
    BY DEF IInv
  <1> QED
    BY <1>1, Invariant, PTL

\* Between threads no message is lost, repeated or reordered, and the event of a pipe
\* is set exactly while it has a message (js_worker_postMessage, handle_posted_message).
THEOREM MessagesAreKept == Spec => []MessagesKept
  <1>1. IInv => MessagesKept
    BY DEF IInv
  <1> QED
    BY <1>1, Invariant, PTL

\* The loop blocks only when every job has run and no rejection is unhandled, and a
\* script or worker that ended without error has nothing left to do (js_std_loop).
THEOREM NothingIsForgotten == Spec => []NothingForgotten
  <1>1. IInv => NothingForgotten
    BY DEF IInv
  <1> QED
    BY <1>1, Invariant, PTL
=============================================================================
