------------------------- MODULE SpawnRecordProofs -------------------------
(***************************************************************************)
(* More proofs about SpawnShim: what a process record goes through from    *)
(* js_spawn to RemoveProcById, the reports and promises made of it, the    *)
(* process table that all this implements, and its output between the      *)
(* pipes and the console.                                                  *)
(***************************************************************************)
EXTENDS SpawnShimProofs

\* The process a native call works on is listed until it is removed.
Current ==
    main.pc \in {"assign", "drain", "exitq", "joinOut", "joinErr"} => main.cur \in Listed

\* The output charged to the limit stays within it, and none is charged before a start.
Charged ==
    \A id \in Ids, k \in Kinds :
        /\ opts[id].limit > 0 => total[id][k] <= opts[id].limit
        /\ child[id] = "none" => taken[id][k] = 0 /\ total[id][k] = 0 /\ ~truncated[id][k]

\* A child's child is in a job only while there is one; a new process has none yet and
\* cannot have timed out, since only polls look at the deadlines.
Jobs ==
    /\ \A id \in Ids : kid[id] = "inJob" => job[id]
    /\ main.pc = "assign" => ~job[main.cur] /\ ~timedOut[main.cur]

\* The first reader has been joined when the second one is.
OutJoined == main.pc = "joinErr" => ~Live(main.cur, "out")

\* A listed process was reported only if the poll that did so is removing it; the promise
\* of the context that waits is pending until the report.
Reports ==
    \A id \in Ids :
        /\ id \in Listed => report[id].made = 0 \/ (Removing(id) /\ main.idx > 0)
        /\ \A c \in Contexts : waiter[id] = c =>
              promise[id][c] = IF report[id].made = 0 THEN "pending" ELSE "settled"

\* The inductive invariant, next to that of the list.
RInv ==
    /\ Current /\ Charged /\ Jobs /\ OutJoined /\ Reports
    /\ DropIsMarked /\ TimeoutKills /\ UnlistedIsGone /\ EndedOnce

(***************************************************************************)
(* Which steps touch what.                                                 *)
(***************************************************************************)
\* The steps of the JS thread that change nothing but its place in native calls.
MoveOnly ==
    \/ PollDrained \/ PollNext \/ PollReturn \/ WaitPoll \/ WaitStale
    \/ SpawnCheck \/ SpawnRefused
    \/ \E c \in Contexts : SpawnPoll(c)
    \/ \E c \in Contexts, id \in Ids : js_wait(c, id)

ReaderStep == \E id \in Ids, k \in Kinds : Reader(id, k)

recordVars == <<g_procs, g_next_id, opts, job, timedOut, total, truncated, chunks,
                waiter, reader, child, deadline, taken, kid, promise, report, audited>>

LEMMA MoveOnlyFrame ==
    ASSUME IInv, Current, MoveOnly
    PROVE  /\ UNCHANGED recordVars
           /\ main'.pc \notin {"assign", "joinOut", "joinErr"}
           /\ main.pc \notin {"assign", "joinOut", "joinErr"}
           /\ Current'
  <1>1. main \in MainType
    BY DEF IInv, TypeOK
  <1>2. UNCHANGED recordVars
    BY DEF MoveOnly, PollDrained, PollNext, PollReturn, WaitPoll, WaitStale, SpawnPoll, js_wait,
           SpawnCheck, SpawnRefused, recordVars, hostVars, flagVars, outputVars, threadVars, pipeVars, osVars, jsVars
  <1>3. /\ main'.pc \in {"exitq", "poll", "js", "waiting", "crashed"}
        /\ main.pc \in {"drain", "exitq", "poll", "waiting", "js"}
        /\ main'.pc = "exitq" => main.pc = "drain" /\ main'.cur = main.cur
    <2>1. CASE PollDrained
      BY <1>1, <2>1 DEF PollDrained, MainType
    <2>2. CASE PollNext
      BY <1>1, <2>2 DEF PollNext, MainType
    <2>3. CASE PollReturn
      BY <1>1, <2>3 DEF PollReturn, MainType, InJs
    <2>4. CASE WaitPoll
      BY <1>1, <2>4 DEF WaitPoll, MainType
    <2>5. CASE WaitStale
      BY <1>1, <2>5 DEF WaitStale, MainType
    <2>6. CASE \E c \in Contexts : SpawnPoll(c)
      BY <1>1, <2>6 DEF SpawnPoll, MainType
    <2>7. CASE \E c \in Contexts, id \in Ids : js_wait(c, id)
      BY <1>1, <2>7 DEF js_wait, MainType
    <2>8. CASE SpawnCheck \/ SpawnRefused
      BY <1>1, <2>8 DEF SpawnCheck, SpawnRefused
    <2> QED
      BY <2>1, <2>2, <2>3, <2>4, <2>5, <2>6, <2>7, <2>8 DEF MoveOnly
  <1>4. Listed' = Listed
    BY <1>2 DEF recordVars, Listed
  <1> QED
    BY <1>2, <1>3, <1>4 DEF Current

LEMMA ReaderFrame ==
    ASSUME ReaderStep
    PROVE  UNCHANGED <<main, g_procs, g_next_id, opts, job, timedOut, waiter, child, deadline,
                       kid, promise, report, audited>>
  BY DEF ReaderStep, Reader, ReaderProbe, ReaderIdle, ReaderRead, ReaderPush,
         hostVars, flagVars, outputVars, pipeVars, osVars, jsVars

\* A listed process has been started.
LEMMA ListedFacts ==
    ASSUME IInv
    PROVE  /\ Listed \subseteq Ids
           /\ \A id \in Listed : child[id] # "none"
           /\ \A id \in Listed : id < g_next_id
           /\ main \in MainType
  <1>1. g_procs \in Seq(Ids) /\ main \in MainType
    BY DEF IInv, TypeOK
  <1>2. Listed \subseteq Ids
    BY <1>1 DEF Listed, Range
  <1>3. \A id \in Listed : id < g_next_id
    BY DEF IInv, ListKeepsAlive, Listed, Range
  <1>4. g_next_id \in Nat /\ \A id \in Ids : id \in Nat
    BY SpawnAssumption DEF IInv, TypeOK, Ids
  <1>5. \A id \in Listed : child[id] # "none"
    BY <1>2, <1>3, <1>4 DEF IInv, ListKeepsAlive
  <1> QED
    BY <1>1, <1>2, <1>3, <1>5

LEMMA StartFrame ==
    ASSUME IInv, js_spawn
    PROVE  /\ g_next_id \in Ids /\ child[g_next_id] = "none" /\ g_next_id \notin Listed
           /\ Listed' = Listed \union {g_next_id}
           /\ child' = [child EXCEPT ![g_next_id] = "running"]
           /\ main.pc = "js" /\ main'.pc = "assign" /\ main'.cur = g_next_id /\ main'.idx = 0
           /\ UNCHANGED <<job, timedOut, total, truncated, chunks, waiter, taken, kid, promise,
                          report, audited>>
  <1>1. /\ g_next_id \in Ids /\ main.pc = "js" /\ g_procs' = Append(g_procs, g_next_id)
        /\ child' = [child EXCEPT ![g_next_id] = "running"]
        /\ main' = [main EXCEPT !.pc = "assign", !.cur = g_next_id]
    BY DEF js_spawn
  <1>2. UNCHANGED <<job, timedOut, total, truncated, chunks, waiter, taken, kid, promise,
                    report, audited>>
    BY DEF js_spawn, flagVars, outputVars, pipeVars, jsVars
  <1>3. g_procs \in Seq(Ids) /\ main \in MainType
    BY DEF IInv, TypeOK
  <1>4. main'.pc = "assign" /\ main'.cur = g_next_id /\ main'.idx = main.idx
    BY <1>1, <1>3 DEF MainType
  <1>5. main.idx = 0
    BY <1>1 DEF IInv, Locals
  <1>6. g_next_id \in Nat
    BY <1>1 DEF Ids
  <1>7. child[g_next_id] = "none" /\ g_next_id \notin Listed
    BY <1>1, <1>6, ListedFacts DEF IInv, ListKeepsAlive
  <1>8. Listed' = Listed \union {g_next_id}
    <2>1. /\ DOMAIN g_procs = 1 .. Len(g_procs) /\ DOMAIN g_procs' = 1 .. Len(g_procs) + 1
          /\ Len(g_procs) \in Nat
          /\ \A i \in DOMAIN g_procs' :
                g_procs'[i] = IF i = Len(g_procs) + 1 THEN g_next_id ELSE g_procs[i]
      BY <1>1, <1>3, AppendFacts
    <2> QED
      BY <2>1 DEF Listed, Range
  <1> QED
    BY <1>1, <1>2, <1>4, <1>5, <1>7, <1>8

LEMMA RemoveFrame ==
    ASSUME IInv, Current, JoinErr
    PROVE  /\ main.cur \in Listed /\ main.cur \in Ids
           /\ Listed' = Listed \ {main.cur}
           /\ main.pc = "joinErr" /\ main'.pc \in {"js", "poll"}
           /\ job' = [job EXCEPT ![main.cur] = FALSE]
           /\ kid' = [kid EXCEPT ![main.cur] = IF job[main.cur] /\ kid[main.cur] = "inJob"
                                               THEN "gone" ELSE kid[main.cur]]
           /\ chunks' = [chunks EXCEPT ![main.cur] = <<>>]
           /\ waiter' = [waiter EXCEPT ![main.cur] = NoContext]
           /\ UNCHANGED <<g_next_id, opts, timedOut, total, truncated, reader, taken, child,
                          deadline, audited>>
  <1>1. main.pc = "joinErr" /\ main.cur \in Listed /\ main.cur \in Ids
    BY ListedFacts DEF JoinErr, Current
  <1>2. PICK n \in DOMAIN g_procs : g_procs[n] = main.cur /\ g_procs' = RemoveAt(g_procs, n)
    BY DEF JoinErr, Unlist
  <1>3. Listed' = Listed \ {main.cur}
    <2>1. g_procs \in Seq(Ids)
      BY DEF IInv, TypeOK
    <2>2. /\ \A i \in DOMAIN g_procs' :
                \E j \in DOMAIN g_procs \ {n} : g_procs'[i] = g_procs[j]
          /\ \A j \in DOMAIN g_procs \ {n} :
                \E i \in DOMAIN g_procs' : g_procs'[i] = g_procs[j]
      <3>1. /\ \A i \in DOMAIN RemoveAt(g_procs, n) :
                  \E j \in DOMAIN g_procs \ {n} : RemoveAt(g_procs, n)[i] = g_procs[j]
            /\ \A j \in DOMAIN g_procs \ {n} :
                  \E i \in DOMAIN RemoveAt(g_procs, n) : RemoveAt(g_procs, n)[i] = g_procs[j]
        <4> HIDE <1>2
        <4> QED
          BY <2>1, RemoveAtPlaces
      <3> QED
        BY <1>2, <3>1
    <2>3. \A i, j \in DOMAIN g_procs : g_procs[i] = g_procs[j] => i = j
      BY DEF IInv, ListKeepsAlive
    <2>4. \A x : x \in Listed <=> \E j \in DOMAIN g_procs : g_procs[j] = x
      BY DEF Listed, Range
    <2>5. \A x : x \in Listed' <=> \E j \in DOMAIN g_procs' : g_procs'[j] = x
      BY DEF Listed, Range
    <2> QED
      BY <1>2, <2>2, <2>3, <2>4, <2>5
  <1>4. main'.pc \in {"js", "poll"}
    <2>1. main \in MainType
      BY DEF IInv, TypeOK
    <2>2. CASE main.idx = 0
      BY <2>2 DEF JoinErr, InJs
    <2>3. CASE main.idx # 0
      BY <2>1, <2>3 DEF JoinErr, MainType
    <2> QED
      BY <2>2, <2>3
  <1>5. /\ job' = [job EXCEPT ![main.cur] = FALSE]
        /\ chunks' = [chunks EXCEPT ![main.cur] = <<>>]
        /\ waiter' = [waiter EXCEPT ![main.cur] = NoContext]
        /\ UNCHANGED <<g_next_id, opts, timedOut, total, truncated, reader, taken, child,
                       deadline, audited>>
    BY DEF JoinErr, threadVars, pipeVars
  <1>6. kid' = [kid EXCEPT ![main.cur] = IF job[main.cur] /\ kid[main.cur] = "inJob"
                                         THEN "gone" ELSE kid[main.cur]]
    BY DEF JoinErr
  <1> QED
    BY <1>1, <1>3, <1>4, <1>5, <1>6

\* The beginning of a removal, by a poll or by js_wait.
LEMMA BeginFrame ==
    ASSUME IInv, Current, PollReap \/ WaitExited
    PROVE  /\ main'.cur \in Listed /\ main'.cur \in Ids /\ Exited(main'.cur)
           /\ main'.pc = "joinOut" /\ main.pc \in {"exitq", "waiting"}
           /\ audited' = [audited EXCEPT ![main'.cur] = audited[main'.cur] + 1]
           /\ PollReap => main'.cur = main.cur /\ main'.idx = main.idx /\ main.idx > 0
           /\ WaitExited => main'.idx = 0
           /\ UNCHANGED <<g_procs, g_next_id, opts, job, timedOut, total, truncated, chunks,
                          waiter, reader, child, deadline, taken, kid>>
  <1>1. main \in MainType /\ Listed \subseteq Ids
    BY ListedFacts
  <1>2. UNCHANGED <<g_procs, g_next_id, opts, job, timedOut, total, truncated, chunks,
                    waiter, reader, child, deadline, taken, kid>>
    BY DEF PollReap, WaitExited, hostVars, flagVars, outputVars, pipeVars, osVars, jsVars
  <1>3. CASE PollReap
    <2>1. /\ main.pc = "exitq" /\ Exited(main.cur)
          /\ main' = [main EXCEPT !.pc = "joinOut", !.cur = main.cur, !.idx = main.idx]
          /\ audited' = [audited EXCEPT ![main.cur] = audited[main.cur] + 1]
      BY <1>3 DEF PollReap, BeginRemove, AuditSpawn
    <2>2. main.idx > 0
      BY <2>1 DEF IInv, PollCursor
    <2>3. ~WaitExited
      BY <2>1 DEF WaitExited
    <2>4. main'.pc = "joinOut" /\ main'.cur = main.cur /\ main'.idx = main.idx
      BY <1>1, <2>1 DEF MainType
    <2> QED
      BY <1>1, <1>2, <2>1, <2>2, <2>3, <2>4 DEF Current
  <1>4. CASE WaitExited
    <2>1. /\ main.pc = "waiting" /\ Exited(main.held) /\ main.held \in Listed
          /\ main' = [main EXCEPT !.pc = "joinOut", !.cur = main.held, !.idx = 0]
          /\ audited' = [audited EXCEPT ![main.held] = audited[main.held] + 1]
      BY <1>4 DEF WaitExited, BeginRemove, AuditSpawn
    <2>2. ~PollReap
      BY <2>1 DEF PollReap
    <2>3. main'.pc = "joinOut" /\ main'.cur = main.held /\ main'.idx = 0
      BY <1>1, <2>1 DEF MainType
    <2> QED
      BY <1>1, <1>2, <2>1, <2>2, <2>3
  <1> QED
    BY <1>3, <1>4

LEMMA JoinOutFrame ==
    ASSUME IInv, JoinOut
    PROVE  /\ main.pc = "joinOut" /\ main'.pc = "joinErr" /\ main'.cur = main.cur
           /\ main'.idx = main.idx /\ ~Live(main.cur, "out")
           /\ UNCHANGED recordVars
  <1>1. main \in MainType
    BY DEF IInv, TypeOK
  <1>2. UNCHANGED recordVars
    BY DEF JoinOut, recordVars, hostVars, flagVars, outputVars, pipeVars, osVars, jsVars
  <1> QED
    BY <1>1, <1>2 DEF JoinOut, Joined, MainType

\* What any step does to the children: only js_spawn makes one, and none comes back.
LEMMA ChildMoves ==
    ASSUME IInv, [Next]_vars, NEW i \in Ids
    PROVE  /\ child'[i] = "none" => child[i] = "none"
           /\ child[i] = "none" /\ child'[i] # "none" => js_spawn /\ i = g_next_id
           /\ child[i] = "exited" => child'[i] = "exited"
           /\ child[i] = "doomed" => child'[i] \in {"doomed", "exited"}
           /\ child'[i] = "exited" => child[i] = "exited" \/ ChildExit(i)
  <1> DEFINE G == /\ child'[i] = "none" => child[i] = "none"
                  /\ child[i] = "none" /\ child'[i] # "none" => js_spawn /\ i = g_next_id
                  /\ child[i] = "exited" => child'[i] = "exited"
                  /\ child[i] = "doomed" => child'[i] \in {"doomed", "exited"}
                  /\ child'[i] = "exited" => child[i] = "exited" \/ ChildExit(i)
  <1> SUFFICES G
    OBVIOUS
  <1>0. child \in [Ids -> {"none", "running", "doomed", "exited"}]
    BY DEF IInv, TypeOK
  <1>1. CASE js_spawn
    BY <1>0, <1>1, StartFrame
  <1>2. ASSUME NEW id \in Ids, ChildExit(id) PROVE G
    <2>1. child' = [child EXCEPT ![id] = "exited"] /\ child[id] # "none"
      BY <1>2 DEF ChildExit
    <2> QED
      BY <1>0, <1>2, <2>1
  <1>3. CASE CtrlHandler
    BY <1>0, <1>3 DEF CtrlHandler
  <1>4. ASSUME NEW id \in Ids, child' = [child EXCEPT ![id] = Doom(id)] PROVE G
    BY <1>0, <1>4 DEF Doom
  <1>5. CASE child' = child
    BY <1>0, <1>5
  <1>6. ASSUME NEW id \in Ids, NEW sig \in Signals, js_kill(id, sig) PROVE G
    <2>1. child' = [child EXCEPT ![id] = Doom(id)] \/ child' = [child EXCEPT ![id] = child[id]]
      BY <1>6 DEF js_kill
    <2> QED
      BY <1>0, <1>4, <2>1
  <1>7. CASE PollTimeout
    <2>1. g_procs[main.idx] \in Ids
      <3>1. main.idx \in 1 .. Len(g_procs) /\ g_procs \in Seq(Ids)
        BY <1>7 DEF PollTimeout, IInv, PollCursor, TypeOK, MainType
      <3> QED
        BY <3>1
    <2>2. child' = [child EXCEPT ![g_procs[main.idx]] = Doom(g_procs[main.idx])] \/ child' = child
      BY <1>7 DEF PollTimeout
    <2> QED
      BY <1>4, <1>5, <2>1, <2>2
  <1>8. CASE \/ \E id \in Ids, k \in Kinds : ChildWrite(id, k)
             \/ \E id \in Ids : ChildForks(id) \/ DeadlinePasses(id)
             \/ ReaderStep \/ UNCHANGED vars
    BY <1>5, <1>8, ReaderFrame DEF ChildWrite, ChildForks, DeadlinePasses, vars, osVars
  <1>9. CASE \/ MoveOnly \/ AssignJob \/ JoinOut \/ JoinErr \/ PollDrain \/ PollReap \/ WaitExited
             \/ \E c \in Contexts, id \in Ids : js_wait_async(c, id)
    BY <1>5, <1>9 DEF MoveOnly, PollDrained, PollNext, PollReturn, WaitPoll, WaitStale, SpawnPoll,
           js_wait, AssignJob, JoinOut, JoinErr, PollDrain, PollReap, WaitExited, js_wait_async,
           SpawnCheck, SpawnRefused, osVars
  <1> QED
    BY <1>1, <1>2, <1>3, <1>6, <1>7, <1>8, <1>9
       DEF Next, Script, ScriptEnds, Native, OS, MoveOnly, ReaderStep

(***************************************************************************)
(* The conjuncts, one after another.                                       *)
(***************************************************************************)
LEMMA CurrentStep ==
    ASSUME IInv, Current, [Next]_vars PROVE Current'
  <1>0. main \in MainType
    BY ListedFacts
  <1>1. ASSUME UNCHANGED <<main, g_procs>> PROVE Current'
    BY <1>1 DEF Current, Listed
  <1>2. CASE js_spawn
    BY <1>2, StartFrame DEF Current
  <1>3. CASE JoinErr
    BY <1>3, RemoveFrame DEF Current
  <1>4. CASE PollReap \/ WaitExited
    BY <1>4, BeginFrame DEF Current, Listed
  <1>5. CASE JoinOut
    BY <1>5, JoinOutFrame DEF Current, Listed, recordVars
  <1>6. CASE MoveOnly
    BY <1>6, MoveOnlyFrame
  <1>7. CASE AssignJob
    BY <1>7 DEF AssignJob, InJs, Current
  <1>8. CASE PollTimeout
    <2>1. /\ main'.cur = g_procs[main.idx] /\ g_procs' = g_procs
          /\ main.idx > 0 /\ main.pc = "poll"
      BY <1>0, <1>8 DEF PollTimeout, MainType, hostVars
    <2>2. main.idx \in DOMAIN g_procs
      BY <2>1 DEF IInv, PollCursor, TypeOK, MainType
    <2> QED
      BY <2>1, <2>2 DEF Current, Listed, Range
  <1>9. CASE ReaderStep
    BY <1>1, <1>9, ReaderFrame
  <1>10. CASE OS \/ UNCHANGED vars
    BY <1>1, <1>10 DEF OS, ChildWrite, ChildForks, ChildExit, DeadlinePasses, CtrlHandler,
                       vars, hostVars
  <1>11. CASE \/ PollDrain \/ \E c \in Contexts, id \in Ids : js_wait_async(c, id)
              \/ \E id \in Ids, sig \in Signals : js_kill(id, sig)
    BY <1>1, <1>11 DEF PollDrain, js_wait_async, js_kill, hostVars
  <1> QED
    BY <1>2, <1>3, <1>4, <1>5, <1>6, <1>7, <1>8, <1>9, <1>10, <1>11
       DEF Next, Script, ScriptEnds, Native, MoveOnly, ReaderStep

LEMMA ChargedStep ==
    ASSUME IInv, Charged, DropIsMarked, UnlistedIsGone, Current, [Next]_vars
    PROVE  Charged' /\ DropIsMarked'
  <1>t. /\ total \in [Ids -> [Kinds -> Nat]] /\ taken \in [Ids -> [Kinds -> Nat]]
        /\ truncated \in [Ids -> [Kinds -> BOOLEAN]] /\ wrote \in [Ids -> [Kinds -> Nat]]
        /\ opts \in [Ids -> OptionType] /\ \A id \in Ids : opts[id].limit \in Nat
    <2>1. opts \in [Ids -> OptionType]
      BY DEF IInv, TypeOK
    <2> QED
      BY <2>1 DEF IInv, TypeOK, OptionType
  <1>s. ASSUME ~js_spawn, UNCHANGED <<opts, total, truncated, taken>>
        PROVE  Charged' /\ DropIsMarked'
    BY <1>s, ChildMoves DEF Charged, DropIsMarked
  <1>1. CASE js_spawn
    <2>1. PICK o \in Options : opts' = [opts EXCEPT ![g_next_id] = o]
      BY <1>1 DEF js_spawn
    <2>2. /\ g_next_id \in Ids /\ child[g_next_id] = "none"
          /\ UNCHANGED <<total, truncated, taken>>
          /\ child' = [child EXCEPT ![g_next_id] = "running"]
      BY <1>1, StartFrame
    <2>3. \A k \in Kinds : /\ taken[g_next_id][k] = 0 /\ total[g_next_id][k] = 0
                          /\ ~truncated[g_next_id][k]
      BY <2>2 DEF Charged
    <2>4. o.limit \in Nat
      BY SpawnAssumption DEF OptionType
    <2>5. \A id \in Ids : id # g_next_id => opts'[id] = opts[id] /\ child'[id] = child[id]
      BY <1>t, <2>1, <2>2 DEF IInv, TypeOK
    <2>6. opts'[g_next_id].limit \in Nat /\ child'[g_next_id] # "none"
      BY <1>t, <2>1, <2>2, <2>4 DEF IInv, TypeOK
    <2>7. Charged'
      <3> SUFFICES ASSUME NEW id \in Ids, NEW k \in Kinds
                   PROVE  /\ opts'[id].limit > 0 => total'[id][k] <= opts'[id].limit
                          /\ child'[id] = "none" =>
                                taken'[id][k] = 0 /\ total'[id][k] = 0 /\ ~truncated'[id][k]
        BY DEF Charged
      <3>1. CASE id = g_next_id
        BY <2>2, <2>3, <2>6, <3>1
      <3>2. CASE id # g_next_id
        BY <2>2, <2>5, <3>2 DEF Charged
      <3> QED
        BY <3>1, <3>2
    <2>8. DropIsMarked'
      <3> SUFFICES ASSUME NEW id \in Ids, NEW k \in Kinds
                   PROVE  /\ taken'[id][k] > total'[id][k] => truncated'[id][k]
                          /\ truncated'[id][k] => /\ opts'[id].limit > 0
                                                  /\ total'[id][k] = opts'[id].limit
        BY DEF DropIsMarked
      <3>1. CASE id = g_next_id
        BY <2>2, <2>3, <3>1
      <3>2. CASE id # g_next_id
        BY <2>2, <2>5, <3>2 DEF DropIsMarked
      <3> QED
        BY <3>1, <3>2
    <2> QED
      BY <2>7, <2>8
  <1>2. ASSUME NEW i \in Ids, NEW j \in Kinds, ReaderRead(i, j) PROVE Charged' /\ DropIsMarked'
    <2> DEFINE n == ReadLen(i, j)
               a == Allowed(i, j, n)
               t == total[i][j]
               limit == opts[i].limit
               cut == truncated[i][j]
    <2>1. n \in Nat /\ taken[i][j] \in Nat /\ t \in Nat /\ limit \in Nat /\ cut \in BOOLEAN
      <3>1. taken[i][j] <= wrote[i][j]
        BY DEF IInv, TypeOK
      <3>2. taken[i][j] \in Nat /\ wrote[i][j] \in Nat
        BY <1>t
      <3>3. n \in Nat
        BY <3>1, <3>2, SpawnAssumption DEF ReadLen, Smaller, Pending
      <3> QED
        BY <1>t, <3>2, <3>3
    <2>2. a = IF limit = 0 THEN n ELSE IF cut \/ t >= limit THEN 0 ELSE Smaller(n, limit - t)
      BY DEF Allowed
    <2>3. /\ limit > 0 => t <= limit
          /\ cut => limit > 0 /\ t = limit
          /\ taken[i][j] > t => cut
      BY DEF Charged, DropIsMarked
    <2>4. /\ taken' = [taken EXCEPT ![i][j] = taken[i][j] + n]
          /\ total' = [total EXCEPT ![i][j] = t + a]
          /\ truncated' = [truncated EXCEPT ![i][j] = cut \/ a < n]
          /\ opts' = opts /\ child' = child
      BY <1>2 DEF ReaderRead, Cut, hostVars, osVars
    <2>5. child[i] # "none"
      <3>1. Live(i, j)
        BY <1>2 DEF ReaderRead, Live
      <3>2. i \in Listed
        BY <3>1 DEF UnlistedIsGone
      <3> QED
        BY <3>2, ListedFacts
    <2> HIDE DEF n, a, t, limit, cut
    <2>6. /\ a \in Nat /\ a <= n
          /\ limit > 0 => t + a <= limit
          /\ a < n => limit > 0 /\ t + a = limit
          /\ cut => limit > 0 /\ t + a = limit
      <3>1. CASE limit = 0
        BY <2>1, <2>2, <2>3, <3>1
      <3>2. CASE limit # 0 /\ (cut \/ t >= limit)
        BY <2>1, <2>2, <2>3, <3>2
      <3>3. CASE limit # 0 /\ ~cut /\ t < limit
        <4>1. a = Smaller(n, limit - t) /\ limit - t \in Nat
          BY <2>1, <2>2, <3>3
        <4>2. CASE n < limit - t
          BY <2>1, <3>3, <4>1, <4>2 DEF Smaller
        <4>3. CASE ~(n < limit - t)
          BY <2>1, <3>3, <4>1, <4>3 DEF Smaller
        <4> QED
          BY <4>2, <4>3
      <3> QED
        BY <2>1, <3>1, <3>2, <3>3
    <2>7. ASSUME NEW id \in Ids, NEW k \in Kinds
          PROVE  /\ taken'[id][k] = IF id = i /\ k = j THEN taken[i][j] + n ELSE taken[id][k]
                 /\ total'[id][k] = IF id = i /\ k = j THEN t + a ELSE total[id][k]
                 /\ truncated'[id][k] = IF id = i /\ k = j THEN (cut \/ a < n)
                                        ELSE truncated[id][k]
      <3>1. taken'[id][k] = IF id = i /\ k = j THEN taken[i][j] + n ELSE taken[id][k]
        BY <1>t, <2>4, UpdatedEntry
      <3>2. total'[id][k] = IF id = i /\ k = j THEN t + a ELSE total[id][k]
        BY <1>t, <2>4, UpdatedEntry
      <3>3. truncated'[id][k] = IF id = i /\ k = j THEN (cut \/ a < n) ELSE truncated[id][k]
        BY <1>t, <2>4, UpdatedEntry
      <3> QED
        BY <3>1, <3>2, <3>3
    <2>8. Charged'
      <3> SUFFICES ASSUME NEW id \in Ids, NEW k \in Kinds
                   PROVE  /\ opts'[id].limit > 0 => total'[id][k] <= opts'[id].limit
                          /\ child'[id] = "none" =>
                                taken'[id][k] = 0 /\ total'[id][k] = 0 /\ ~truncated'[id][k]
        BY DEF Charged
      <3>1. CASE id = i /\ k = j
        BY <2>4, <2>5, <2>6, <2>7, <3>1 DEF limit
      <3>2. CASE ~(id = i /\ k = j)
        BY <2>4, <2>7, <3>2 DEF Charged
      <3> QED
        BY <3>1, <3>2
    <2>9. DropIsMarked'
      <3> SUFFICES ASSUME NEW id \in Ids, NEW k \in Kinds
                   PROVE  /\ taken'[id][k] > total'[id][k] => truncated'[id][k]
                          /\ truncated'[id][k] => /\ opts'[id].limit > 0
                                                  /\ total'[id][k] = opts'[id].limit
        BY DEF DropIsMarked
      <3>1. CASE id = i /\ k = j
        <4>1. taken'[i][j] = taken[i][j] + n /\ total'[i][j] = t + a
          BY <2>7, <3>1
        <4>2. truncated'[i][j] <=> cut \/ a < n
          BY <2>7, <3>1
        <4>3. taken[i][j] + n > t + a => cut \/ a < n
          BY <2>1, <2>3, <2>6
        <4>4. cut \/ a < n => limit > 0 /\ t + a = limit
          BY <2>6
        <4>5. opts'[i].limit = limit
          BY <2>4 DEF limit
        <4> QED
          BY <3>1, <4>1, <4>2, <4>3, <4>4, <4>5
      <3>2. CASE ~(id = i /\ k = j)
        BY <2>4, <2>7, <3>2 DEF DropIsMarked
      <3> QED
        BY <3>1, <3>2
    <2> QED
      BY <2>8, <2>9
  <1>3. ASSUME NEW i \in Ids, NEW j \in Kinds,
               ReaderProbe(i, j) \/ ReaderIdle(i, j) \/ ReaderPush(i, j)
        PROVE  Charged' /\ DropIsMarked'
    <2>1. UNCHANGED <<opts, total, truncated, taken>>
      BY <1>3 DEF ReaderProbe, ReaderIdle, ReaderPush, hostVars, outputVars, pipeVars
    <2>2. child' = child
      BY <1>3 DEF ReaderProbe, ReaderIdle, ReaderPush, osVars
    <2> QED
      BY <2>1, <2>2 DEF Charged, DropIsMarked
  <1>4. CASE OS \/ UNCHANGED vars
    <2>1. UNCHANGED <<opts, total, truncated, taken, main>>
      BY <1>4 DEF OS, ChildWrite, ChildForks, ChildExit, DeadlinePasses, CtrlHandler,
                  vars, hostVars, outputVars, pipeVars
    <2>2. ~js_spawn
      BY <2>1, StartFrame
    <2> QED
      BY <1>s, <2>1, <2>2
  <1>5. CASE \/ PollDrain \/ \E c \in Contexts, id \in Ids : js_wait_async(c, id)
             \/ \E id \in Ids, sig \in Signals : js_kill(id, sig)
    <2>1. UNCHANGED <<opts, total, truncated, taken, main>>
      BY <1>5 DEF PollDrain, js_wait_async, js_kill, hostVars, outputVars, pipeVars
    <2>2. ~js_spawn
      BY <2>1, StartFrame
    <2> QED
      BY <1>s, <2>1, <2>2
  <1>6. CASE MoveOnly \/ AssignJob \/ JoinOut \/ JoinErr \/ PollReap \/ WaitExited \/ PollTimeout
    <2>1. UNCHANGED <<opts, total, truncated, taken>>
      <3>1. CASE MoveOnly \/ JoinOut \/ JoinErr \/ PollReap \/ WaitExited
        BY <3>1, MoveOnlyFrame, JoinOutFrame, RemoveFrame, BeginFrame DEF recordVars
      <3>2. CASE AssignJob \/ PollTimeout
        BY <3>2 DEF AssignJob, PollTimeout, hostVars, outputVars, pipeVars
      <3> QED
        BY <1>6, <3>1, <3>2
    <2>2. g_next_id' = g_next_id
      <3>1. CASE MoveOnly \/ JoinOut \/ JoinErr \/ PollReap \/ WaitExited
        BY <3>1, MoveOnlyFrame, JoinOutFrame, RemoveFrame, BeginFrame DEF recordVars
      <3>2. CASE AssignJob \/ PollTimeout
        BY <3>2 DEF AssignJob, PollTimeout, hostVars
      <3> QED
        BY <1>6, <3>1, <3>2
    <2>3. ~js_spawn
      <3>1. js_spawn => g_next_id' = g_next_id + 1 /\ g_next_id \in Nat
        BY DEF js_spawn, Ids
      <3> QED
        BY <2>2, <3>1
    <2> QED
      BY <1>s, <2>1, <2>3
  <1> QED
    BY <1>1, <1>2, <1>3, <1>4, <1>5, <1>6
       DEF Next, Script, ScriptEnds, Native, MoveOnly, Reader

\* What closing a job, or taskkill without one, makes of the child's child.
LEMMA KidAfterKill ==
    ASSUME IInv, Jobs, NEW id \in Ids, NEW fate \in KidsAfterKill(id)
    PROVE  fate # "inJob"
  BY DEF KidsAfterKill, Jobs

LEMMA JobsStep ==
    ASSUME IInv, Current, Jobs, TimeoutKills, UnlistedIsGone, [Next]_vars
    PROVE  Jobs' /\ TimeoutKills'
  <1>t. /\ job \in [Ids -> BOOLEAN] /\ timedOut \in [Ids -> BOOLEAN]
        /\ kid \in [Ids -> {"none", "inJob", "outside", "gone"}]
        /\ child \in [Ids -> {"none", "running", "doomed", "exited"}]
        /\ deadline \in [Ids -> {"none", "ahead", "passed", "overran"}]
        /\ main \in MainType /\ Listed \subseteq Ids
    BY ListedFacts DEF IInv, TypeOK
  <1>n. \A id \in Ids : timedOut[id] => child'[id] \in {"doomed", "exited"}
    BY ChildMoves DEF TimeoutKills
  <1>s. ASSUME UNCHANGED <<job, timedOut, kid, deadline>>,
               main'.pc # "assign" \/ main' = main
        PROVE  Jobs' /\ TimeoutKills'
    BY <1>s, <1>n DEF Jobs, TimeoutKills
  <1>1. CASE js_spawn
    <2> DEFINE g == g_next_id
    <2>1. /\ g \in Ids /\ child[g] = "none" /\ g \notin Listed
          /\ main'.cur = g /\ UNCHANGED <<job, timedOut, kid>>
      BY <1>1, StartFrame
    <2>2. ~job[g] /\ ~timedOut[g]
      BY <2>1 DEF UnlistedIsGone, TimeoutKills
    <2>3. \A id \in Ids : id # g => deadline'[id] = deadline[id]
      <3>1. PICK d : deadline' = [deadline EXCEPT ![g] = d]
        BY <1>1 DEF js_spawn
      <3> QED
        BY <1>t, <2>1, <3>1
    <2>4. Jobs'
      BY <2>1, <2>2 DEF Jobs
    <2>5. TimeoutKills'
      <3> SUFFICES ASSUME NEW id \in Ids, timedOut'[id]
                   PROVE  /\ child'[id] \in {"doomed", "exited"} /\ ~job'[id]
                          /\ kid'[id] # "inJob" /\ deadline'[id] \in {"passed", "overran"}
        BY DEF TimeoutKills
      <3>1. timedOut[id] /\ id # g
        BY <2>1, <2>2
      <3> QED
        BY <1>n, <2>1, <2>3, <3>1 DEF TimeoutKills
    <2> QED
      BY <2>4, <2>5
  <1>2. CASE AssignJob
    <2> DEFINE c == main.cur
    <2>1. /\ c \in Ids /\ main.pc = "assign" /\ main'.pc = "js"
          /\ UNCHANGED <<timedOut, kid, deadline, child>>
      BY <1>t, <1>2 DEF AssignJob, Current, InJs, osVars
    <2>2. PICK ok \in JobAssigned(c) : job' = [job EXCEPT ![c] = ok]
      BY <1>2 DEF AssignJob
    <2>3. ~job[c] /\ ~timedOut[c] /\ kid[c] # "inJob"
      BY <2>1 DEF Jobs
    <2>4. \A id \in Ids : id # c => job'[id] = job[id]
      BY <1>t, <2>1, <2>2
    <2>5. Jobs'
      BY <2>1, <2>3, <2>4 DEF Jobs
    <2>6. TimeoutKills'
      <3> SUFFICES ASSUME NEW id \in Ids, timedOut'[id]
                   PROVE  /\ child'[id] \in {"doomed", "exited"} /\ ~job'[id]
                          /\ kid'[id] # "inJob" /\ deadline'[id] \in {"passed", "overran"}
        BY DEF TimeoutKills
      <3>1. timedOut[id] /\ id # c
        BY <2>1, <2>3
      <3> QED
        BY <2>1, <2>4, <3>1 DEF TimeoutKills
    <2> QED
      BY <2>5, <2>6
  <1>3. ASSUME NEW id \in Ids, NEW sig \in Signals, js_kill(id, sig) PROVE Jobs' /\ TimeoutKills'
    <2>1. PICK fate \in KidsAfterKill(id) : kid' = [kid EXCEPT ![id] = fate]
      BY <1>3 DEF js_kill
    <2>2. /\ job' = [job EXCEPT ![id] = FALSE] /\ UNCHANGED <<timedOut, deadline, main>>
          /\ main.pc = "js"
      BY <1>3 DEF js_kill
    <2>3. fate # "inJob"
      BY KidAfterKill
    <2>4. /\ \A i \in Ids : i # id => job'[i] = job[i] /\ kid'[i] = kid[i]
          /\ ~job'[id] /\ kid'[id] # "inJob"
      BY <1>t, <2>1, <2>2, <2>3
    <2> QED
      BY <1>n, <2>2, <2>4 DEF Jobs, TimeoutKills
  <1>4. CASE PollTimeout
    <2> DEFINE id == g_procs[main.idx]
    <2>1. id \in Ids
      <3>1. main.idx \in 1 .. Len(g_procs) /\ g_procs \in Seq(Ids)
        BY <1>4 DEF PollTimeout, IInv, PollCursor, TypeOK, MainType
      <3> QED
        BY <3>1
    <2>2. main'.pc = "drain" /\ UNCHANGED deadline
      BY <1>t, <1>4 DEF PollTimeout, MainType
    <2>3. CASE TimeoutDue(id)
      <3>1. /\ timedOut' = [timedOut EXCEPT ![id] = TRUE]
            /\ child' = [child EXCEPT ![id] = Doom(id)]
            /\ job' = [job EXCEPT ![id] = FALSE]
        BY <1>4, <2>3 DEF PollTimeout
      <3>2. PICK fate \in KidsAfterKill(id) : kid' = [kid EXCEPT ![id] = fate]
        BY <1>4, <2>3 DEF PollTimeout
      <3>3. fate # "inJob"
        BY <2>1, KidAfterKill
      <3>4. /\ \A i \in Ids : i # id => /\ job'[i] = job[i] /\ kid'[i] = kid[i]
                                       /\ timedOut'[i] = timedOut[i]
            /\ ~job'[id] /\ kid'[id] # "inJob"
        BY <1>t, <2>1, <3>1, <3>2, <3>3
      <3>5. child'[id] \in {"doomed", "exited"}
        <4>1. id \in Listed
          <5>1. main.idx \in DOMAIN g_procs
            BY <1>4 DEF PollTimeout, IInv, PollCursor, TypeOK, MainType
          <5> QED
            BY <5>1 DEF Listed, Range
        <4>2. child[id] # "none"
          BY <4>1, ListedFacts
        <4> QED
          BY <1>t, <2>1, <3>1, <4>2 DEF Doom
      <3>6. deadline'[id] \in {"passed", "overran"}
        BY <2>2, <2>3 DEF TimeoutDue
      <3> HIDE DEF id
      <3>7. Jobs'
        BY <2>2, <3>4 DEF Jobs
      <3>8. TimeoutKills'
        BY <1>n, <2>2, <3>4, <3>5, <3>6 DEF TimeoutKills
      <3> QED
        BY <3>7, <3>8
    <2>4. CASE ~TimeoutDue(id)
      BY <1>4, <1>s, <2>2, <2>4 DEF PollTimeout
    <2> QED
      BY <2>3, <2>4
  <1>5. CASE JoinErr
    <2>1. /\ main.cur \in Ids /\ main'.pc # "assign" /\ UNCHANGED <<timedOut, deadline>>
          /\ job' = [job EXCEPT ![main.cur] = FALSE]
          /\ kid' = [kid EXCEPT ![main.cur] = IF job[main.cur] /\ kid[main.cur] = "inJob"
                                              THEN "gone" ELSE kid[main.cur]]
      BY <1>5, RemoveFrame
    <2>2. kid'[main.cur] # "inJob" /\ ~job'[main.cur]
      BY <1>t, <2>1 DEF Jobs
    <2>3. \A i \in Ids : i # main.cur => job'[i] = job[i] /\ kid'[i] = kid[i]
      BY <1>t, <2>1
    <2> QED
      BY <1>n, <2>1, <2>2, <2>3 DEF Jobs, TimeoutKills
  <1>6. ASSUME NEW id \in Ids, ChildForks(id) PROVE Jobs' /\ TimeoutKills'
    <2>1. /\ child[id] = "running" /\ UNCHANGED <<job, timedOut, deadline, main>>
          /\ kid' = [kid EXCEPT ![id] = IF job[id] THEN "inJob" ELSE "outside"]
      BY <1>6 DEF ChildForks, flagVars
    <2>2. ~timedOut[id]
      BY <2>1 DEF TimeoutKills
    <2>3. /\ \A i \in Ids : i # id => kid'[i] = kid[i]
          /\ kid'[id] = "inJob" => job[id]
      BY <1>t, <2>1
    <2> QED
      BY <1>n, <2>1, <2>2, <2>3 DEF Jobs, TimeoutKills
  <1>7. ASSUME NEW id \in Ids, DeadlinePasses(id) PROVE Jobs' /\ TimeoutKills'
    <2>1. /\ UNCHANGED <<job, timedOut, kid, main>> /\ deadline[id] = "ahead"
          /\ \E d : deadline' = [deadline EXCEPT ![id] = d]
      BY <1>7 DEF DeadlinePasses, flagVars
    <2>2. \A i \in Ids : timedOut[i] => deadline'[i] = deadline[i]
      BY <1>t, <2>1 DEF TimeoutKills
    <2> QED
      BY <1>n, <2>1, <2>2 DEF Jobs, TimeoutKills
  <1>8. CASE \/ \E id \in Ids, k \in Kinds : ChildWrite(id, k)
             \/ \E id \in Ids : ChildExit(id)
             \/ CtrlHandler \/ UNCHANGED vars
             \/ PollDrain \/ \E c \in Contexts, id \in Ids : js_wait_async(c, id)
    BY <1>8, <1>s DEF ChildWrite, ChildExit, CtrlHandler, vars, PollDrain, js_wait_async,
                      flagVars, osVars
  <1>9. CASE MoveOnly \/ JoinOut \/ PollReap \/ WaitExited
    BY <1>9, <1>s, MoveOnlyFrame, JoinOutFrame, BeginFrame DEF recordVars
  <1>10. CASE ReaderStep
    BY <1>10, <1>s, ReaderFrame
  <1> QED
    BY <1>1, <1>2, <1>3, <1>4, <1>5, <1>6, <1>7, <1>8, <1>9, <1>10
       DEF Next, Script, ScriptEnds, Native, OS, MoveOnly, ReaderStep

\* A reader that is not live stays so until its process is started.
LEMMA ReadersRest ==
    ASSUME IInv, ReaderStep, NEW i \in Ids, NEW j \in Kinds, ~Live(i, j)
    PROVE  ~Live(i, j)'
  <1>1. PICK id \in Ids, k \in Kinds : Reader(id, k)
    BY DEF ReaderStep
  <1>2. reader \in [Ids -> [Kinds -> ReaderType]]
    BY DEF IInv, TypeOK
  <1>3. Live(id, k)
    BY <1>1 DEF Reader, ReaderProbe, ReaderIdle, ReaderRead, ReaderPush, Live
  <1>4. PICK v : reader' = [reader EXCEPT ![id][k] = v]
    BY <1>1 DEF Reader, ReaderProbe, ReaderIdle, ReaderRead, ReaderPush
  <1>5. reader'[i][j] = reader[i][j]
    BY <1>2, <1>3, <1>4, UpdatedEntry
  <1> QED
    BY <1>5 DEF Live

LEMMA GoneStep ==
    ASSUME IInv, Current, Jobs, OutJoined, UnlistedIsGone, [Next]_vars, Jobs'
    PROVE  OutJoined' /\ UnlistedIsGone'
  <1>t. /\ job \in [Ids -> BOOLEAN] /\ chunks \in [Ids -> Seq(ChunkType)]
        /\ waiter \in [Ids -> Contexts \union {NoContext}]
        /\ reader \in [Ids -> [Kinds -> ReaderType]]
        /\ main \in MainType /\ Listed \subseteq Ids
    BY ListedFacts DEF IInv, TypeOK
  <1> DEFINE Left(id) == /\ \A k \in Kinds : ~Live(id, k)
                         /\ ~job[id] /\ chunks[id] = <<>> /\ waiter[id] = NoContext
  <1>a. \A id \in Ids \ Listed : Left(id)
    BY DEF UnlistedIsGone
  <1>b. ASSUME \A id \in Ids \ Listed' : Left(id)', \A id \in Ids \ Listed' :
                    child'[id] \in {"none", "exited"}
        PROVE  UnlistedIsGone'
    BY <1>b DEF UnlistedIsGone, Jobs
  <1>c. ASSUME ~js_spawn, ~JoinErr, Listed' = Listed
        PROVE  \A id \in Ids \ Listed' : child'[id] \in {"none", "exited"}
    <2> SUFFICES ASSUME NEW id \in Ids \ Listed PROVE child'[id] \in {"none", "exited"}
      BY <1>c
    <2>1. child[id] \in {"none", "exited"}
      BY DEF UnlistedIsGone
    <2> QED
      BY <1>c, <2>1, ChildMoves
  <1>s. ASSUME ~js_spawn, ~JoinErr,
               UNCHANGED <<g_procs, job, chunks, waiter, reader>>,
               main'.pc # "joinErr" \/ main' = main
        PROVE  OutJoined' /\ UnlistedIsGone'
    <2>1. Listed' = Listed
      BY <1>s DEF Listed
    <2>2. OutJoined'
      BY <1>s DEF OutJoined, Live
    <2>3. \A id \in Ids \ Listed' : Left(id)'
      BY <1>a, <1>s, <2>1 DEF Live
    <2> QED
      BY <1>b, <1>c, <1>s, <2>1, <2>2, <2>3
  <1>1. CASE js_spawn
    <2> DEFINE g == g_next_id
    <2>1. /\ g \in Ids /\ Listed' = Listed \union {g} /\ main'.pc = "assign"
          /\ child' = [child EXCEPT ![g] = "running"]
          /\ UNCHANGED <<job, chunks, waiter>>
      BY <1>1, StartFrame
    <2>2. PICK r : reader' = [reader EXCEPT ![g] = r]
      BY <1>1 DEF js_spawn
    <2>3. \A id \in Ids : id # g => reader'[id] = reader[id] /\ child'[id] = child[id]
      BY <1>t, <2>1, <2>2 DEF IInv, TypeOK
    <2>4. \A id \in Ids \ Listed' : Left(id)'
      BY <1>a, <2>1, <2>3 DEF Live
    <2>5. \A id \in Ids \ Listed' : child'[id] \in {"none", "exited"}
      BY <2>1, <2>3 DEF UnlistedIsGone
    <2>6. OutJoined'
      BY <2>1 DEF OutJoined
    <2> QED
      BY <1>b, <2>4, <2>5, <2>6
  <1>2. CASE JoinErr
    <2>0. PICK c \in Ids : c = main.cur
      BY <1>2, RemoveFrame
    <2>1. /\ Listed' = Listed \ {c} /\ main'.pc # "joinErr"
          /\ job' = [job EXCEPT ![c] = FALSE] /\ chunks' = [chunks EXCEPT ![c] = <<>>]
          /\ waiter' = [waiter EXCEPT ![c] = NoContext] /\ UNCHANGED <<reader, child>>
      BY <1>2, <2>0, RemoveFrame
    <2>2. ~Live(c, "out") /\ ~Live(c, "err") /\ Exited(c)
      BY <1>2, <2>0 DEF JoinErr, Joined, OutJoined, IInv, ListKeepsAlive
    <2>3. Left(c)'
      BY <1>t, <2>1, <2>2 DEF Live, Kinds
    <2>4. \A id \in Ids \ Listed' : id # c => Left(id)'
      BY <1>a, <1>t, <2>1 DEF Live
    <2>5. \A id \in Ids \ Listed' : child'[id] \in {"none", "exited"}
      BY <2>1, <2>2 DEF UnlistedIsGone, Exited
    <2>6. OutJoined'
      BY <2>1 DEF OutJoined
    <2> QED
      BY <1>b, <2>3, <2>4, <2>5, <2>6
  <1>3. CASE ReaderStep
    <2>1. UNCHANGED <<main, g_procs, job, waiter>> /\ Listed' = Listed
      BY <1>3, ReaderFrame DEF Listed
    <2>2. \A i \in Ids, j \in Kinds : ~Live(i, j) => ~Live(i, j)'
      BY <1>3, ReadersRest
    <2>3. \A i \in Ids \ Listed : chunks'[i] = chunks[i]
      <3>1. PICK id \in Ids, k \in Kinds : Reader(id, k)
        BY <1>3 DEF ReaderStep
      <3>2. CASE ReaderPush(id, k)
        <4>1. PICK q : chunks' = [chunks EXCEPT ![id] = q]
          BY <3>2 DEF ReaderPush
        <4>2. id \in Listed
          BY <1>a, <3>2 DEF ReaderPush, Live
        <4> QED
          BY <1>t, <4>1, <4>2
      <3>3. CASE chunks' = chunks
        BY <3>3
      <3> QED
        BY <3>1, <3>2, <3>3 DEF Reader, ReaderProbe, ReaderIdle, ReaderRead, outputVars
    <2>4. OutJoined'
      <3> SUFFICES ASSUME main.pc = "joinErr" PROVE ~Live(main.cur, "out")'
        BY <2>1 DEF OutJoined
      <3>1. main.cur \in Ids /\ ~Live(main.cur, "out")
        BY <1>t DEF Current, OutJoined
      <3>2. ~(reader'[main.cur]["out"].pc \in {"top", "idle", "read", "push"})
        BY <2>2, <3>1 DEF Live, Kinds
      <3> QED
        BY <2>1, <3>2 DEF Live
    <2>5. \A id \in Ids \ Listed' : Left(id)'
      BY <1>a, <2>1, <2>2, <2>3
    <2>6. ~js_spawn /\ ~JoinErr
      <3>1. main' = main
        BY <2>1
      <3> QED
        BY <3>1, StartFrame, RemoveFrame
    <2> QED
      BY <1>b, <1>c, <2>1, <2>4, <2>5, <2>6
  <1>4. CASE JoinOut
    <2>1. /\ main.pc = "joinOut" /\ main'.pc = "joinErr" /\ main'.cur = main.cur
          /\ ~Live(main.cur, "out") /\ UNCHANGED <<g_procs, job, chunks, waiter, reader, child>>
      BY <1>4, JoinOutFrame DEF recordVars
    <2>2. OutJoined'
      BY <2>1 DEF OutJoined, Live
    <2>3. Listed' = Listed
      BY <2>1 DEF Listed
    <2>4. \A id \in Ids \ Listed' : Left(id)'
      BY <1>a, <2>1, <2>3 DEF Live
    <2>5. ~js_spawn /\ ~JoinErr
      BY <2>1, StartFrame, RemoveFrame
    <2> QED
      BY <1>b, <1>c, <2>2, <2>3, <2>4, <2>5
  <1>5. CASE AssignJob \/ PollDrain
    <2> DEFINE c == main.cur
    <2>1. /\ c \in Listed /\ main.pc \in {"assign", "drain"}
          /\ UNCHANGED <<g_procs, waiter, reader>>
          /\ main'.pc = "js" \/ main' = main
      BY <1>5 DEF AssignJob, PollDrain, Current, InJs, hostVars, threadVars, jsVars
    <2>2. Listed' = Listed
      BY <2>1 DEF Listed
    <2>3. \A id \in Ids : id # c => job'[id] = job[id] /\ chunks'[id] = chunks[id]
      <3>1. CASE AssignJob
        <4>1. PICK ok : job' = [job EXCEPT ![c] = ok]
          BY <3>1 DEF AssignJob
        <4> QED
          BY <1>t, <3>1, <4>1 DEF AssignJob, outputVars
      <3>2. CASE PollDrain
        <4>1. PICK q : chunks' = [chunks EXCEPT ![c] = q]
          BY <3>2 DEF PollDrain
        <4> QED
          BY <1>t, <3>2, <4>1 DEF PollDrain, flagVars
      <3> QED
        BY <1>5, <3>1, <3>2
    <2>4. \A id \in Ids \ Listed' : Left(id)'
      BY <1>a, <2>1, <2>2, <2>3 DEF Live
    <2>5. OutJoined'
      BY <2>1 DEF OutJoined
    <2>6. ~js_spawn /\ ~JoinErr
      BY <2>1, StartFrame, RemoveFrame
    <2> QED
      BY <1>b, <1>c, <2>2, <2>4, <2>5, <2>6
  <1>6. ASSUME NEW id \in Ids, NEW sig \in Signals, js_kill(id, sig)
        PROVE  OutJoined' /\ UnlistedIsGone'
    <2>1. /\ job' = [job EXCEPT ![id] = FALSE] /\ id \in Listed /\ main' = main /\ main.pc = "js"
          /\ UNCHANGED <<g_procs, chunks, waiter, reader>>
      BY <1>6 DEF js_kill, hostVars, outputVars, threadVars, jsVars
    <2>2. Listed' = Listed
      BY <2>1 DEF Listed
    <2>3. \A i \in Ids \ Listed' : Left(i)'
      BY <1>a, <1>t, <2>1, <2>2 DEF Live
    <2>4. OutJoined' /\ ~js_spawn /\ ~JoinErr
      BY <2>1, StartFrame, RemoveFrame DEF OutJoined
    <2> QED
      BY <1>b, <1>c, <2>2, <2>3, <2>4
  <1>7. ASSUME NEW c \in Contexts, NEW id \in Ids, js_wait_async(c, id)
        PROVE  OutJoined' /\ UnlistedIsGone'
    <2>1. /\ waiter' = [waiter EXCEPT ![id] = c] /\ id \in Listed /\ main' = main /\ main.pc = "js"
          /\ UNCHANGED <<g_procs, chunks, job, reader>>
      BY <1>7 DEF js_wait_async, hostVars, outputVars, threadVars, flagVars
    <2>2. Listed' = Listed
      BY <2>1 DEF Listed
    <2>3. \A i \in Ids \ Listed' : Left(i)'
      BY <1>a, <1>t, <2>1, <2>2 DEF Live
    <2>4. OutJoined' /\ ~js_spawn /\ ~JoinErr
      BY <2>1, StartFrame, RemoveFrame DEF OutJoined
    <2> QED
      BY <1>b, <1>c, <2>2, <2>3, <2>4
  <1>8. CASE PollTimeout
    <2> DEFINE id == g_procs[main.idx]
    <2>1. /\ job' = job \/ job' = [job EXCEPT ![id] = FALSE]
          /\ main.pc = "poll" /\ main'.pc = "drain"
          /\ UNCHANGED <<g_procs, chunks, waiter, reader>>
      BY <1>t, <1>8 DEF PollTimeout, MainType, hostVars, outputVars, threadVars, jsVars
    <2>2. Listed' = Listed
      BY <2>1 DEF Listed
    <2>3. \A i \in Ids : ~job[i] => ~job'[i]
      BY <1>t, <2>1
    <2>4. \A i \in Ids \ Listed' : Left(i)'
      BY <1>a, <1>t, <2>1, <2>2, <2>3 DEF Live
    <2>5. OutJoined' /\ ~js_spawn /\ ~JoinErr
      BY <2>1, StartFrame, RemoveFrame DEF OutJoined
    <2> QED
      BY <1>b, <1>c, <2>2, <2>4, <2>5
  <1>9. CASE OS \/ UNCHANGED vars
    <2>1. UNCHANGED <<main, g_procs, job, chunks, waiter, reader>>
      BY <1>9 DEF OS, ChildWrite, ChildForks, ChildExit, DeadlinePasses, CtrlHandler,
                  vars, hostVars, outputVars, flagVars, threadVars, jsVars
    <2>2. ~js_spawn /\ ~JoinErr
      BY <2>1, StartFrame, RemoveFrame
    <2> QED
      BY <1>s, <2>1, <2>2
  <1>10. CASE MoveOnly \/ PollReap \/ WaitExited
    <2>1. /\ UNCHANGED <<g_procs, job, chunks, waiter, reader>> /\ main'.pc \notin {"assign", "joinErr"}
          /\ main.pc # "joinErr"
      BY <1>10, MoveOnlyFrame, BeginFrame DEF recordVars
    <2>2. ~js_spawn /\ ~JoinErr
      BY <2>1, StartFrame, RemoveFrame
    <2> QED
      BY <1>s, <2>1, <2>2
  <1> QED
    BY <1>1, <1>2, <1>3, <1>4, <1>5, <1>6, <1>7, <1>8, <1>9, <1>10
       DEF Next, Script, ScriptEnds, Native, MoveOnly, ReaderStep

\* The steps that neither list nor remove a process, nor begin to.
LEMMA RestFrame ==
    ASSUME IInv, Current, [Next]_vars, ~js_spawn, ~JoinErr, ~PollReap, ~WaitExited
    PROVE  /\ UNCHANGED <<g_procs, audited, report>> /\ Listed' = Listed
           /\ \A id \in Ids : Removing(id)' <=> Removing(id)
           /\ main.pc \in {"joinOut", "joinErr"} => main'.idx = main.idx
           /\ \A id \in Ids : child'[id] = "none" <=> child[id] = "none"
           /\ \A id \in Ids : Exited(id) => Exited(id)'
           /\ PollTimeout \/ timedOut' = timedOut
           /\ \/ waiter' = waiter /\ promise' = promise
              \/ \E c \in Contexts, id \in Ids : js_wait_async(c, id)
  <1>m. main \in MainType
    BY ListedFacts
  <1>c. /\ \A id \in Ids : child'[id] = "none" <=> child[id] = "none"
        /\ \A id \in Ids : Exited(id) => Exited(id)'
    BY ChildMoves DEF Exited
  <1>l. g_procs' = g_procs => Listed' = Listed
    BY DEF Listed
  <1>1. CASE UNCHANGED <<main, g_procs, audited, report, timedOut, waiter, promise>>
    BY <1>1, <1>c, <1>l DEF Removing
  <1>2. CASE OS \/ UNCHANGED vars
    BY <1>2, <1>1 DEF OS, ChildWrite, ChildForks, ChildExit, DeadlinePasses, CtrlHandler,
                  vars, hostVars, flagVars, jsVars
  <1>3. CASE ReaderStep
    BY <1>3, <1>1, ReaderFrame
  <1>4. CASE MoveOnly
    BY <1>4, <1>c, <1>l, MoveOnlyFrame DEF recordVars, Removing
  <1>5. CASE JoinOut
    BY <1>5, <1>c, <1>l, JoinOutFrame DEF recordVars, Removing
  <1>6. CASE AssignJob
    <2>1. main.pc = "assign" /\ main'.pc = "js"
      BY <1>6 DEF AssignJob, InJs
    <2>2. UNCHANGED <<g_procs, audited, report, timedOut, waiter, promise>>
      BY <1>6 DEF AssignJob, hostVars, jsVars
    <2> QED
      BY <1>c, <1>l, <2>1, <2>2 DEF Removing
  <1>7. CASE PollTimeout
    <2>1. main.pc = "poll" /\ main'.pc = "drain"
      BY <1>7, <1>m DEF PollTimeout, MainType
    <2>2. UNCHANGED <<g_procs, audited, report, waiter, promise>>
      BY <1>7 DEF PollTimeout, hostVars, jsVars
    <2> QED
      BY <1>7, <1>c, <1>l, <2>1, <2>2 DEF Removing
  <1>8. CASE PollDrain \/ \E id \in Ids, sig \in Signals : js_kill(id, sig)
    BY <1>8, <1>1 DEF PollDrain, js_kill, hostVars, flagVars, jsVars
  <1>9. CASE \E c \in Contexts, id \in Ids : js_wait_async(c, id)
    <2>1. UNCHANGED <<main, g_procs, audited, report, timedOut>>
      BY <1>9 DEF js_wait_async, hostVars, flagVars
    <2> QED
      BY <1>9, <1>c, <1>l, <2>1 DEF Removing
  <1> QED
    BY <1>2, <1>3, <1>4, <1>5, <1>6, <1>7, <1>8, <1>9
       DEF Next, Script, ScriptEnds, Native, MoveOnly, ReaderStep

LEMMA AuditStep ==
    ASSUME IInv, Current, AuditedOnce, [Next]_vars PROVE AuditedOnce'
  <1>t. audited \in [Ids -> Nat] /\ Listed \subseteq Ids
    BY ListedFacts DEF IInv, TypeOK
  <1>1. CASE js_spawn
    <2> SUFFICES ASSUME NEW id \in Ids
                 PROVE  audited'[id] = IF child'[id] # "none" /\ (id \in Listed' => Removing(id)')
                                       THEN 1 ELSE 0
      BY DEF AuditedOnce
    <2>1. /\ Listed' = Listed \union {g_next_id} /\ audited' = audited
          /\ ~Removing(id) /\ ~Removing(id)'
          /\ child[g_next_id] = "none" /\ g_next_id \in Ids
          /\ child' = [child EXCEPT ![g_next_id] = "running"]
      BY <1>1, StartFrame DEF Removing
    <2>2. CASE id = g_next_id
      BY <2>1, <2>2 DEF AuditedOnce
    <2>3. CASE id # g_next_id
      <3>1. child'[id] = child[id]
        BY <2>1, <2>3 DEF IInv, TypeOK
      <3> QED
        BY <2>1, <2>3, <3>1 DEF AuditedOnce
    <2> QED
      BY <2>2, <2>3
  <1>2. CASE JoinErr
    <2> SUFFICES ASSUME NEW id \in Ids
                 PROVE  audited'[id] = IF child'[id] # "none" /\ (id \in Listed' => Removing(id)')
                                       THEN 1 ELSE 0
      BY DEF AuditedOnce
    <2>1. /\ Listed' = Listed \ {main.cur} /\ audited' = audited /\ child' = child
          /\ main.cur \in Listed /\ Removing(main.cur) /\ ~Removing(id)'
          /\ id # main.cur => ~Removing(id)
      BY <1>2, RemoveFrame DEF Removing
    <2>2. child[main.cur] # "none"
      BY <2>1, ListedFacts
    <2> QED
      BY <2>1, <2>2 DEF AuditedOnce
  <1>3. CASE PollReap \/ WaitExited
    <2> SUFFICES ASSUME NEW id \in Ids
                 PROVE  audited'[id] = IF child'[id] # "none" /\ (id \in Listed' => Removing(id)')
                                       THEN 1 ELSE 0
      BY DEF AuditedOnce
    <2>0. PICK c \in Ids : c = main'.cur
      BY <1>3, BeginFrame
    <2>1. /\ Listed' = Listed /\ child' = child /\ c \in Listed
          /\ audited' = [audited EXCEPT ![c] = audited[c] + 1]
          /\ ~Removing(id) /\ ~Removing(c) /\ Removing(c)' /\ (id # c => ~Removing(id)')
      BY <1>3, <2>0, BeginFrame DEF Listed, Removing
    <2>2. child[c] # "none"
      BY <2>1, ListedFacts
    <2>3. audited[c] = 0
      BY <2>1 DEF AuditedOnce
    <2>4. CASE id = c
      <3>1. audited'[c] = 1
        BY <1>t, <2>1, <2>3
      <3> QED
        BY <2>1, <2>2, <2>4, <3>1
    <2>5. CASE id # c
      BY <1>t, <2>1, <2>5 DEF AuditedOnce
    <2> QED
      BY <2>4, <2>5
  <1>4. CASE ~js_spawn /\ ~JoinErr /\ ~PollReap /\ ~WaitExited
    BY <1>4, RestFrame DEF AuditedOnce
  <1> QED
    BY <1>1, <1>2, <1>3, <1>4

\* A process that no native call is removing has not been reported while it is listed.
LEMMA NotYetReported ==
    ASSUME IInv, Reports, NEW id \in Listed, ~(Removing(id) /\ main.idx > 0)
    PROVE  report[id].made = 0
  BY ListedFacts DEF Reports

\* Only js_wait makes the report while it removes the process.
LEMMA RemovalReports ==
    ASSUME JoinErr
    PROVE  \/ report' = report
           \/ main.idx = 0 /\ report' = [report EXCEPT ![main.cur] = MakeReport(main.cur)]
  <1>1. IF main.idx = 0
        THEN /\ report' = [report EXCEPT ![main.cur] = MakeReport(main.cur)]
             /\ main' = InJs
        ELSE /\ UNCHANGED report
             /\ main' = [main EXCEPT !.pc = "poll", !.cur = NoId, !.idx = NextIdx(@)]
    BY DEF JoinErr
  <1> QED
    BY <1>1

LEMMA ReportStep ==
    ASSUME IInv, Current, Reports, ReportedOnce, [Next]_vars
    PROVE  Reports' /\ ReportedOnce'
  <1>t. /\ report \in [Ids -> ReportType] /\ timedOut \in [Ids -> BOOLEAN]
        /\ waiter \in [Ids -> Contexts \union {NoContext}]
        /\ promise \in [Ids -> [Contexts -> {"none", "pending", "settled", "dropped"}]]
        /\ Listed \subseteq Ids /\ main \in MainType /\ main.idx \in Nat
        /\ \A id \in Ids : report[id].made \in Nat
    <2>1. report \in [Ids -> ReportType] /\ main \in MainType
      BY DEF IInv, TypeOK
    <2> QED
      BY <2>1, ListedFacts DEF IInv, TypeOK, ReportType, MainType
  \* What both invariants say of one process.
  <1> DEFINE Told(id) ==
               /\ id \in Listed => report[id].made = 0 \/ (Removing(id) /\ main.idx > 0)
               /\ \A c \in Contexts : waiter[id] = c =>
                     promise[id][c] = IF report[id].made = 0 THEN "pending" ELSE "settled"
               /\ report[id].made <= 1
               /\ report[id].made = 1 => Exited(id) /\ report[id].timedOut = timedOut[id]
               /\ (\E c \in Contexts : promise[id][c] = "settled") => report[id].made = 1
  <1>a. \A id \in Ids : Told(id)
    BY DEF Reports, ReportedOnce
  <1>b. SUFFICES ASSUME NEW id \in Ids PROVE Told(id)'
    BY DEF Reports, ReportedOnce
  <1>1. CASE js_spawn
    <2>1. /\ g_next_id \in Ids /\ child[g_next_id] = "none"
          /\ Listed' = Listed \union {g_next_id}
          /\ UNCHANGED <<timedOut, waiter, promise, report>>
          /\ ~Removing(id)
          /\ Exited(id) => Exited(id)'
      BY <1>1, StartFrame, ChildMoves DEF Removing, Exited
    <2>2. report[g_next_id].made = 0
      <3>1. Told(g_next_id)
        BY <1>a, <2>1
      <3>2. report[g_next_id].made \in Nat /\ ~Exited(g_next_id)
        BY <1>t, <2>1 DEF Exited
      <3> QED
        BY <3>1, <3>2
    <2>3. id \in Listed => report[id].made = 0
      BY <1>a, <2>1
    <2> QED
      <3>1. id \in Listed' => report'[id].made = 0
        BY <2>1, <2>2, <2>3
      <3> QED
        BY <1>a, <2>1, <3>1
  <1>2. CASE JoinErr
    <2>0. PICK c \in Ids : c = main.cur
      BY <1>2, RemoveFrame
    <2>1. /\ c \in Listed /\ Listed' = Listed \ {c} /\ Removing(c) /\ (id # c => ~Removing(id))
          /\ waiter' = [waiter EXCEPT ![c] = NoContext] /\ UNCHANGED <<timedOut, child>>
          /\ Exited(c)
      BY <1>2, <2>0, RemoveFrame DEF Removing, IInv, ListKeepsAlive
    <2>2. promise' = [promise EXCEPT ![c] =
                        [x \in Contexts |->
                            IF x = waiter[c] /\ promise[c][x] = "pending"
                            THEN "dropped" ELSE promise[c][x]]]
      BY <1>2, <2>0 DEF JoinErr
    <2>3. \/ report' = report
          \/ main.idx = 0 /\ report' = [report EXCEPT ![c] = MakeReport(c)]
      BY <1>2, <2>0, RemovalReports
    <2>4. CASE id # c
      <3>1. promise'[id] = promise[id] /\ report'[id] = report[id] /\ waiter'[id] = waiter[id]
        BY <1>t, <2>1, <2>2, <2>3, <2>4
      <3>2. id \in Listed => report[id].made = 0
        BY <1>a, <2>1, <2>4
      <3> QED
        BY <1>a, <2>1, <3>1, <3>2 DEF Exited
    <2>5. CASE id = c
      <3>1. id \notin Listed' /\ waiter'[id] = NoContext
        BY <1>t, <2>1, <2>5
      <3>2. NoContext \notin Contexts
        BY SpawnAssumption
      <3>3. (\E x \in Contexts : promise'[id][x] = "settled") =>
               \E x \in Contexts : promise[id][x] = "settled"
        <4> SUFFICES ASSUME NEW x \in Contexts, promise'[id][x] = "settled"
                     PROVE  promise[id][x] = "settled"
          OBVIOUS
        <4>1. promise'[id][x] = IF x = waiter[c] /\ promise[c][x] = "pending"
                                THEN "dropped" ELSE promise[c][x]
          BY <1>t, <2>2, <2>5
        <4> QED
          BY <2>5, <4>1
      <3>4. CASE report' = report
        BY <1>a, <2>1, <2>5, <3>1, <3>2, <3>3, <3>4 DEF Exited
      <3>5. CASE main.idx = 0 /\ report' = [report EXCEPT ![c] = MakeReport(c)]
        <4>1. report[c].made = 0
          BY <2>1, <3>5, NotYetReported
        <4>2. report'[c].made = 1 /\ report'[c].timedOut = timedOut[c]
          BY <1>t, <3>5, <4>1 DEF MakeReport
        <4> QED
          BY <2>1, <2>5, <3>1, <3>2, <4>2 DEF Exited
      <3> QED
        BY <2>3, <3>4, <3>5
    <2> QED
      BY <2>4, <2>5
  <1>3. CASE PollReap
    <2>0. PICK c \in Ids : c = main.cur
      BY <1>3, BeginFrame
    <2>1. /\ c \in Listed /\ Listed' = Listed /\ ~Removing(c) /\ ~Removing(id)
          /\ Removing(c)' /\ main'.idx > 0
          /\ UNCHANGED <<timedOut, waiter, child>> /\ Exited(c)
      BY <1>3, <2>0, BeginFrame DEF Removing, Listed
    <2>2. report[c].made = 0
      BY <2>1, NotYetReported
    <2>3. \/ waiter[c] # main.ctx /\ UNCHANGED <<promise, report>>
          \/ /\ waiter[c] = main.ctx
             /\ promise' = [promise EXCEPT ![c][main.ctx] = "settled"]
             /\ report' = [report EXCEPT ![c] = MakeReport(c)]
      BY <1>3, <2>0 DEF PollReap, Settle
    <2>4. CASE UNCHANGED <<promise, report>>
      BY <1>a, <2>1, <2>4, NotYetReported DEF Exited
    <2>5. CASE id # c
      <3>1. promise'[id] = promise[id] /\ report'[id] = report[id]
        BY <1>t, <2>3, <2>5
      <3>2. id \in Listed => report[id].made = 0
        BY <1>a, <2>1
      <3> QED
        BY <1>a, <2>1, <3>1, <3>2 DEF Exited
    <2>6. CASE id = c /\ ~UNCHANGED <<promise, report>>
      <3>1. waiter[c] = main.ctx /\ report' = [report EXCEPT ![c] = MakeReport(c)]
            /\ promise' = [promise EXCEPT ![c][main.ctx] = "settled"]
        BY <2>3, <2>6
      <3>2. report'[c].made = 1 /\ report'[c].timedOut = timedOut[c]
        BY <1>t, <2>2, <3>1 DEF MakeReport
      <3>3. \A x \in Contexts : x = main.ctx => promise'[c][x] = "settled"
        BY <1>t, <3>1
      <3> QED
        BY <2>1, <2>6, <3>1, <3>2, <3>3 DEF Exited
    <2> QED
      BY <2>4, <2>5, <2>6
  <1>4. CASE WaitExited
    <2>1. /\ Listed' = Listed /\ ~Removing(id) /\ UNCHANGED <<timedOut, child>>
      BY <1>4, BeginFrame DEF Removing, Listed
    <2>2. UNCHANGED <<promise, report, waiter>>
      BY <1>4 DEF WaitExited, jsVars
    <2> QED
      BY <1>a, <2>1, <2>2 DEF Exited
  <1>5. ASSUME NEW c \in Contexts, NEW i \in Ids, js_wait_async(c, i) PROVE Told(id)'
    <2>1. /\ main' = main /\ main.pc = "js" /\ i \in Listed /\ Listed' = Listed
          /\ UNCHANGED <<timedOut, child, report>>
          /\ waiter' = [waiter EXCEPT ![i] = c]
          /\ promise' = [promise EXCEPT ![i] =
                [d \in Contexts |-> IF d = c THEN "pending"
                                    ELSE IF d = waiter[i] THEN "dropped" ELSE promise[i][d]]]
      BY <1>5 DEF js_wait_async, hostVars, flagVars, osVars, Listed
    <2>2. ~Removing(id) /\ ~Removing(i)
      BY <2>1 DEF Removing
    <2>3. report[i].made = 0
      BY <2>1, <2>2, NotYetReported
    <2>4. CASE id # i
      <3>1. promise'[id] = promise[id] /\ waiter'[id] = waiter[id]
        BY <1>t, <2>1, <2>4
      <3>2. id \in Listed => report[id].made = 0
        BY <1>a, <2>2
      <3> QED
        BY <1>a, <2>1, <3>1, <3>2 DEF Exited
    <2>5. CASE id = i
      <3>1. waiter'[i] = c /\ promise'[i][c] = "pending"
        BY <1>t, <2>1
      <3>2. \A d \in Contexts : promise'[i][d] # "settled"
        <4> SUFFICES ASSUME NEW d \in Contexts PROVE promise'[i][d] # "settled"
          OBVIOUS
        <4>1. promise'[i][d] \in {"pending", "dropped", promise[i][d]}
          BY <1>t, <2>1
        <4>2. promise[i][d] # "settled"
          BY <1>a, <2>3
        <4> QED
          BY <4>1, <4>2
      <3> QED
        BY <2>1, <2>3, <2>5, <3>1, <3>2
    <2> QED
      BY <2>4, <2>5
  <1>6. CASE PollTimeout
    <2>1. /\ main.pc = "poll" /\ Listed' = Listed /\ UNCHANGED <<report, waiter, promise>>
          /\ \E i \in Listed : timedOut' = [timedOut EXCEPT ![i] = TRUE] \/ timedOut' = timedOut
      <3>1. main.idx \in DOMAIN g_procs
        BY <1>6 DEF PollTimeout, IInv, PollCursor, TypeOK, MainType
      <3>2. g_procs[main.idx] \in Listed
        BY <3>1 DEF Listed, Range
      <3> QED
        BY <1>6, <3>2 DEF PollTimeout, hostVars, jsVars, Listed
    <2>2. \A i \in Listed : report[i].made = 0
      BY <1>a, <1>t, <2>1 DEF Removing
    <2>3. id \notin Listed => timedOut'[id] = timedOut[id]
      BY <1>t, <2>1
    <2>4. Exited(id) => Exited(id)'
      BY ChildMoves DEF Exited
    <2>5. CASE id \in Listed
      BY <1>a, <2>1, <2>2, <2>5
    <2>6. CASE id \notin Listed
      BY <1>a, <2>1, <2>3, <2>4, <2>6
    <2> QED
      BY <2>5, <2>6
  <1>7. CASE /\ ~js_spawn /\ ~JoinErr /\ ~PollReap /\ ~WaitExited /\ ~PollTimeout
             /\ ~\E c \in Contexts, i \in Ids : js_wait_async(c, i)
    <2>1. /\ UNCHANGED <<report, timedOut, waiter, promise>> /\ Listed' = Listed
          /\ Removing(id)' <=> Removing(id)
          /\ main.pc \in {"joinOut", "joinErr"} => main'.idx = main.idx
          /\ Exited(id) => Exited(id)'
      BY <1>7, RestFrame
    <2>2. Removing(id) /\ main.idx > 0 => Removing(id)' /\ main'.idx > 0
      BY <2>1 DEF Removing
    <2> QED
      BY <1>a, <2>1, <2>2
  <1> QED
    BY <1>1, <1>2, <1>3, <1>4, <1>5, <1>6, <1>7

LEMMA InitRInv ==
    ASSUME Init PROVE RInv
  <1>1. Listed = {} /\ main.pc = "js"
    BY DEF Init, Listed, Range, InJs
  <1>2. Current /\ OutJoined /\ Jobs
    BY <1>1 DEF Init, Current, OutJoined, Jobs
  <1>3. Charged /\ DropIsMarked
    BY DEF Init, Charged, DropIsMarked
  <1>4. TimeoutKills
    BY DEF Init, TimeoutKills
  <1>5. UnlistedIsGone
    BY DEF Init, UnlistedIsGone, Live, At
  <1>6. Reports
    BY <1>1, SpawnAssumption DEF Init, Reports, NoReport
  <1>7. AuditedOnce
    BY DEF Init, AuditedOnce
  <1>8. ReportedOnce
    <2>1. \A id \in Ids : report[id].made = 0
      BY DEF Init, NoReport
    <2>2. \A id \in Ids, c \in Contexts : promise[id][c] # "settled"
      BY DEF Init
    <2> QED
      BY <2>1, <2>2 DEF ReportedOnce
  <1> QED
    BY <1>2, <1>3, <1>4, <1>5, <1>6, <1>7, <1>8 DEF RInv, EndedOnce

LEMMA StepRInv ==
    ASSUME IInv, RInv, [Next]_vars PROVE RInv'
  <1>1. Current'
    BY CurrentStep DEF RInv
  <1>2. Charged' /\ DropIsMarked'
    BY ChargedStep DEF RInv
  <1>3. Jobs' /\ TimeoutKills'
    BY JobsStep DEF RInv
  <1>4. OutJoined' /\ UnlistedIsGone'
    BY <1>3, GoneStep DEF RInv
  <1>5. AuditedOnce'
    BY AuditStep DEF RInv, EndedOnce
  <1>6. Reports' /\ ReportedOnce'
    BY ReportStep DEF RInv, EndedOnce
  <1> QED
    BY <1>1, <1>2, <1>3, <1>4, <1>5, <1>6 DEF RInv, EndedOnce

\* In every behaviour the invariant of the records holds.
THEOREM RecordInvariant == Spec => []RInv
  <1>1. Init => RInv
    BY InitRInv
  <1>2. IInv /\ RInv /\ [Next]_vars => RInv'
    BY StepRInv
  <1> QED
    BY <1>1, <1>2, Invariant, PTL DEF Spec

\* Reading and charging the limit in one critical section, output beyond the limit is
\* dropped only with the mark, and the mark is set only when the limit is used up.
THEOREM DropsAreMarked == Spec => []DropIsMarked
  <1>1. RInv => DropIsMarked
    BY DEF RInv
  <1> QED
    BY <1>1, RecordInvariant, PTL

\* A process timed out by a poll is on its way out, without its job, never before its
\* deadline (SpawnPoll), although a new process gets its job only after it runs (js_spawn).
THEOREM TimeoutIsFinal == Spec => []TimeoutKills
  <1>1. RInv => TimeoutKills
    BY DEF RInv
  <1> QED
    BY <1>1, RecordInvariant, PTL

\* RemoveProcById joins both reader threads before the record goes: a process no longer
\* listed has ended and leaves no thread, job, chunk or promise function behind.
THEOREM RemovedIsGone == Spec => []UnlistedIsGone
  <1>1. RInv => UnlistedIsGone
    BY DEF RInv
  <1> QED
    BY <1>1, RecordInvariant, PTL

\* Although js_wait and the polls nested in it may both meet the end of a process, it is
\* audited once and reported at most once, with the verdict that then held.
THEOREM EachEndsOnce == Spec => []EndedOnce
  <1>1. RInv => EndedOnce
    BY DEF RInv
  <1> QED
    BY <1>1, RecordInvariant, PTL

(***************************************************************************)
(* Promises.                                                               *)
(***************************************************************************)
PromiseMove ==
    \A id \in Ids, c \in Contexts :
        promise'[id][c] # promise[id][c] =>
            <<promise[id][c], promise'[id][c]>> \in
                {<<"none", "pending">>, <<"dropped", "pending">>,
                 <<"pending", "settled">>, <<"pending", "dropped">>}

LEMMA PromiseMoves ==
    ASSUME IInv, RInv, [Next]_vars PROVE PromiseMove
  <1>t. /\ promise \in [Ids -> [Contexts -> {"none", "pending", "settled", "dropped"}]]
        /\ waiter \in [Ids -> Contexts \union {NoContext}] /\ Current /\ Reports /\ ReportedOnce
        /\ Listed \subseteq Ids
    BY ListedFacts DEF IInv, TypeOK, RInv, EndedOnce
  <1>1. CASE promise' = promise
    BY <1>1 DEF PromiseMove
  <1>2. CASE js_spawn \/ WaitExited
    BY <1>1, <1>2, StartFrame DEF WaitExited, jsVars
  <1>3. CASE JoinErr
    <2>1. promise' = [promise EXCEPT ![main.cur] =
                        [x \in Contexts |->
                            IF x = waiter[main.cur] /\ promise[main.cur][x] = "pending"
                            THEN "dropped" ELSE promise[main.cur][x]]]
      BY <1>3 DEF JoinErr
    <2> SUFFICES ASSUME NEW id \in Ids, NEW c \in Contexts, promise'[id][c] # promise[id][c]
                 PROVE  promise[id][c] = "pending" /\ promise'[id][c] = "dropped"
      BY DEF PromiseMove
    <2>2. id = main.cur
      BY <1>t, <2>1
    <2> QED
      BY <1>t, <2>1, <2>2
  <1>4. CASE PollReap
    <2>1. \/ promise' = promise
          \/ /\ waiter[main.cur] = main.ctx
             /\ promise' = [promise EXCEPT ![main.cur][main.ctx] = "settled"]
      BY <1>4 DEF PollReap, Settle
    <2> SUFFICES ASSUME NEW id \in Ids, NEW c \in Contexts, promise'[id][c] # promise[id][c]
                 PROVE  promise[id][c] = "pending" /\ promise'[id][c] = "settled"
      BY DEF PromiseMove
    <2>2. id = main.cur /\ c = main.ctx /\ waiter[id] = c /\ promise'[id][c] = "settled"
      BY <1>t, <2>1
    <2>3. report[id].made = 0
      <3>1. id \in Listed /\ main.pc = "exitq"
        BY <1>4, <1>t, <2>2 DEF PollReap, Current
      <3>2. ~Removing(id)
        BY <3>1 DEF Removing
      <3> QED
        BY <1>t, <3>1, <3>2, NotYetReported
    <2> QED
      BY <1>t, <2>2, <2>3 DEF Reports
  <1>5. ASSUME NEW w \in Contexts, NEW i \in Ids, js_wait_async(w, i) PROVE PromiseMove
    <2>1. /\ main.pc = "js" /\ i \in Listed
          /\ promise' = [promise EXCEPT ![i] =
                [d \in Contexts |-> IF d = w THEN "pending"
                                    ELSE IF d = waiter[i] THEN "dropped" ELSE promise[i][d]]]
      BY <1>5 DEF js_wait_async
    <2>2. report[i].made = 0
      <3>1. ~Removing(i)
        BY <2>1 DEF Removing
      <3> QED
        BY <1>t, <2>1, <3>1, NotYetReported
    <2> SUFFICES ASSUME NEW id \in Ids, NEW c \in Contexts, promise'[id][c] # promise[id][c]
                 PROVE  \/ /\ promise[id][c] \in {"none", "dropped"}
                           /\ promise'[id][c] = "pending"
                        \/ promise[id][c] = "pending" /\ promise'[id][c] = "dropped"
      BY DEF PromiseMove
    <2>3. id = i
      BY <1>t, <2>1
    <2>4. promise[i][c] # "settled"
      BY <1>t, <2>2 DEF ReportedOnce
    <2>5. CASE c = w
      BY <1>t, <2>1, <2>3, <2>4, <2>5
    <2>6. CASE c # w
      <3>1. c = waiter[i] /\ promise'[i][c] = "dropped"
        BY <1>t, <2>1, <2>3, <2>6
      <3>2. promise[i][c] = "pending"
        BY <1>t, <2>2, <3>1 DEF Reports
      <3> QED
        BY <2>3, <3>1, <3>2
    <2> QED
      BY <2>5, <2>6
  <1>6. CASE /\ ~js_spawn /\ ~JoinErr /\ ~PollReap /\ ~WaitExited
             /\ ~\E c \in Contexts, i \in Ids : js_wait_async(c, i)
    BY <1>1, <1>6, <1>t, RestFrame
  <1> QED
    BY <1>2, <1>3, <1>4, <1>5, <1>6

\* A promise of waitAsync is settled by a poll only while it is pending and dropped only
\* while it is pending; a settled one never changes again.
THEOREM PromisesMove == Spec => PromiseStep
  <1>1. IInv /\ RInv /\ [Next]_vars => [PromiseMove]_vars
    BY PromiseMoves
  <1> QED
    BY <1>1, Invariant, RecordInvariant, PTL DEF Spec, PromiseStep, PromiseMove

(***************************************************************************)
(* The refinement: the phases, deadlines and reports of the process table. *)
(***************************************************************************)
Phases == [id \in Ids |-> PhaseOf(id)]
Told   == [id \in Ids |-> ReportOf(id)]

\* The table counts with the FiniteSets of its own instance.
LEMMA SameCardinality == \A S : Table!Cardinality(S) = Cardinality(S)
  BY DEF Table!Cardinality, Cardinality

LEMMA ListedCounted ==
    ASSUME IInv
    PROVE  /\ IsFiniteSet(Listed) /\ Cardinality(Listed) \in Nat
           /\ Len(g_procs) \in Nat /\ Cardinality(Listed) <= Len(g_procs)
  <1> DEFINE D == 1 .. Len(g_procs)
  <1>1. g_procs \in Seq(Ids)
    BY DEF IInv, TypeOK
  <1>2. Len(g_procs) \in Nat /\ DOMAIN g_procs = D
    BY <1>1
  <1>3. g_procs \in [D -> Listed] /\ \A id \in Listed : \E i \in D : g_procs[i] = id
    BY <1>1, <1>2 DEF Listed, Range
  <1>4. IsFiniteSet(D) /\ Cardinality(D) = Len(g_procs)
    <2>1. IsFiniteSet(D) /\ Cardinality(D) =
            IF 1 > Len(g_procs) THEN 0 ELSE Len(g_procs) - 1 + 1
      <3>1. Len(g_procs) \in Int
        BY <1>2
      <3> QED
        BY <3>1, FS_Interval
    <2> QED
      BY <1>2, <2>1
  <1> HIDE DEF D
  <1>5. g_procs \in Surjection(D, Listed)
    BY <1>3 DEF Surjection
  <1> QED
    BY <1>2, <1>4, <1>5, FS_Surjection, FS_CardinalityType

\* A step that starts, ends and removes nobody shows no other phase.
LEMMA SamePhases ==
    ASSUME \A id \in Ids : child'[id] = "none" <=> child[id] = "none",
           \A id \in Ids : Exited(id)' <=> Exited(id), Listed' = Listed
    PROVE  Phases' = Phases
  <1>1. \A id \in Ids : PhaseOf(id)' = PhaseOf(id)
    BY DEF PhaseOf
  <1> QED
    BY <1>1 DEF Phases

LEMMA SpawnStarts ==
    ASSUME IInv, RInv, js_spawn PROVE Table!Start(g_next_id)
  <1> DEFINE g == g_next_id
  <1>1. /\ g \in Ids /\ child[g] = "none" /\ Listed' = Listed \union {g}
        /\ child' = [child EXCEPT ![g] = "running"]
        /\ UNCHANGED <<timedOut, report>> /\ spawning > 0
    BY StartFrame DEF js_spawn
  <1>2. Phases[g] = "free"
    BY <1>1 DEF Phases, PhaseOf
  <1>3. ASSUME NEW q \in 1 .. g - 1 PROVE Phases[q] # "free"
    <2>1. q \in Ids /\ ~(q >= g)
      BY <1>1, SpawnAssumption DEF Ids
    <2>2. child[q] # "none"
      BY <2>1 DEF IInv, ListKeepsAlive
    <2> QED
      BY <2>1, <2>2 DEF Phases, PhaseOf
  <1>4. ASSUME MaxConcurrent > 0
        PROVE  Cardinality({p \in Ids : Phases[p] \in {"running", "ended"}}) < SpawnLimit
    <2>1. {p \in Ids : Phases[p] \in {"running", "ended"}} = Listed
      <3>1. \A p \in Ids : Phases[p] \in {"running", "ended"} <=> p \in Listed
        BY ListedFacts DEF Phases, PhaseOf
      <3> QED
        BY <3>1, ListedFacts
    <2>2. Len(g_procs) + spawning <= SpawnLimit /\ spawning \in Nat
      BY <1>4, SpawnAssumption DEF IInv, ListWithinLimit, TypeOK
    <2>3. /\ Cardinality(Listed) \in Nat /\ Len(g_procs) \in Nat
          /\ Cardinality(Listed) <= Len(g_procs)
      BY ListedCounted
    <2>4. Cardinality(Listed) < SpawnLimit
      BY <1>1, <2>2, <2>3, SpawnAssumption DEF SpawnLimit
    <2> QED
      BY <2>1, <2>4
  <1>5. Phases' = [Phases EXCEPT ![g] = "running"]
    <2>1. ASSUME NEW id \in Ids PROVE PhaseOf(id)' = IF id = g THEN "running" ELSE PhaseOf(id)
      <3>1. CASE id = g
        <4>1. child'[id] = "running" /\ id \in Listed'
          BY <1>1, <3>1 DEF IInv, TypeOK
        <4> QED
          BY <3>1, <4>1 DEF PhaseOf, Exited
      <3>2. CASE id # g
        <4>1. child'[id] = child[id] /\ (id \in Listed' <=> id \in Listed)
          BY <1>1, <3>2 DEF IInv, TypeOK
        <4> QED
          BY <3>2, <4>1 DEF PhaseOf, Exited
      <3> QED
        BY <3>1, <3>2
    <2> HIDE DEF g
    <2> QED
      BY <2>1 DEF Phases
  <1>6. Told' = Told
    BY <1>1 DEF Told, ReportOf
  <1> HIDE DEF g
  <1>7. Table!Start(g)
    <2>1. MaxConcurrent > 0 => Table!Cardinality(Table!InTable) < SpawnLimit
      BY <1>4, SameCardinality DEF Table!InTable, Phases
    <2>2. /\ [id \in Ids |-> PhaseOf(id)][g] = "free"
          /\ \A q \in 1 .. g - 1 : [id \in Ids |-> PhaseOf(id)][q] # "free"
      BY <1>2, <1>3 DEF Phases
    <2>3. [id \in Ids |-> PhaseOf(id)]'
            = [[id \in Ids |-> PhaseOf(id)] EXCEPT ![g] = "running"]
      BY <1>5 DEF Phases
    <2>4. UNCHANGED <<timedOut, [id \in Ids |-> ReportOf(id)]>>
      BY <1>1, <1>6 DEF Told
    <2>5. (IF MaxConcurrent = 0 THEN 0 ELSE SpawnLimit) > 0 =>
             Table!Cardinality(Table!InTable)
                 < (IF MaxConcurrent = 0 THEN 0 ELSE SpawnLimit)
      <3>1. CASE MaxConcurrent = 0
        BY <3>1
      <3>2. CASE MaxConcurrent # 0
        BY <2>1, <3>2, SpawnAssumption
      <3> QED
        BY <3>1, <3>2
    <2> QED
      BY <2>2, <2>3, <2>4, <2>5 DEF Table!Start
  <1> QED
    BY <1>7 DEF g

LEMMA ExitEnds ==
    ASSUME IInv, NEW i \in Ids, ChildExit(i) PROVE Table!End(i)
  <1>1. /\ child[i] \in {"running", "doomed"} /\ child' = [child EXCEPT ![i] = "exited"]
        /\ UNCHANGED <<g_procs, timedOut, report>>
    BY DEF ChildExit, hostVars, flagVars, jsVars
  <1>2. i \in Listed /\ Listed' = Listed
    BY <1>1 DEF IInv, ListKeepsAlive, Listed
  <1>3. Phases[i] = "running"
    BY <1>1, <1>2 DEF Phases, PhaseOf, Exited
  <1>4. Phases' = [Phases EXCEPT ![i] = "ended"]
    <2>1. ASSUME NEW id \in Ids PROVE PhaseOf(id)' = IF id = i THEN "ended" ELSE PhaseOf(id)
      <3>1. CASE id = i
        <4>1. child'[id] = "exited" /\ id \in Listed'
          BY <1>1, <1>2, <3>1 DEF IInv, TypeOK
        <4> QED
          BY <3>1, <4>1 DEF PhaseOf, Exited
      <3>2. CASE id # i
        <4>1. child'[id] = child[id]
          BY <1>1, <3>2 DEF IInv, TypeOK
        <4> QED
          BY <1>2, <3>2, <4>1 DEF PhaseOf, Exited
      <3> QED
        BY <3>1, <3>2
    <2> QED
      BY <2>1 DEF Phases
  <1>5. Told' = Told
    BY <1>1 DEF Told, ReportOf
  <1> QED
    BY <1>1, <1>3, <1>4, <1>5 DEF Table!End, Phases, Told

LEMMA TimeoutExpires ==
    ASSUME IInv, RInv, [Next]_vars, PollTimeout, timedOut' # timedOut
    PROVE  \E i \in Ids : Table!Expire(i)
  <1> DEFINE i == g_procs[main.idx]
  <1>1. i \in Listed /\ i \in Ids
    <2>1. main.idx \in DOMAIN g_procs
      BY DEF PollTimeout, IInv, PollCursor, TypeOK, MainType
    <2> QED
      BY <2>1, ListedFacts DEF Listed, Range
  <1>2. TimeoutDue(i) /\ timedOut' = [timedOut EXCEPT ![i] = TRUE] /\ main.pc = "poll"
        /\ UNCHANGED report
    BY DEF PollTimeout, jsVars
  <1>m. main'.pc = "drain"
    BY DEF PollTimeout, IInv, TypeOK, MainType
  <1> HIDE DEF i
  <1>3. Phases[i] \in {"running", "ended"}
    BY <1>1, ListedFacts DEF Phases, PhaseOf
  <1>4. Told[i] = "none"
    <2>1. report[i].made = 0
      BY <1>1, <1>2, NotYetReported DEF RInv, Removing
    <2> QED
      BY <1>1, <2>1 DEF Told, ReportOf
  <1>5. Phases' = Phases
    <2>1. ~js_spawn /\ ~JoinErr /\ ~PollReap /\ ~WaitExited
      BY <1>2 DEF js_spawn, JoinErr, PollReap, WaitExited
    <2>2. \A id \in Ids : ~ChildExit(id)
      BY <1>2, <1>m DEF ChildExit
    <2>3. /\ \A id \in Ids : child'[id] = "none" <=> child[id] = "none"
          /\ \A id \in Ids : Exited(id) => Exited(id)'
          /\ Listed' = Listed
      BY <2>1, RestFrame DEF RInv
    <2>4. \A id \in Ids : Exited(id)' => Exited(id)
      BY <2>2, ChildMoves DEF Exited
    <2> QED
      BY <2>3, <2>4, SamePhases
  <1>6. Told' = Told
    BY <1>2 DEF Told, ReportOf
  <1>7. ~timedOut[i]
    BY <1>2 DEF TimeoutDue
  <1> QED
    BY <1>1, <1>2, <1>3, <1>4, <1>5, <1>6, <1>7 DEF Table!Expire, Phases, Told

LEMMA ReapReports ==
    ASSUME IInv, RInv, PollReap, report' # report PROVE Table!Report(main.cur)
  <1>0. PICK c \in Ids : c = main.cur
    BY BeginFrame DEF RInv
  <1>1. /\ c \in Listed /\ UNCHANGED <<g_procs, child, timedOut>> /\ Exited(c) /\ ~Removing(c)
    BY <1>0, BeginFrame DEF RInv, Removing
  <1>2. report' = [report EXCEPT ![c] = MakeReport(c)]
    BY <1>0 DEF PollReap, Settle
  <1>3. report \in [Ids -> ReportType] /\ report[c].made = 0
    BY <1>1, NotYetReported DEF IInv, TypeOK, RInv
  <1>4. report'[c].made = 1 /\ report'[c].timedOut = timedOut[c]
    BY <1>2, <1>3 DEF MakeReport
  <1>5. Phases[c] = "ended"
    BY <1>1, ListedFacts DEF Phases, PhaseOf
  <1>6. Told[c] = "none"
    BY <1>3 DEF Told, ReportOf
  <1>7. Told' = [Told EXCEPT ![c] = IF timedOut[c] THEN "timeout" ELSE "exit"]
    <2>1. ASSUME NEW id \in Ids
          PROVE  ReportOf(id)' = IF id = c THEN (IF timedOut[c] THEN "timeout" ELSE "exit")
                                 ELSE ReportOf(id)
      <3>1. CASE id = c
        BY <1>4, <3>1 DEF ReportOf
      <3>2. CASE id # c
        <4>1. report'[id] = report[id]
          BY <1>2, <1>3, <3>2
        <4> QED
          BY <3>2, <4>1 DEF ReportOf
      <3> QED
        BY <3>1, <3>2
    <2> QED
      BY <2>1 DEF Told
  <1>8. Phases' = Phases
    BY <1>1, SamePhases DEF Exited, Listed
  <1> QED
    BY <1>0, <1>1, <1>5, <1>6, <1>7, <1>8 DEF Table!Report, Table!Verdict, Phases, Told

LEMMA RemovalLeaves ==
    ASSUME IInv, RInv, JoinErr PROVE Table!Leave(main.cur)
  <1>0. PICK c \in Ids : c = main.cur
    BY RemoveFrame DEF RInv
  <1>1. /\ c \in Listed /\ Listed' = Listed \ {c} /\ UNCHANGED <<child, timedOut>> /\ Exited(c)
    BY <1>0, RemoveFrame DEF RInv, IInv, ListKeepsAlive
  <1>2. \/ report' = report
        \/ main.idx = 0 /\ report' = [report EXCEPT ![c] = MakeReport(c)]
    BY <1>0, RemovalReports
  <1>3. Phases[c] = "ended"
    BY <1>1, ListedFacts DEF Phases, PhaseOf
  <1>4. Phases' = [Phases EXCEPT ![c] = "gone"]
    <2>1. ASSUME NEW id \in Ids PROVE PhaseOf(id)' = IF id = c THEN "gone" ELSE PhaseOf(id)
      <3>1. CASE id = c
        BY <1>1, <3>1, ListedFacts DEF PhaseOf
      <3>2. CASE id # c
        <4>1. id \in Listed' <=> id \in Listed
          BY <1>1, <3>2
        <4> QED
          BY <1>1, <3>2, <4>1 DEF PhaseOf, Exited
      <3> QED
        BY <3>1, <3>2
    <2> QED
      BY <2>1 DEF Phases
  <1>5. \/ Told' = Told
        \/ /\ Told[c] = "none"
           /\ Told' = [Told EXCEPT ![c] = IF timedOut[c] THEN "timeout" ELSE "exit"]
    <2>1. CASE report' = report
      BY <2>1 DEF Told, ReportOf
    <2>2. CASE main.idx = 0 /\ report' = [report EXCEPT ![c] = MakeReport(c)]
      <3>1. report \in [Ids -> ReportType] /\ report[c].made = 0
        BY <1>1, <2>2, NotYetReported DEF IInv, TypeOK, RInv
      <3>2. report'[c].made = 1 /\ report'[c].timedOut = timedOut[c]
        BY <2>2, <3>1 DEF MakeReport
      <3>3. ASSUME NEW id \in Ids
            PROVE  ReportOf(id)' = IF id = c THEN (IF timedOut[c] THEN "timeout" ELSE "exit")
                                   ELSE ReportOf(id)
        <4>1. CASE id = c
          BY <3>2, <4>1 DEF ReportOf
        <4>2. CASE id # c
          <5>1. report'[id] = report[id]
            BY <2>2, <3>1, <4>2
          <5> QED
            BY <4>2, <5>1 DEF ReportOf
        <4> QED
          BY <4>1, <4>2
      <3> QED
        BY <3>1, <3>3 DEF Told, ReportOf
    <2> QED
      BY <1>2, <2>1, <2>2
  <1>6. timedOut' = timedOut
    BY <1>1
  <1> QED
    BY <1>0, <1>3, <1>4, <1>5, <1>6 DEF Table!Leave, Table!Verdict, Phases, Told

LEMMA TableStep ==
    ASSUME IInv, RInv, [Next]_vars PROVE [Table!Next]_<<Phases, timedOut, Told>>
  <1>1. CASE js_spawn
    BY <1>1, SpawnStarts, StartFrame DEF Table!Next
  <1>2. CASE JoinErr
    BY <1>2, RemovalLeaves, RemoveFrame DEF Table!Next, RInv
  <1>3. CASE PollReap \/ WaitExited
    <2>1. UNCHANGED <<g_procs, child, timedOut>>
      BY <1>3, BeginFrame DEF RInv
    <2>2. CASE report' = report
      <3>1. Phases' = Phases
        BY <2>1, SamePhases DEF Exited, Listed
      <3>2. Told' = Told
        BY <2>2 DEF Told, ReportOf
      <3> QED
        BY <2>1, <3>1, <3>2
    <2>3. CASE report' # report
      <3>1. PollReap
        BY <1>3, <2>3 DEF WaitExited, jsVars
      <3>2. main.cur \in Ids
        BY <3>1, BeginFrame DEF RInv
      <3> QED
        BY <2>3, <3>1, <3>2, ReapReports DEF Table!Next
    <2> QED
      BY <2>2, <2>3
  <1>4. ASSUME NEW i \in Ids, ChildExit(i) PROVE Table!Next
    BY <1>4, ExitEnds DEF Table!Next
  <1>5. CASE PollTimeout /\ timedOut' # timedOut
    BY <1>5, TimeoutExpires DEF Table!Next
  <1>6. CASE /\ ~js_spawn /\ ~JoinErr /\ ~PollReap /\ ~WaitExited
             /\ timedOut' = timedOut /\ \A i \in Ids : ~ChildExit(i)
    <2>1. /\ \A id \in Ids : child'[id] = "none" <=> child[id] = "none"
          /\ \A id \in Ids : Exited(id) => Exited(id)'
          /\ Listed' = Listed /\ report' = report
      BY <1>6, RestFrame DEF RInv
    <2>2. \A id \in Ids : Exited(id)' => Exited(id)
      BY <1>6, ChildMoves DEF Exited
    <2>3. Phases' = Phases
      BY <2>1, <2>2, SamePhases
    <2>4. Told' = Told
      BY <2>1 DEF Told, ReportOf
    <2> QED
      BY <1>6, <2>3, <2>4
  <1>7. CASE /\ ~js_spawn /\ ~JoinErr /\ ~PollReap /\ ~WaitExited
             /\ timedOut' # timedOut /\ ~PollTimeout
    BY <1>7, RestFrame DEF RInv
  <1> QED
    BY <1>1, <1>2, <1>3, <1>4, <1>5, <1>6, <1>7

\* Every step of the shim's threads is a step of the process table, or none: ids in order,
\* never more than the limit, one end, and one verdict, fixed before the report.
THEOREM TableImplemented == Spec => ImplementsTable
  <1>1. Init => Table!Init
    <2> SUFFICES ASSUME Init PROVE Table!Init
      OBVIOUS
    <2>1. \A id \in Ids : PhaseOf(id) = "free" /\ ReportOf(id) = "none"
      BY DEF Init, PhaseOf, ReportOf, NoReport
    <2>2. timedOut = [id \in Ids |-> FALSE]
      BY DEF Init
    <2> QED
      BY <2>1, <2>2 DEF Table!Init
  <1>2. IInv /\ RInv /\ [Next]_vars => [Table!Next]_<<Phases, timedOut, Told>>
    BY TableStep
  <1> QED
    BY <1>1, <1>2, Invariant, RecordInvariant, PTL
       DEF Spec, ImplementsTable, Table!Spec, Table!tableVars, Phases, Told

(***************************************************************************)
(* The output between the pipe and the console.                            *)
(***************************************************************************)
\* A chunk pushed at the end leaves what is before it alone ...
LEMMA PushedBefore ==
    ASSUME NEW q \in Seq(ChunkType), NEW e \in ChunkType, NEW k, NEW s, NEW p,
           NEW n \in 1 .. Len(q) + 1, EndsAt(q, k, s, n, p)
    PROVE  EndsAt(Append(q, e), k, s, n, p)
  <1> DEFINE old == {j \in DOMAIN q : j < n /\ q[j].kind = k}
             new == {j \in DOMAIN Append(q, e) : j < n /\ Append(q, e)[j].kind = k}
  <1>1. /\ Append(q, e) \in Seq(ChunkType) /\ Len(Append(q, e)) = Len(q) + 1 /\ Len(q) \in Nat
        /\ \A j \in 1 .. Len(q) : Append(q, e)[j] = q[j]
    BY AppendFacts
  <1>2. DOMAIN q = 1 .. Len(q) /\ DOMAIN Append(q, e) = 1 .. Len(q) + 1
    BY <1>1
  <1>3. \A j : j \in new <=> j \in old
    BY <1>1, <1>2
  <1>4. new = old
    BY <1>3
  <1>5. \A j \in old : Append(q, e)[j] = q[j]
    BY <1>1, <1>2
  <1>6. \/ old = {} /\ p = s
        \/ \E j \in old : (\A i \in old : i <= j) /\ p = q[j].from + q[j].len
    BY DEF EndsAt
  <1>7. \/ new = {} /\ p = s
        \/ \E j \in new : (\A i \in new : i <= j) /\ p = Append(q, e)[j].from + Append(q, e)[j].len
    BY <1>4, <1>5, <1>6
  <1> QED
    BY <1>7 DEF EndsAt

\* ... and moves the end if it is of the kind.
LEMMA PushedEnd ==
    ASSUME NEW q \in Seq(ChunkType), NEW e \in ChunkType, NEW k, NEW s, NEW p,
           IF e.kind = k THEN p = e.from + e.len ELSE EndsAt(q, k, s, Len(q) + 1, p)
    PROVE  EndsAt(Append(q, e), k, s, Len(q) + 2, p)
  <1> DEFINE old == {j \in DOMAIN q : j < Len(q) + 1 /\ q[j].kind = k}
             new == {j \in DOMAIN Append(q, e) : j < Len(q) + 2 /\ Append(q, e)[j].kind = k}
  <1>1. /\ Append(q, e) \in Seq(ChunkType) /\ Len(Append(q, e)) = Len(q) + 1 /\ Len(q) \in Nat
        /\ \A j \in 1 .. Len(q) : Append(q, e)[j] = q[j]
        /\ Append(q, e)[Len(q) + 1] = e
    BY AppendFacts
  <1>2. DOMAIN q = 1 .. Len(q) /\ DOMAIN Append(q, e) = 1 .. Len(q) + 1
    BY <1>1
  <1>3. CASE e.kind = k
    <2>1. Len(q) + 1 \in new /\ \A i \in new : i <= Len(q) + 1
      BY <1>1, <1>2, <1>3
    <2>2. p = Append(q, e)[Len(q) + 1].from + Append(q, e)[Len(q) + 1].len
      BY <1>1, <1>3
    <2> QED
      BY <2>1, <2>2 DEF EndsAt
  <1>4. CASE e.kind # k
    <2>1. \A j : j \in new <=> j \in old
      BY <1>1, <1>2, <1>4
    <2>2. new = old
      BY <2>1
    <2>3. \A j \in old : Append(q, e)[j] = q[j]
      BY <1>1, <1>2
    <2>4. \/ old = {} /\ p = s
          \/ \E j \in old : (\A i \in old : i <= j) /\ p = q[j].from + q[j].len
      BY <1>4 DEF EndsAt
    <2>5. \/ new = {} /\ p = s
          \/ \E j \in new : /\ \A i \in new : i <= j
                            /\ p = Append(q, e)[j].from + Append(q, e)[j].len
      BY <2>2, <2>3, <2>4
    <2> QED
      BY <2>5 DEF EndsAt
  <1> QED
    BY <1>3, <1>4

\* The chunk that is taken out is shown, and all others move up.
LEMMA PoppedEnd ==
    ASSUME NEW q \in Seq(ChunkType), q # <<>>, NEW k, NEW s, NEW p, NEW u,
           NEW n \in 1 .. Len(q), EndsAt(q, k, s, n + 1, p),
           u = IF q[1].kind = k THEN q[1].from + q[1].len ELSE s
    PROVE  EndsAt(Tail(q), k, u, n, p)
  <1> DEFINE old == {j \in DOMAIN q : j < n + 1 /\ q[j].kind = k}
             new == {j \in DOMAIN Tail(q) : j < n /\ Tail(q)[j].kind = k}
  <1>1. /\ DOMAIN Tail(q) = 1 .. Len(q) - 1 /\ DOMAIN q = 1 .. Len(q) /\ Len(q) \in Nat \ {0}
        /\ \A j \in 1 .. Len(q) - 1 : Tail(q)[j] = q[j + 1]
    BY HeadDropped
  <1>2. \A j \in new : j \in Nat \ {0} /\ j + 1 \in old /\ Tail(q)[j] = q[j + 1]
    BY <1>1
  <1>3. \A j \in old : j # 1 => j - 1 \in new /\ Tail(q)[j - 1] = q[j]
    BY <1>1
  <1>4. 1 \in old <=> q[1].kind = k
    BY <1>1
  <1>5. \A j \in old : j \in Nat \ {0}
    BY <1>1
  <1>6. CASE old = {} /\ p = s
    <2>1. new = {} /\ p = u
      BY <1>2, <1>4, <1>6
    <2> QED
      BY <2>1 DEF EndsAt
  <1>7. CASE \E j \in old : (\A i \in old : i <= j) /\ p = q[j].from + q[j].len
    <2>1. PICK j \in old : (\A i \in old : i <= j) /\ p = q[j].from + q[j].len
      BY <1>7
    <2>2. CASE j = 1
      <3>1. new = {}
        BY <1>2, <2>1, <2>2
      <3>2. p = u
        BY <1>4, <2>1, <2>2
      <3> QED
        BY <3>1, <3>2 DEF EndsAt
    <2>3. CASE j # 1
      <3>1. j - 1 \in new /\ Tail(q)[j - 1] = q[j]
        BY <1>3, <2>3
      <3>2. \A i \in new : i <= j - 1
        BY <1>2, <1>5, <2>1
      <3> QED
        BY <2>1, <3>1, <3>2 DEF EndsAt
    <2> QED
      BY <2>2, <2>3
  <1> QED
    BY <1>6, <1>7 DEF EndsAt

\* Shown output, queue and reader follow each other without a gap, up to the output
\* charged to the limit; r is the reader, s what was shown and t what was charged.
Piped(q, k, s, t, r) ==
    /\ s <= t
    /\ \A n \in DOMAIN q : q[n].kind = k => /\ EndsAt(q, k, s, n, q[n].from)
                                            /\ q[n].from + q[n].len <= t
    /\ r.pc = "push" => EndsAt(q, k, s, Len(q) + 1, r.from) /\ r.from + r.len = t
    /\ r.pc \in {"top", "idle", "read"} => EndsAt(q, k, s, Len(q) + 1, t)

PipeInv ==
    /\ \A id \in Ids, k \in Kinds :
          /\ Piped(chunks[id], k, shown[id][k], total[id][k], reader[id][k])
          /\ total[id][k] <= taken[id][k]
          /\ child[id] = "none" => shown[id][k] = 0
    /\ \A id \in Ids : child[id] = "none" => chunks[id] = <<>>

\* ReaderPush, seen from the pipe that is read ...
LEMMA PipePush ==
    ASSUME NEW q \in Seq(ChunkType), NEW k \in Kinds, NEW s \in Nat, NEW t \in Nat,
           NEW r \in ReaderType, r.pc = "push", Piped(q, k, s, t, r)
    PROVE  Piped(Append(q, [kind |-> k, from |-> r.from, len |-> r.len]), k, s, t, At("top"))
  <1> DEFINE e == [kind |-> k, from |-> r.from, len |-> r.len]
             p == Append(q, e)
  <1>1. e \in ChunkType /\ e.kind = k /\ e.from = r.from /\ e.len = r.len
    BY DEF ChunkType, ReaderType
  <1>2. /\ s <= t /\ EndsAt(q, k, s, Len(q) + 1, r.from) /\ r.from + r.len = t
        /\ \A n \in DOMAIN q : q[n].kind = k => /\ EndsAt(q, k, s, n, q[n].from)
                                                /\ q[n].from + q[n].len <= t
    BY DEF Piped
  <1> HIDE DEF e
  <1>3. /\ p \in Seq(ChunkType) /\ DOMAIN p = 1 .. Len(q) + 1 /\ Len(q) \in Nat
        /\ Len(p) = Len(q) + 1 /\ DOMAIN q = 1 .. Len(q)
        /\ \A i \in DOMAIN p : p[i] = IF i = Len(q) + 1 THEN e ELSE q[i]
    BY <1>1, AppendFacts
  <1>4. ASSUME NEW n \in DOMAIN p, p[n].kind = k
        PROVE  EndsAt(p, k, s, n, p[n].from) /\ p[n].from + p[n].len <= t
    <2>1. CASE n = Len(q) + 1
      <3>1. p[n] = e /\ n \in 1 .. Len(q) + 1
        BY <1>3, <2>1
      <3>2. EndsAt(q, k, s, n, e.from)
        BY <1>1, <1>2, <2>1
      <3>3. EndsAt(p, k, s, n, e.from)
        BY <1>1, <3>1, <3>2, PushedBefore
      <3>4. e.from + e.len <= t
        BY <1>1, <1>2
      <3> QED
        BY <3>1, <3>3, <3>4
    <2>2. CASE n # Len(q) + 1
      <3>1. n \in DOMAIN q /\ p[n] = q[n] /\ n \in 1 .. Len(q) + 1
        BY <1>3, <2>2
      <3>2. EndsAt(q, k, s, n, q[n].from) /\ q[n].from + q[n].len <= t
        BY <1>2, <1>4, <3>1
      <3>3. EndsAt(p, k, s, n, q[n].from)
        BY <1>1, <3>1, <3>2, PushedBefore
      <3> QED
        BY <3>1, <3>2, <3>3
    <2> QED
      BY <2>1, <2>2
  <1>5. EndsAt(p, k, s, Len(q) + 2, t)
    <2>1. t = e.from + e.len
      BY <1>1, <1>2
    <2> QED
      BY <1>1, <2>1, PushedEnd
  <1>6. EndsAt(p, k, s, Len(p) + 1, t)
    <2>1. Len(p) + 1 = Len(q) + 2
      BY <1>3
    <2> QED
      BY <1>5, <2>1
  <1>7. At("top").pc = "top"
    BY DEF At
  <1> HIDE DEF p
  <1>8. Piped(p, k, s, t, At("top"))
    BY <1>2, <1>4, <1>6, <1>7 DEF Piped
  <1> QED
    BY <1>8 DEF p, e

\* ... and from the other one.
LEMMA PipePushOther ==
    ASSUME NEW q \in Seq(ChunkType), NEW k \in Kinds, NEW s \in Nat, NEW t \in Nat,
           NEW r \in ReaderType, Piped(q, k, s, t, r), NEW e \in ChunkType, e.kind # k
    PROVE  Piped(Append(q, e), k, s, t, r)
  <1> DEFINE p == Append(q, e)
  <1>1. /\ p \in Seq(ChunkType) /\ DOMAIN p = 1 .. Len(q) + 1 /\ Len(q) \in Nat
        /\ Len(p) = Len(q) + 1 /\ DOMAIN q = 1 .. Len(q) /\ Len(p) + 1 = Len(q) + 2
        /\ \A i \in DOMAIN p : p[i] = IF i = Len(q) + 1 THEN e ELSE q[i]
    BY AppendFacts
  <1>2. ASSUME NEW n \in DOMAIN p, p[n].kind = k
        PROVE  EndsAt(p, k, s, n, p[n].from) /\ p[n].from + p[n].len <= t
    <2>1. n \in DOMAIN q /\ p[n] = q[n] /\ n \in 1 .. Len(q) + 1
      BY <1>1, <1>2
    <2>2. EndsAt(q, k, s, n, q[n].from) /\ q[n].from + q[n].len <= t
      BY <1>2, <2>1 DEF Piped
    <2>3. EndsAt(p, k, s, n, q[n].from)
      BY <2>1, <2>2, PushedBefore
    <2> QED
      BY <2>1, <2>2, <2>3
  <1>3. ASSUME NEW x, EndsAt(q, k, s, Len(q) + 1, x) PROVE EndsAt(p, k, s, Len(p) + 1, x)
    <2>1. EndsAt(p, k, s, Len(q) + 2, x)
      BY <1>3, PushedEnd
    <2> QED
      BY <1>1, <2>1
  <1> HIDE DEF p
  <1>4. Piped(p, k, s, t, r)
    BY <1>2, <1>3 DEF Piped
  <1> QED
    BY <1>4 DEF p

\* PopChunk and the write that follows: the chunk starts where the shown output ends.
LEMMA PipePop ==
    ASSUME NEW q \in Seq(ChunkType), q # <<>>, NEW k \in Kinds, NEW s \in Nat, NEW t \in Nat,
           NEW r \in ReaderType, Piped(q, k, s, t, r)
    PROVE  Piped(Tail(q), k, IF q[1].kind = k THEN s + q[1].len ELSE s, t, r)
  <1> DEFINE p == Tail(q)
             u == IF q[1].kind = k THEN s + q[1].len ELSE s
  <1>1. /\ p \in Seq(ChunkType) /\ DOMAIN p = 1 .. Len(q) - 1 /\ Len(q) \in Nat \ {0}
        /\ DOMAIN q = 1 .. Len(q) /\ Len(p) + 1 = Len(q)
        /\ \A j \in 1 .. Len(q) - 1 : p[j] = q[j + 1]
    BY HeadDropped
  <1>2. q[1] \in ChunkType /\ q[1].from \in Nat /\ q[1].len \in Nat
    <2>1. q[1] \in ChunkType
      BY <1>1
    <2> QED
      BY <2>1 DEF ChunkType
  <1>3. q[1].kind = k => q[1].from = s
    <2> SUFFICES ASSUME q[1].kind = k PROVE q[1].from = s
      OBVIOUS
    <2>1. EndsAt(q, k, s, 1, q[1].from)
      BY <1>1 DEF Piped
    <2>2. {j \in DOMAIN q : j < 1 /\ q[j].kind = k} = {}
      BY <1>1
    <2> QED
      BY <2>1, <2>2 DEF EndsAt
  <1>4. u = IF q[1].kind = k THEN q[1].from + q[1].len ELSE s
    BY <1>3
  <1>5. u <= t
    BY <1>1, <1>4 DEF Piped
  <1>6. ASSUME NEW n \in 1 .. Len(q), NEW x, EndsAt(q, k, s, n + 1, x)
        PROVE  EndsAt(p, k, u, n, x)
    BY <1>4, <1>6, PoppedEnd
  <1> HIDE DEF p, u
  <1>7. ASSUME NEW n \in DOMAIN p, p[n].kind = k
        PROVE  EndsAt(p, k, u, n, p[n].from) /\ p[n].from + p[n].len <= t
    <2>1. n \in 1 .. Len(q) /\ n + 1 \in DOMAIN q /\ p[n] = q[n + 1]
      BY <1>1
    <2>2. EndsAt(q, k, s, n + 1, q[n + 1].from) /\ q[n + 1].from + q[n + 1].len <= t
      BY <1>7, <2>1 DEF Piped
    <2>3. EndsAt(p, k, u, n, q[n + 1].from)
      BY <1>6, <2>1, <2>2
    <2> QED
      BY <2>1, <2>2, <2>3
  <1>8. ASSUME NEW x, EndsAt(q, k, s, Len(q) + 1, x) PROVE EndsAt(p, k, u, Len(p) + 1, x)
    BY <1>1, <1>6, <1>8
  <1>9. Piped(p, k, u, t, r)
    BY <1>5, <1>7, <1>8 DEF Piped
  <1> QED
    BY <1>9 DEF p, u

LEMMA PipeTypes ==
    ASSUME IInv
    PROVE  /\ chunks \in [Ids -> Seq(ChunkType)] /\ shown \in [Ids -> [Kinds -> Nat]]
           /\ total \in [Ids -> [Kinds -> Nat]] /\ taken \in [Ids -> [Kinds -> Nat]]
           /\ reader \in [Ids -> [Kinds -> ReaderType]]
           /\ child \in [Ids -> {"none", "running", "doomed", "exited"}]
  BY DEF IInv, TypeOK

\* The steps that touch none of the output.
LEMMA PipeUntouched ==
    ASSUME IInv, PipeInv, [Next]_vars, ~js_spawn,
           UNCHANGED <<chunks, shown, total, taken, reader>>
    PROVE  PipeInv'
  <1>1. \A id \in Ids : child'[id] = "none" => child[id] = "none"
    BY ChildMoves
  <1> QED
    BY <1>1 DEF PipeInv

\* Only the pipe of one reader changes.
LEMMA PipeReader ==
    ASSUME IInv, PipeInv, NEW i \in Ids, NEW j \in Kinds, NEW r, NEW t \in Nat, NEW u \in Nat,
           UNCHANGED <<child, chunks, shown>>,
           reader' = [reader EXCEPT ![i][j] = r],
           total' = [total EXCEPT ![i][j] = t], taken' = [taken EXCEPT ![i][j] = u],
           Piped(chunks[i], j, shown[i][j], t, r), t <= u
    PROVE  PipeInv'
  <1>1. ASSUME NEW id \in Ids, NEW k \in Kinds
        PROVE  /\ Piped(chunks[id], k, shown[id][k], total'[id][k], reader'[id][k])
               /\ total'[id][k] <= taken'[id][k]
    <2>1. /\ reader'[id][k] = IF id = i /\ k = j THEN r ELSE reader[id][k]
          /\ total'[id][k] = IF id = i /\ k = j THEN t ELSE total[id][k]
          /\ taken'[id][k] = IF id = i /\ k = j THEN u ELSE taken[id][k]
      BY PipeTypes, UpdatedEntry
    <2>2. CASE id = i /\ k = j
      BY <2>1, <2>2
    <2>3. CASE ~(id = i /\ k = j)
      BY <2>1, <2>3 DEF PipeInv
    <2> QED
      BY <2>2, <2>3
  <1> QED
    BY <1>1 DEF PipeInv

LEMMA PipeStart ==
    ASSUME IInv, RInv, PipeInv, js_spawn PROVE PipeInv'
  <1> DEFINE g == g_next_id
  <1>1. /\ g \in Ids /\ child[g] = "none" /\ child' = [child EXCEPT ![g] = "running"]
        /\ UNCHANGED <<total, chunks, taken, shown>>
    BY StartFrame DEF js_spawn
  <1>2. PICK o \in Options :
          reader' = [reader EXCEPT ![g] =
                        [k \in Kinds |-> At(IF k \in o.streams THEN "top" ELSE "none")]]
    BY DEF js_spawn
  <1> HIDE DEF g
  <1>3. \A id \in Ids : id # g => reader'[id] = reader[id] /\ child'[id] = child[id]
    BY <1>1, <1>2, PipeTypes
  <1>4. child'[g] = "running"
    BY <1>1, PipeTypes
  <1>5. \A k \in Kinds : reader'[g][k].pc \in {"top", "none"}
    BY <1>1, <1>2, PipeTypes DEF At
  <1>6. ASSUME NEW k \in Kinds PROVE Piped(chunks[g], k, shown[g][k], total[g][k], reader'[g][k])
    <2>1. chunks[g] = <<>> /\ shown[g][k] = 0 /\ total[g][k] = 0
      BY <1>1 DEF PipeInv, RInv, Charged
    <2>2. DOMAIN chunks[g] = {} /\ Len(chunks[g]) = 0
      BY <2>1
    <2>3. EndsAt(chunks[g], k, 0, Len(chunks[g]) + 1, 0)
      BY <2>2 DEF EndsAt
    <2>4. reader'[g][k].pc # "push"
      BY <1>5
    <2> QED
      BY <2>1, <2>2, <2>3, <2>4 DEF Piped
  <1>7. ASSUME NEW id \in Ids, NEW k \in Kinds
        PROVE  /\ Piped(chunks[id], k, shown[id][k], total[id][k], reader'[id][k])
               /\ total[id][k] <= taken[id][k]
               /\ child'[id] = "none" => shown[id][k] = 0
               /\ child'[id] = "none" => chunks[id] = <<>>
    <2>1. CASE id = g
      BY <1>4, <1>6, <2>1 DEF PipeInv
    <2>2. CASE id # g
      BY <1>3, <2>2 DEF PipeInv
    <2> QED
      BY <2>1, <2>2
  <1> QED
    BY <1>1, <1>7 DEF PipeInv

\* The queue of one process changes, and of each of its pipes what is shown and who reads.
LEMMA PipeQueue ==
    ASSUME IInv, PipeInv, NEW i \in Ids, NEW q, child[i] # "none",
           UNCHANGED <<child, total, taken>>, chunks' = [chunks EXCEPT ![i] = q],
           \A id \in Ids : id # i => reader'[id] = reader[id] /\ shown'[id] = shown[id],
           \A k \in Kinds : Piped(q, k, shown'[i][k], total[i][k], reader'[i][k])
    PROVE  PipeInv'
  <1>1. \A id \in Ids : chunks'[id] = IF id = i THEN q ELSE chunks[id]
    BY PipeTypes
  <1>2. ASSUME NEW id \in Ids, NEW k \in Kinds
        PROVE  /\ Piped(chunks'[id], k, shown'[id][k], total[id][k], reader'[id][k])
               /\ total[id][k] <= taken[id][k]
               /\ child[id] = "none" => shown'[id][k] = 0
               /\ child[id] = "none" => chunks'[id] = <<>>
    <2>1. CASE id = i
      BY <1>1, <2>1 DEF PipeInv
    <2>2. CASE id # i
      BY <1>1, <2>2 DEF PipeInv
    <2> QED
      BY <2>1, <2>2
  <1> QED
    BY <1>2 DEF PipeInv

LEMMA PipeStep ==
    ASSUME IInv, RInv, PipeInv, [Next]_vars PROVE PipeInv'
  <1>t. /\ \A id \in Ids : chunks[id] \in Seq(ChunkType)
        /\ \A id \in Ids, k \in Kinds :
              /\ shown[id][k] \in Nat /\ total[id][k] \in Nat /\ taken[id][k] \in Nat
              /\ reader[id][k] \in ReaderType
    BY PipeTypes
  <1>1. CASE js_spawn
    BY <1>1, PipeStart
  <1>2. ASSUME NEW i \in Ids, NEW j \in Kinds, ReaderProbe(i, j) \/ ReaderIdle(i, j)
        PROVE  PipeInv'
    <2>1. PICK pc \in {"top", "idle", "read", "done"} :
            /\ reader' = [reader EXCEPT ![i][j] = At(pc)]
            /\ reader[i][j].pc \in {"top", "idle"}
            /\ UNCHANGED <<child, chunks, shown, total, taken>>
      BY <1>2 DEF ReaderProbe, ReaderIdle, outputVars, osVars, pipeVars
    <2>2. total' = [total EXCEPT ![i][j] = total[i][j]]
          /\ taken' = [taken EXCEPT ![i][j] = taken[i][j]]
      BY <2>1, PipeTypes
    <2>3. At(pc).pc = pc
      BY DEF At
    <2>4. Piped(chunks[i], j, shown[i][j], total[i][j], At(pc))
      BY <2>1, <2>3 DEF PipeInv, Piped
    <2> QED
      BY <1>t, <2>1, <2>2, <2>4, PipeReader DEF PipeInv
  <1>3. ASSUME NEW i \in Ids, NEW j \in Kinds, ReaderRead(i, j) PROVE PipeInv'
    <2> DEFINE n == ReadLen(i, j)
               a == Allowed(i, j, n)
               t == total[i][j]
               u == taken[i][j]
               r == IF a > 0 THEN [pc |-> "push", from |-> u, len |-> a] ELSE At("top")
    <2>1. /\ reader[i][j].pc = "read" /\ UNCHANGED <<child, chunks, shown>>
          /\ reader' = [reader EXCEPT ![i][j] = r]
          /\ total' = [total EXCEPT ![i][j] = t + a]
          /\ taken' = [taken EXCEPT ![i][j] = u + n]
      BY <1>3 DEF ReaderRead, hostVars, osVars
    <2>2. n \in Nat /\ a \in Nat /\ a <= n /\ (a > 0 => t = u)
      <3>1. u <= wrote[i][j] /\ wrote[i][j] \in Nat /\ opts[i].limit \in Nat
        BY DEF IInv, TypeOK, OptionType
      <3>2. n \in Nat
        BY <1>t, <3>1, SpawnAssumption DEF ReadLen, Smaller, Pending
      <3>3. a = IF opts[i].limit = 0 THEN n
                ELSE IF truncated[i][j] \/ t >= opts[i].limit THEN 0
                ELSE Smaller(n, opts[i].limit - t)
        BY DEF Allowed
      <3>4. a \in Nat /\ a <= n
        <4> HIDE DEF n, a
        <4>1. CASE opts[i].limit = 0
          BY <3>2, <3>3, <4>1
        <4>2. CASE opts[i].limit # 0 /\ (truncated[i][j] \/ t >= opts[i].limit)
          BY <3>2, <3>3, <4>2
        <4>3. CASE opts[i].limit # 0 /\ ~(truncated[i][j] \/ t >= opts[i].limit)
          BY <1>t, <3>1, <3>2, <3>3, <4>3 DEF Smaller
        <4> QED
          BY <4>1, <4>2, <4>3
      <3>5. t <= u
        BY DEF PipeInv
      <3>6. /\ u > t => truncated[i][j]
            /\ truncated[i][j] => opts[i].limit > 0
        BY DEF RInv, DropIsMarked
      <3>7. a > 0 => ~truncated[i][j]
        <4> HIDE DEF n, a
        <4> QED
          BY <3>1, <3>3, <3>6
      <3>8. a > 0 => ~(u > t)
        BY <3>6, <3>7
      <3> HIDE DEF n, a
      <3> QED
        BY <1>t, <3>2, <3>4, <3>5, <3>8
    <2> HIDE DEF n, a
    <2>3. Piped(chunks[i], j, shown[i][j], t, reader[i][j]) /\ t <= u
      BY DEF PipeInv
    <2>4. /\ shown[i][j] <= t /\ t <= t + a
          /\ \A x \in DOMAIN chunks[i] : chunks[i][x].kind = j =>
                /\ EndsAt(chunks[i], j, shown[i][j], x, chunks[i][x].from)
                /\ chunks[i][x].from + chunks[i][x].len <= t
          /\ EndsAt(chunks[i], j, shown[i][j], Len(chunks[i]) + 1, t)
      BY <1>t, <2>1, <2>2, <2>3 DEF Piped
    <2>5. \A x \in DOMAIN chunks[i] : chunks[i][x].kind = j =>
                chunks[i][x].from + chunks[i][x].len <= t + a
      <3> SUFFICES ASSUME NEW x \in DOMAIN chunks[i], chunks[i][x].kind = j
                   PROVE  chunks[i][x].from + chunks[i][x].len <= t + a
        OBVIOUS
      <3>1. chunks[i][x] \in ChunkType
        BY <1>t
      <3>2. chunks[i][x].from \in Nat /\ chunks[i][x].len \in Nat
        BY <3>1 DEF ChunkType
      <3> QED
        BY <1>t, <2>2, <2>4, <3>2
    <2>6. Piped(chunks[i], j, shown[i][j], t + a, r)
      <3>1. CASE a > 0
        <4>1. r.pc = "push" /\ r.from = t /\ r.len = a
          BY <2>2, <3>1
        <4>2. shown[i][j] <= t + a
          BY <1>t, <2>2, <2>4
        <4> HIDE DEF r
        <4> QED
          BY <2>4, <2>5, <4>1, <4>2 DEF Piped
      <3>2. CASE ~(a > 0)
        <4>1. t + a = t
          BY <1>t, <2>2, <3>2
        <4>2. r.pc = "top"
          BY <3>2 DEF At
        <4> HIDE DEF r, t
        <4> QED
          BY <2>4, <4>1, <4>2 DEF Piped
      <3> QED
        BY <3>1, <3>2
    <2>7. t + a \in Nat /\ u + n \in Nat /\ t + a <= u + n
      BY <1>t, <2>2, <2>3
    <2> HIDE DEF r, t, u
    <2> QED
      BY <2>1, <2>6, <2>7, PipeReader
  <1>4. ASSUME NEW i \in Ids, NEW j \in Kinds, ReaderPush(i, j) PROVE PipeInv'
    <2> DEFINE e == [kind |-> j, from |-> reader[i][j].from, len |-> reader[i][j].len]
    <2>1. /\ reader[i][j].pc = "push" /\ UNCHANGED <<child, shown, total, taken>>
          /\ chunks' = [chunks EXCEPT ![i] = Append(chunks[i], e)]
          /\ reader' = [reader EXCEPT ![i][j] = At("top")]
      BY <1>4 DEF ReaderPush, osVars, pipeVars
    <2>2. child[i] # "none"
      <3>1. i \in Listed
        BY <2>1 DEF RInv, UnlistedIsGone, Live
      <3> QED
        BY <3>1, ListedFacts
    <2>3. ASSUME NEW id \in Ids, NEW k \in Kinds
          PROVE  reader'[id][k] = IF id = i /\ k = j THEN At("top") ELSE reader[id][k]
      BY <2>1, PipeTypes, UpdatedEntry
    <2>4. \A id \in Ids : id # i => reader'[id] = reader[id] /\ shown'[id] = shown[id]
      BY <2>1, PipeTypes
    <2>5. e \in ChunkType /\ e.kind = j
      BY <1>t DEF ChunkType, ReaderType
    <2>6. Piped(Append(chunks[i], e), j, shown[i][j], total[i][j], At("top"))
      BY <1>t, <2>1, PipePush DEF PipeInv
    <2> HIDE DEF e
    <2>7. ASSUME NEW k \in Kinds
          PROVE  Piped(Append(chunks[i], e), k, shown'[i][k], total[i][k], reader'[i][k])
      <3>1. CASE k = j
        BY <2>1, <2>3, <2>6, <3>1
      <3>2. CASE k # j
        <4>1. reader'[i][k] = reader[i][k] /\ shown'[i][k] = shown[i][k]
          BY <2>1, <2>3, <3>2
        <4>2. Piped(chunks[i], k, shown[i][k], total[i][k], reader[i][k])
          BY DEF PipeInv
        <4>3. Piped(Append(chunks[i], e), k, shown[i][k], total[i][k], reader[i][k])
          BY <1>t, <2>5, <3>2, <4>2, PipePushOther
        <4> QED
          BY <4>1, <4>3
      <3> QED
        BY <3>1, <3>2
    <2> QED
      BY <2>1, <2>2, <2>4, <2>7, PipeQueue
  <1>5. CASE JoinErr
    <2>1. PICK i \in Ids : i = main.cur
      BY <1>5, RemoveFrame DEF RInv
    <2>2. /\ i \in Listed /\ chunks' = [chunks EXCEPT ![i] = <<>>]
          /\ UNCHANGED <<total, taken, reader, child, shown>> /\ main.pc = "joinErr"
      BY <1>5, <2>1, RemoveFrame DEF RInv, JoinErr
    <2>3. ~Live(i, "out") /\ ~Live(i, "err")
      BY <1>5, <2>1, <2>2 DEF RInv, OutJoined, JoinErr, Joined
    <2>4. ASSUME NEW k \in Kinds PROVE Piped(<<>>, k, shown[i][k], total[i][k], reader[i][k])
      <3>1. reader[i][k].pc \notin {"top", "idle", "read", "push"}
        BY <2>3 DEF Live, Kinds
      <3>2. shown[i][k] <= total[i][k]
        BY DEF PipeInv, Piped
      <3> QED
        BY <3>1, <3>2 DEF Piped
    <2>5. child[i] # "none"
      BY <2>2, ListedFacts
    <2> QED
      BY <2>2, <2>4, <2>5, PipeQueue
  <1>6. CASE PollDrain
    <2>1. main.pc = "drain" /\ main.cur \in Listed
      BY <1>6 DEF PollDrain, RInv, Current
    <2>2. PICK i \in Ids : i = main.cur
      BY <2>1, ListedFacts
    <2> DEFINE h == chunks[i][1]
    <2>3. chunks[i] # <<>> /\ Head(chunks[i]) = h /\ h \in ChunkType
      <3>1. chunks[i] # <<>>
        BY <1>6, <2>2 DEF PollDrain
      <3>2. 1 \in DOMAIN chunks[i] /\ Head(chunks[i]) = chunks[i][1]
        BY <1>t, <3>1, HeadDropped
      <3>3. chunks[i][1] \in ChunkType
        BY <1>t, <3>2
      <3> QED
        BY <3>1, <3>2, <3>3
    <2>4. /\ chunks' = [chunks EXCEPT ![i] = Tail(chunks[i])]
          /\ shown' = [shown EXCEPT ![i][h.kind] = shown[i][h.kind] + h.len]
          /\ UNCHANGED <<total, taken, reader, child>>
      BY <1>6, <2>2, <2>3 DEF PollDrain, PopChunk, WriteBytes, threadVars, pipeVars, osVars
    <2>5. h.kind \in Kinds
      BY <2>3 DEF ChunkType
    <2>6. \A id \in Ids : id # i => shown'[id] = shown[id]
      BY <2>4, PipeTypes
    <2>7. ASSUME NEW k \in Kinds
          PROVE  Piped(Tail(chunks[i]), k, shown'[i][k], total[i][k], reader[i][k])
      <3>1. shown'[i][k] = IF k = h.kind THEN shown[i][h.kind] + h.len ELSE shown[i][k]
        BY <2>4, <2>5, PipeTypes, UpdatedEntry
      <3>2. shown'[i][k] = IF h.kind = k THEN shown[i][k] + h.len ELSE shown[i][k]
        BY <3>1
      <3>3. Piped(chunks[i], k, shown[i][k], total[i][k], reader[i][k])
        BY DEF PipeInv
      <3>4. Piped(Tail(chunks[i]), k, IF h.kind = k THEN shown[i][k] + h.len ELSE shown[i][k],
                  total[i][k], reader[i][k])
        BY <1>t, <2>3, <3>3, PipePop
      <3> QED
        BY <3>2, <3>4
    <2>8. child[i] # "none"
      BY <2>1, <2>2, ListedFacts
    <2> QED
      BY <2>4, <2>6, <2>7, <2>8, PipeQueue
  <1>7. CASE \/ \E id \in Ids, k \in Kinds : ChildWrite(id, k)
             \/ \E id \in Ids : ChildForks(id) \/ ChildExit(id) \/ DeadlinePasses(id)
             \/ CtrlHandler \/ UNCHANGED vars
    <2>1. UNCHANGED <<chunks, shown, total, taken, reader>> /\ ~js_spawn
      BY <1>7 DEF ChildWrite, ChildForks, ChildExit, DeadlinePasses, CtrlHandler, vars,
             outputVars, pipeVars, threadVars, hostVars, js_spawn
    <2> QED
      BY <2>1, PipeUntouched
  <1>8. CASE /\ ~js_spawn
             /\ \/ \E id \in Ids, sig \in Signals : js_kill(id, sig)
                \/ \E c \in Contexts, id \in Ids : js_wait_async(c, id) \/ js_wait(c, id)
                \/ \E c \in Contexts : SpawnPoll(c)
                \/ AssignJob \/ JoinOut \/ PollTimeout \/ PollDrained \/ PollReap \/ PollNext
                \/ PollReturn \/ WaitExited \/ WaitPoll \/ WaitStale
                \/ SpawnCheck \/ SpawnRefused
    <2>1. UNCHANGED <<chunks, shown, total, taken, reader>>
      BY <1>8 DEF js_kill, js_wait_async, js_wait, SpawnPoll, AssignJob, JoinOut, PollTimeout,
             PollDrained, PollReap, PollNext, PollReturn, WaitExited, WaitPoll, WaitStale,
             SpawnCheck, SpawnRefused, outputVars, pipeVars, threadVars
    <2> QED
      BY <1>8, <2>1, PipeUntouched
  <1> QED
    BY <1>1, <1>2, <1>3, <1>4, <1>5, <1>6, <1>7, <1>8
       DEF Next, Script, ScriptEnds, Native, Reader, OS

\* In every behaviour the output follows without a gap.
THEOREM PipeInvariant == Spec => []PipeInv
  <1>1. Init => PipeInv
    <2> SUFFICES ASSUME Init PROVE PipeInv
      OBVIOUS
    <2>1. ASSUME NEW id \in Ids, NEW k \in Kinds
          PROVE  /\ chunks[id] = <<>> /\ shown[id][k] = 0 /\ total[id][k] = 0
                 /\ taken[id][k] = 0 /\ reader[id][k].pc = "none"
      BY DEF Init, At
    <2>2. \A id \in Ids : chunks[id] = <<>>
      BY DEF Init
    <2>3. ASSUME NEW id \in Ids, NEW k \in Kinds
          PROVE  Piped(chunks[id], k, shown[id][k], total[id][k], reader[id][k])
      <3>1. DOMAIN chunks[id] = {}
        BY <2>1
      <3> QED
        BY <2>1, <3>1 DEF Piped
    <2> QED
      BY <2>1, <2>2, <2>3 DEF PipeInv
  <1>2. IInv /\ RInv /\ PipeInv /\ [Next]_vars => PipeInv'
    BY PipeStep
  <1> QED
    BY <1>1, <1>2, Invariant, RecordInvariant, PTL DEF Spec

\* A reader charges the limit in one critical section and pushes the chunk in another,
\* and polls show chunks in between: what is shown is still a prefix of what the child
\* wrote, what is queued goes on from there, and nothing passes the limit.
THEOREM OutputIsKept == Spec => []OutputKept
  <1>1. ASSUME IInv, RInv, PipeInv PROVE OutputKept
    <2>1. OutputIsPrefix
      BY <1>1 DEF PipeInv, Piped, OutputIsPrefix
    <2>2. OutputWithinLimit
      <3> SUFFICES ASSUME NEW id \in Ids, NEW k \in Kinds, opts[id].limit > 0
                   PROVE  /\ shown[id][k] <= opts[id].limit
                          /\ \A n \in DOMAIN chunks[id] :
                                chunks[id][n].kind = k =>
                                    chunks[id][n].from + chunks[id][n].len <= opts[id].limit
                          /\ reader[id][k].pc = "push" =>
                                reader[id][k].from + reader[id][k].len <= opts[id].limit
        BY DEF OutputWithinLimit
      <3>1. /\ total[id][k] \in Nat /\ shown[id][k] \in Nat /\ opts[id].limit \in Nat
            /\ chunks[id] \in Seq(ChunkType) /\ reader[id][k] \in ReaderType
        BY <1>1 DEF IInv, TypeOK, OptionType
      <3>2. total[id][k] <= opts[id].limit
        BY <1>1 DEF RInv, Charged
      <3>3. /\ shown[id][k] <= total[id][k]
            /\ \A n \in DOMAIN chunks[id] :
                  chunks[id][n].kind = k => chunks[id][n].from + chunks[id][n].len <= total[id][k]
            /\ reader[id][k].pc = "push" =>
                  reader[id][k].from + reader[id][k].len = total[id][k]
        BY <1>1 DEF PipeInv, Piped
      <3>4. \A n \in DOMAIN chunks[id] : chunks[id][n].from + chunks[id][n].len \in Nat
        <4> SUFFICES ASSUME NEW n \in DOMAIN chunks[id]
                     PROVE  chunks[id][n].from + chunks[id][n].len \in Nat
          OBVIOUS
        <4>1. chunks[id][n] \in ChunkType
          BY <3>1
        <4> QED
          BY <4>1 DEF ChunkType
      <3> QED
        BY <3>1, <3>2, <3>3, <3>4
    <2> QED
      BY <2>1, <2>2 DEF OutputKept
  <1>2. IInv /\ RInv /\ PipeInv => OutputKept
    BY <1>1
  <1> QED
    BY <1>2, Invariant, RecordInvariant, PipeInvariant, PTL
=============================================================================
