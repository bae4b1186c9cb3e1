-------------------------- MODULE SpawnShimProofs --------------------------
(***************************************************************************)
(* Proofs about SpawnShim for every number of processes, every limit, pipe *)
(* size, set of options and set of programs.                               *)
(***************************************************************************)
EXTENDS SpawnShim, DataLemmas, TLAPS

\* Where the JS thread is in a native call determines what its locals hold.
Locals ==
    /\ main.pc \in {"assign", "drain", "exitq", "joinOut", "joinErr"} =>
           main.cur \in Ids
    /\ main.pc = "waiting" => main.held \in Ids
    /\ main.pc \in {"js", "assign"} => main.idx = 0 /\ main.held = NoId

\* Removal forgets a process only after it has ended; until then the list has it.
ListKeepsAlive ==
    /\ \A i, j \in DOMAIN g_procs : g_procs[i] = g_procs[j] => i = j
    /\ \A i \in DOMAIN g_procs : g_procs[i] < g_next_id
    /\ \A id \in Ids : child[id] = "none" <=> id >= g_next_id
    /\ \A id \in Ids : child[id] \in {"running", "doomed"} => id \in Listed
    /\ main.pc \in {"joinOut", "joinErr"} => Exited(main.cur)

\* The records, and those the calls under way may still add.
ListWithinLimit == MaxConcurrent > 0 => Len(g_procs) + spawning <= SpawnLimit

\* The inductive invariant.
IInv == TypeOK /\ PollCursor /\ Locals /\ ListKeepsAlive /\ ListWithinLimit

\* Updating one entry of a function of functions.
LEMMA UpdateAt ==
    ASSUME NEW S, NEW f \in [Ids -> [Kinds -> S]], NEW id \in Ids, NEW k \in Kinds,
           NEW v \in S
    PROVE  [f EXCEPT ![id][k] = v] \in [Ids -> [Kinds -> S]]
  OBVIOUS

LEMMA UpdatedEntry ==
    ASSUME NEW S, NEW f \in [Ids -> [Kinds -> S]], NEW id \in Ids, NEW k \in Kinds,
           NEW v, NEW i \in Ids, NEW j \in Kinds
    PROVE  [f EXCEPT ![id][k] = v][i][j] =
               IF i = id /\ j = k THEN v ELSE f[i][j]
  <1>1. CASE i = id /\ j = k
    BY <1>1
  <1>2. CASE i # id
    BY <1>2
  <1>3. CASE i = id /\ j # k
    BY <1>3
  <1> QED
    BY <1>1, <1>2, <1>3

LEMMA InitIInv == Init => IInv
  <1> USE SpawnAssumption DEF Init, InJs, At, NoReport, NoId, Ids
  <1> SUFFICES ASSUME Init PROVE IInv
    OBVIOUS
  <1>1. TypeOK
    <2>1. /\ g_procs \in Seq(Ids)
          /\ g_next_id \in 1 .. MaxSpawns + 1
          /\ spawning \in 0 .. MaxNesting
          /\ opts \in [Ids -> OptionType]
          /\ program \in [Ids -> ProgramType]
      BY DEF OptionType, ProgramType
    <2>2. /\ job \in [Ids -> BOOLEAN]
          /\ timedOut \in [Ids -> BOOLEAN]
          /\ killed \in [Ids -> BOOLEAN]
          /\ total \in [Ids -> [Kinds -> Nat]]
          /\ truncated \in [Ids -> [Kinds -> BOOLEAN]]
          /\ chunks \in [Ids -> Seq(ChunkType)]
          /\ quit \in [Ids -> [Kinds -> BOOLEAN]]
      OBVIOUS
    <2>3. /\ waiter \in [Ids -> Contexts \union {NoContext}]
          /\ child \in [Ids -> {"none", "running", "doomed", "exited"}]
          /\ deadline \in [Ids -> {"none", "ahead", "passed", "overran"}]
          /\ kid \in [Ids -> {"none", "inJob", "outside", "gone"}]
          /\ promise \in [Ids -> [Contexts ->
                              {"none", "pending", "settled", "dropped"}]]
          /\ audited \in [Ids -> Nat]
      OBVIOUS
    <2>4. /\ wrote \in [Ids -> [Kinds -> Nat]]
          /\ taken \in [Ids -> [Kinds -> Nat]]
          /\ shown \in [Ids -> [Kinds -> Nat]]
          /\ \A id \in Ids, k \in Kinds : taken[id][k] <= wrote[id][k]
      OBVIOUS
    <2>5. reader \in [Ids -> [Kinds -> ReaderType]] /\ report \in [Ids -> ReportType]
      BY DEF ReaderType, ReportType
    <2>6. main \in MainType
      BY DEF MainType
    <2> QED
      BY <2>1, <2>2, <2>3, <2>4, <2>5, <2>6 DEF TypeOK
  <1>2. PollCursor /\ Locals /\ ListWithinLimit
    BY DEF PollCursor, Locals, ListWithinLimit, SpawnLimit
  <1>3. ListKeepsAlive
    BY DEF ListKeepsAlive
  <1> QED
    BY <1>1, <1>2, <1>3 DEF IInv

\* The types, step by step: in every action only the named parts are disturbed.
LEMMA TypeStep ==
    ASSUME TypeOK, PollCursor, Locals, [Next]_vars PROVE TypeOK'
  <1> USE SpawnAssumption DEF vars, hostVars, flagVars, outputVars, threadVars,
          pipeVars, osVars, jsVars, NoId
  <1>0. /\ Len(g_procs) \in Nat
        /\ \A i \in 1 .. Len(g_procs) : g_procs[i] \in Ids
        /\ Listed \subseteq Ids
    BY DEF TypeOK, Listed, Range
  <1>1. ASSUME NEW id \in Ids, NEW k \in Kinds, ChildWrite(id, k) PROVE TypeOK'
    <2> DEFINE v == wrote[id][k] + 1
    <2>1. v \in Nat /\ wrote[id][k] <= v
      BY DEF TypeOK
    <2>2. wrote' = [wrote EXCEPT ![id][k] = v]
      BY <1>1 DEF ChildWrite
    <2> HIDE DEF v
    <2>3. wrote' \in [Ids -> [Kinds -> Nat]]
      BY <2>1, <2>2, UpdateAt DEF TypeOK
    <2>4. ASSUME NEW i \in Ids, NEW j \in Kinds PROVE taken'[i][j] <= wrote'[i][j]
      <3>1. wrote'[i][j] = IF i = id /\ j = k THEN v ELSE wrote[i][j]
        <4>1. wrote \in [Ids -> [Kinds -> Nat]]
          BY DEF TypeOK
        <4> QED
          BY <2>2, <4>1, UpdatedEntry
      <3>2. /\ taken'[i][j] \in Nat /\ wrote[i][j] \in Nat
            /\ taken'[i][j] <= wrote[i][j]
        BY <1>1 DEF TypeOK, ChildWrite
      <3> QED
        BY <2>1, <3>1, <3>2
    <2> QED
      BY <1>1, <2>3, <2>4 DEF TypeOK, ChildWrite
  <1>2. ASSUME NEW id \in Ids, ChildForks(id) PROVE TypeOK'
    BY <1>2 DEF TypeOK, ChildForks
  <1>3. ASSUME NEW id \in Ids, ChildExit(id) PROVE TypeOK'
    BY <1>3 DEF TypeOK, ChildExit
  <1>4. ASSUME NEW id \in Ids, DeadlinePasses(id) PROVE TypeOK'
    BY <1>4 DEF TypeOK, DeadlinePasses
  <1>5. ASSUME CtrlHandler PROVE TypeOK'
    <2>1. child' \in [Ids -> {"none", "running", "doomed", "exited"}]
      BY <1>5 DEF TypeOK, CtrlHandler
    <2> QED
      BY <1>5, <2>1 DEF TypeOK, CtrlHandler
  <1>6. ASSUME NEW id \in Ids, NEW k \in Kinds, ReaderProbe(id, k) PROVE TypeOK'
    <2>1. reader' \in [Ids -> [Kinds -> ReaderType]]
      <3> DEFINE v == At(IF quit[id][k] THEN "done"
                         ELSE IF Pending(id, k) > 0 THEN "read" ELSE "idle")
      <3>1. v \in ReaderType
        BY DEF At, ReaderType
      <3> HIDE DEF v
      <3>2. reader' = [reader EXCEPT ![id][k] = v]
        BY <1>6 DEF ReaderProbe, v
      <3> QED
        BY <3>1, <3>2, UpdateAt DEF TypeOK
    <2> QED
      BY <1>6, <2>1 DEF TypeOK, ReaderProbe
  <1>7. ASSUME NEW id \in Ids, NEW k \in Kinds, ReaderIdle(id, k) PROVE TypeOK'
    <2>1. reader' \in [Ids -> [Kinds -> ReaderType]]
      <3> DEFINE v == At(IF Exited(id) THEN "done" ELSE "top")
      <3>1. v \in ReaderType
        BY DEF At, ReaderType
      <3> HIDE DEF v
      <3>2. reader' = [reader EXCEPT ![id][k] = v]
        BY <1>7 DEF ReaderIdle, v
      <3> QED
        BY <3>1, <3>2, UpdateAt DEF TypeOK
    <2> QED
      BY <1>7, <2>1 DEF TypeOK, ReaderIdle
  <1>8. ASSUME NEW id \in Ids, NEW k \in Kinds, ReaderRead(id, k) PROVE TypeOK'
    <2> DEFINE n == ReadLen(id, k)
               a == Allowed(id, k, n)
               v == IF a > 0 THEN [pc |-> "push", from |-> taken[id][k], len |-> a]
                    ELSE At("top")
    <2>1. n \in Nat /\ taken[id][k] + n \in Nat /\ taken[id][k] + n <= wrote[id][k]
      BY DEF TypeOK, ReadLen, Smaller, Pending
    <2>2. a \in Nat /\ total[id][k] + a \in Nat
      BY <2>1 DEF TypeOK, OptionType, Allowed, Smaller
    <2>3. v \in ReaderType
      BY <2>2 DEF At, ReaderType, TypeOK
    <2>4. (truncated[id][k] \/ Cut(a, n)) \in BOOLEAN
      BY DEF TypeOK, Cut
    <2> HIDE DEF n, a, v
    <2>5. /\ taken' = [taken EXCEPT ![id][k] = taken[id][k] + n]
          /\ total' = [total EXCEPT ![id][k] = total[id][k] + a]
          /\ truncated' = [truncated EXCEPT ![id][k] =
                             truncated[id][k] \/ Cut(a, n)]
          /\ reader' = [reader EXCEPT ![id][k] = v]
      BY <1>8 DEF ReaderRead, n, a, v, TypeOK
    <2>6. taken' \in [Ids -> [Kinds -> Nat]]
      BY <2>1, <2>5, UpdateAt DEF TypeOK
    <2>7. total' \in [Ids -> [Kinds -> Nat]]
      BY <2>2, <2>5, UpdateAt DEF TypeOK
    <2>8. truncated' \in [Ids -> [Kinds -> BOOLEAN]]
      BY <2>4, <2>5, UpdateAt DEF TypeOK
    <2>9. reader' \in [Ids -> [Kinds -> ReaderType]]
      BY <2>3, <2>5, UpdateAt DEF TypeOK
    <2>10. ASSUME NEW i \in Ids, NEW j \in Kinds PROVE taken'[i][j] <= wrote'[i][j]
      <3>1. taken'[i][j] = IF i = id /\ j = k THEN taken[id][k] + n ELSE taken[i][j]
        <4>1. taken \in [Ids -> [Kinds -> Nat]]
          BY DEF TypeOK
        <4> QED
          BY <2>5, <4>1, UpdatedEntry
      <3>2. taken[i][j] <= wrote[i][j] /\ wrote'[i][j] = wrote[i][j]
        BY <1>8 DEF TypeOK, ReaderRead
      <3> QED
        BY <2>1, <3>1, <3>2
    <2> QED
      BY <1>8, <2>6, <2>7, <2>8, <2>9, <2>10 DEF TypeOK, ReaderRead
  <1>9. ASSUME NEW id \in Ids, NEW k \in Kinds, ReaderPush(id, k) PROVE TypeOK'
    <2> DEFINE v == At("top")
               ch == [kind |-> k, from |-> reader[id][k].from,
                      len |-> reader[id][k].len]
    <2>1. v \in ReaderType
      BY DEF At, ReaderType
    <2>2. ch \in ChunkType
      BY DEF TypeOK, ReaderType, ChunkType
    <2> HIDE DEF v, ch
    <2>3. /\ reader' = [reader EXCEPT ![id][k] = v]
          /\ chunks' = [chunks EXCEPT ![id] = Append(chunks[id], ch)]
      BY <1>9 DEF ReaderPush, v, ch
    <2>4. reader' \in [Ids -> [Kinds -> ReaderType]]
      BY <2>1, <2>3, UpdateAt DEF TypeOK
    <2>5. chunks' \in [Ids -> Seq(ChunkType)]
      BY <2>2, <2>3 DEF TypeOK
    <2> QED
      BY <1>9, <2>4, <2>5 DEF TypeOK, ReaderPush
  <1>10. ASSUME js_spawn PROVE TypeOK'
    <2> DEFINE id == g_next_id
    <2>1. PICK o \in Options, p \in Programs :
             /\ opts' = [opts EXCEPT ![id] = o]
             /\ program' = [program EXCEPT ![id] = p]
             /\ deadline' = [deadline EXCEPT ![id] =
                               IF o.timed THEN "ahead" ELSE "none"]
             /\ reader' = [reader EXCEPT ![id] =
                             [k \in Kinds |->
                                At(IF k \in o.streams THEN "top" ELSE "none")]]
      BY <1>10 DEF js_spawn
    <2>2. id \in Ids /\ id + 1 \in 1 .. MaxSpawns + 1
      BY <1>10 DEF js_spawn, Ids
    <2>3. [k \in Kinds |-> At(IF k \in o.streams THEN "top" ELSE "none")]
             \in [Kinds -> ReaderType]
      BY DEF At, ReaderType
    <2>4. reader' \in [Ids -> [Kinds -> ReaderType]]
      BY <2>1, <2>3 DEF TypeOK
    <2>5. /\ opts' \in [Ids -> OptionType]
          /\ program' \in [Ids -> ProgramType]
      BY <2>1 DEF TypeOK
    <2>6. deadline' \in [Ids -> {"none", "ahead", "passed", "overran"}]
      BY <2>1 DEF TypeOK
    <2>7. /\ child' \in [Ids -> {"none", "running", "doomed", "exited"}]
          /\ g_procs' \in Seq(Ids)
          /\ g_next_id' \in 1 .. MaxSpawns + 1
          /\ spawning' \in 0 .. MaxNesting
      BY <1>10, <2>2 DEF TypeOK, js_spawn
    <2>8. main' \in MainType
      BY <1>10, <2>2 DEF TypeOK, js_spawn, MainType
    <2> QED
      BY <1>10, <2>4, <2>5, <2>6, <2>7, <2>8 DEF TypeOK, js_spawn
  <1>11. ASSUME AssignJob PROVE TypeOK'
    <2>1. main' \in MainType
      BY <1>11 DEF AssignJob, InJs, MainType
    <2>2. job' \in [Ids -> BOOLEAN]
      BY <1>11 DEF TypeOK, AssignJob, JobAssigned
    <2> QED
      BY <1>11, <2>1, <2>2 DEF TypeOK, AssignJob
  <1>12. ASSUME NEW id \in Ids, NEW sig \in Signals, js_kill(id, sig) PROVE TypeOK'
    <2>1. child' \in [Ids -> {"none", "running", "doomed", "exited"}]
      <3>1. child[id] \in {"none", "running", "doomed", "exited"}
        BY DEF TypeOK
      <3>2. Doom(id) \in {"none", "running", "doomed", "exited"}
        BY <3>1 DEF Doom
      <3>3. PICK fate \in {Doom(id), child[id]} :
               child' = [child EXCEPT ![id] = fate]
        BY <1>12 DEF js_kill
      <3> QED
        BY <3>1, <3>2, <3>3 DEF TypeOK
    <2>2. kid' \in [Ids -> {"none", "inJob", "outside", "gone"}]
      BY <1>12 DEF TypeOK, js_kill, KidsAfterKill
    <2>3. killed' \in [Ids -> BOOLEAN] /\ job' \in [Ids -> BOOLEAN]
      BY <1>12 DEF TypeOK, js_kill
    <2> QED
      BY <1>12, <2>1, <2>2, <2>3 DEF TypeOK, js_kill
  <1>13. ASSUME NEW c \in Contexts, NEW id \in Ids, js_wait_async(c, id) PROVE TypeOK'
    BY <1>13 DEF TypeOK, js_wait_async
  <1>14. ASSUME NEW c \in Contexts, NEW id \in Ids, js_wait(c, id) PROVE TypeOK'
    BY <1>14 DEF TypeOK, js_wait, MainType
  <1>15. ASSUME NEW c \in Contexts, SpawnPoll(c) PROVE TypeOK'
    <2>1. main' \in MainType
      BY <1>0, <1>15 DEF TypeOK, SpawnPoll, MainType
    <2> QED
      BY <1>15, <2>1 DEF TypeOK, SpawnPoll
  <1>16. ASSUME JoinOut PROVE TypeOK'
    <2>1. main' \in MainType
      BY <1>16 DEF TypeOK, JoinOut, MainType
    <2>2. quit' \in [Ids -> [Kinds -> BOOLEAN]]
      BY <1>16 DEF TypeOK, JoinOut
    <2> QED
      BY <1>16, <2>1, <2>2 DEF TypeOK, JoinOut
  <1>17. ASSUME JoinErr PROVE TypeOK'
    <2> DEFINE id == main.cur
    <2>1. id \in Ids
      BY <1>17 DEF JoinErr, Locals
    <2>2. g_procs' \in Seq(Ids)
      BY <1>17, RemoveAtFacts DEF JoinErr, Unlist, TypeOK
    <2>3. MakeReport(id) \in ReportType
      BY <2>1 DEF TypeOK, MakeReport, ReportType
    <2>4. report' \in [Ids -> ReportType]
      BY <1>17, <2>3 DEF TypeOK, JoinErr
    <2>5. main' \in MainType
      <3>1. main \in MainType /\ main.idx \in Nat
        BY DEF TypeOK, MainType
      <3>2. CASE main.idx = 0
        BY <1>17, <3>2 DEF JoinErr, InJs, MainType
      <3>3. CASE main.idx # 0
        <4>1. main.idx - 1 \in Nat
          BY <3>1, <3>3
        <4> QED
          BY <1>17, <3>1, <3>3, <4>1 DEF JoinErr, NextIdx, MainType
      <3> QED
        BY <3>2, <3>3
    <2>6. promise' \in [Ids -> [Contexts ->
                           {"none", "pending", "settled", "dropped"}]]
      BY <1>17 DEF TypeOK, JoinErr
    <2>7. /\ kid' \in [Ids -> {"none", "inJob", "outside", "gone"}]
          /\ job' \in [Ids -> BOOLEAN]
          /\ waiter' \in [Ids -> Contexts \union {NoContext}]
          /\ chunks' \in [Ids -> Seq(ChunkType)]
      BY <1>17 DEF TypeOK, JoinErr
    <2> QED
      BY <1>17, <2>2, <2>4, <2>5, <2>6, <2>7 DEF TypeOK, JoinErr
  <1>18. ASSUME PollTimeout PROVE TypeOK'
    <2> DEFINE id == g_procs[main.idx]
    <2>1. id \in Ids
      BY <1>0, <1>18 DEF PollTimeout, PollCursor, TypeOK, MainType
    <2>2. main' \in MainType
      BY <1>18, <2>1 DEF PollTimeout, TypeOK, MainType
    <2>3. CASE TimeoutDue(id)
      <3>1. child' \in [Ids -> {"none", "running", "doomed", "exited"}]
        <4>1. child[id] \in {"none", "running", "doomed", "exited"}
          BY <2>1 DEF TypeOK
        <4>2. Doom(id) \in {"none", "running", "doomed", "exited"}
          BY <4>1 DEF Doom
        <4>3. child' = [child EXCEPT ![id] = Doom(id)]
          BY <1>18, <2>3 DEF PollTimeout
        <4> QED
          BY <4>2, <4>3 DEF TypeOK
      <3>2. kid' \in [Ids -> {"none", "inJob", "outside", "gone"}]
        <4>1. kid[id] \in {"none", "inJob", "outside", "gone"}
          BY <2>1 DEF TypeOK
        <4>2. KidsAfterKill(id) \subseteq {"none", "inJob", "outside", "gone"}
          BY <4>1 DEF KidsAfterKill
        <4>3. PICK fate \in KidsAfterKill(id) : kid' = [kid EXCEPT ![id] = fate]
          BY <1>18, <2>3 DEF PollTimeout
        <4> QED
          BY <4>2, <4>3 DEF TypeOK
      <3>3. timedOut' \in [Ids -> BOOLEAN] /\ job' \in [Ids -> BOOLEAN]
        BY <1>18, <2>3 DEF TypeOK, PollTimeout
      <3> QED
        BY <1>18, <2>2, <3>1, <3>2, <3>3 DEF TypeOK, PollTimeout
    <2>4. CASE ~TimeoutDue(id)
      BY <1>18, <2>2, <2>4 DEF TypeOK, PollTimeout
    <2> QED
      BY <2>3, <2>4
  <1>19. ASSUME PollDrain PROVE TypeOK'
    <2> DEFINE id == main.cur
               ch == Head(chunks[id])
               v  == shown[id][ch.kind] + ch.len
    <2>1. id \in Ids /\ chunks[id] \in Seq(ChunkType) /\ chunks[id] # <<>>
      BY <1>19 DEF PollDrain, Locals, TypeOK
    <2>2. ch \in ChunkType /\ Tail(chunks[id]) \in Seq(ChunkType)
      BY <2>1
    <2>3. ch.kind \in Kinds /\ v \in Nat
      <3> HIDE DEF ch
      <3>1. ch.kind \in Kinds /\ ch.len \in Nat
        BY <2>2 DEF ChunkType
      <3>2. shown[id][ch.kind] \in Nat
        BY <2>1, <3>1 DEF TypeOK
      <3> QED
        BY <3>1, <3>2
    <2>4. /\ shown' = [shown EXCEPT ![id][ch.kind] = v]
          /\ chunks' = [chunks EXCEPT ![id] = Tail(chunks[id])]
      BY <1>19 DEF PollDrain, WriteBytes, PopChunk
    <2> HIDE DEF ch, v
    <2>5. shown' \in [Ids -> [Kinds -> Nat]]
      BY <2>1, <2>3, <2>4, UpdateAt DEF TypeOK
    <2>6. chunks' \in [Ids -> Seq(ChunkType)]
      BY <2>1, <2>2, <2>4 DEF TypeOK
    <2> QED
      BY <1>19, <2>5, <2>6 DEF TypeOK, PollDrain
  <1>20. ASSUME PollDrained PROVE TypeOK'
    BY <1>20 DEF TypeOK, PollDrained, MainType
  <1>21. ASSUME PollReap PROVE TypeOK'
    <2> DEFINE id == main.cur
               c  == main.ctx
    <2>1. id \in Ids
      BY <1>21 DEF PollReap, Locals
    <2>2. MakeReport(id) \in ReportType
      BY <2>1 DEF TypeOK, MakeReport, ReportType
    <2>3. report' \in [Ids -> ReportType]
      BY <1>21, <2>2 DEF TypeOK, PollReap, Settle
    <2>4. promise' \in [Ids -> [Contexts ->
                           {"none", "pending", "settled", "dropped"}]]
      <3> DEFINE P == {"none", "pending", "settled", "dropped"}
      <3>1. promise \in [Ids -> [Contexts -> P]]
        BY DEF TypeOK
      <3>2. promise' = promise \/ promise' = [promise EXCEPT ![id][c] = "settled"]
        BY <1>21 DEF PollReap, Settle
      <3>3. [promise[id] EXCEPT ![c] = "settled"] \in [Contexts -> P]
        BY <2>1, <3>1
      <3> QED
        BY <2>1, <3>1, <3>2, <3>3
    <2>5. quit' \in [Ids -> [Kinds -> BOOLEAN]]
      <3>1. quit' = [quit EXCEPT ![id]["out"] = TRUE]
        BY <1>21 DEF PollReap, BeginRemove
      <3> QED
        BY <2>1, <3>1, UpdateAt DEF TypeOK, Kinds
    <2>7. audited' \in [Ids -> Nat]
      <3>1. audited' = [audited EXCEPT ![id] = audited[id] + 1]
        BY <1>21 DEF PollReap, BeginRemove, AuditSpawn
      <3> QED
        BY <2>1, <3>1 DEF TypeOK
    <2>6. main' \in MainType
      BY <1>21, <2>1 DEF TypeOK, PollReap, BeginRemove, MainType
    <2>8. UNCHANGED <<hostVars, flagVars, outputVars, reader, pipeVars, osVars,
                      waiter, shown>>
      BY <1>21 DEF PollReap
    <2>9. /\ g_procs' = g_procs /\ g_next_id' = g_next_id /\ spawning' = spawning
          /\ opts' = opts /\ job' = job /\ timedOut' = timedOut /\ killed' = killed
          /\ total' = total /\ truncated' = truncated /\ chunks' = chunks
          /\ reader' = reader /\ wrote' = wrote /\ taken' = taken
          /\ child' = child /\ program' = program /\ deadline' = deadline
          /\ kid' = kid /\ waiter' = waiter /\ shown' = shown
      BY <2>8 DEF hostVars, flagVars, outputVars, pipeVars, osVars
    <2> QED
      BY <2>3, <2>4, <2>5, <2>6, <2>7, <2>9, ZenonT(30) DEF TypeOK
  <1>22. ASSUME PollNext PROVE TypeOK'
    <2>1. main.idx - 1 \in Nat
      BY <1>22 DEF PollNext, PollCursor, TypeOK, MainType
    <2>2. main' \in MainType
      BY <1>22, <2>1 DEF PollNext, NextIdx, TypeOK, MainType
    <2> QED
      BY <1>22, <2>2 DEF TypeOK, PollNext
  <1>23. ASSUME PollReturn PROVE TypeOK'
    <2>1. main' \in MainType
      BY <1>23 DEF PollReturn, InJs, TypeOK, MainType
    <2> QED
      BY <1>23, <2>1 DEF TypeOK, PollReturn
  <1>24. ASSUME WaitExited PROVE TypeOK'
    <2>1. main.held \in Ids
      BY <1>24 DEF WaitExited, Locals
    <2>2. main' \in MainType
      BY <1>24, <2>1 DEF WaitExited, BeginRemove, TypeOK, MainType
    <2>3. quit' \in [Ids -> [Kinds -> BOOLEAN]]
      <3>1. quit' = [quit EXCEPT ![main.held]["out"] = TRUE]
        BY <1>24 DEF WaitExited, BeginRemove
      <3> QED
        BY <2>1, <3>1, UpdateAt DEF TypeOK, Kinds
    <2>4. audited' \in [Ids -> Nat]
      <3>1. audited' = [audited EXCEPT ![main.held] = audited[main.held] + 1]
        BY <1>24 DEF WaitExited, BeginRemove, AuditSpawn
      <3> QED
        BY <2>1, <3>1 DEF TypeOK
    <2> QED
      BY <1>24, <2>2, <2>3, <2>4 DEF TypeOK, WaitExited, BeginRemove
  <1>25. ASSUME WaitPoll PROVE TypeOK'
    <2>1. main' \in MainType
      BY <1>0, <1>25 DEF WaitPoll, TypeOK, MainType
    <2> QED
      BY <1>25, <2>1 DEF TypeOK, WaitPoll
  <1>26. ASSUME WaitStale PROVE TypeOK'
    <2>1. main' \in MainType
      BY <1>0, <1>26 DEF WaitStale, TypeOK, MainType
    <2> QED
      BY <1>26, <2>1 DEF TypeOK, WaitStale
  <1>27. CASE UNCHANGED vars
    BY <1>27 DEF TypeOK
  <1>28. ASSUME SpawnCheck \/ SpawnRefused PROVE TypeOK'
    <2>1. spawning' \in 0 .. MaxNesting
      BY <1>28 DEF TypeOK, SpawnCheck, SpawnRefused
    <2> QED
      BY <1>28, <2>1 DEF TypeOK, SpawnCheck, SpawnRefused
  <1> QED
    BY <1>1, <1>2, <1>3, <1>4, <1>5, <1>6, <1>7, <1>8, <1>9, <1>10, <1>11, <1>12,
       <1>13, <1>14, <1>15, <1>16, <1>17, <1>18, <1>19, <1>20, <1>21, <1>22, <1>23,
       <1>24, <1>25, <1>26, <1>27, <1>28
    DEF Next, Script, ScriptEnds, Native, Reader, OS

\* What another thread or process does to the children while the JS thread stands
\* still: a child that ended stays ended, and none is started.
ChildrenOnlyEnd ==
    /\ UNCHANGED <<g_procs, g_next_id, spawning, main>>
    /\ \A id \in Ids : /\ child'[id] = "none" <=> child[id] = "none"
                       /\ child'[id] \in {"running", "doomed"} =>
                              child[id] \in {"running", "doomed"}
                       /\ Exited(id) => Exited(id)'

LEMMA ChildrenOnlyEndKeepsList ==
    ASSUME IInv, ChildrenOnlyEnd
    PROVE  (PollCursor /\ Locals /\ ListKeepsAlive /\ ListWithinLimit)'
  <1>1. PollCursor' /\ Locals' /\ ListWithinLimit'
    BY DEF IInv, ChildrenOnlyEnd, PollCursor, Locals, ListWithinLimit
  <1>2. Listed' = Listed
    BY DEF ChildrenOnlyEnd, Listed
  <1>3. ListKeepsAlive'
    BY <1>2 DEF IInv, ChildrenOnlyEnd, Locals, ListKeepsAlive
  <1> QED
    BY <1>1, <1>3

\* The steps of the JS thread that neither start nor remove a process.
LEMMA MainMovesKeepsList ==
    ASSUME IInv, UNCHANGED <<g_procs, g_next_id, spawning, child>>,
           main.pc' \in {"joinOut", "joinErr"} => Exited(main.cur')
    PROVE  ListKeepsAlive' /\ ListWithinLimit'
  <1>1. Listed' = Listed
    BY DEF Listed
  <1>2. ListKeepsAlive'
    BY <1>1 DEF IInv, ListKeepsAlive, Exited
  <1>3. ListWithinLimit'
    BY DEF IInv, ListWithinLimit
  <1> QED
    BY <1>2, <1>3

\* The list, the cursor and the locals, step by step.
LEMMA ListStep ==
    ASSUME IInv, [Next]_vars
    PROVE  (PollCursor /\ Locals /\ ListKeepsAlive /\ ListWithinLimit)'
  <1> USE SpawnAssumption DEF NoId
  <1> DEFINE G == (PollCursor /\ Locals /\ ListKeepsAlive /\ ListWithinLimit)'
  <1>0. /\ Len(g_procs) \in Nat /\ DOMAIN g_procs = 1 .. Len(g_procs)
        /\ \A i \in 1 .. Len(g_procs) : g_procs[i] \in Ids
        /\ Listed \subseteq Ids
        /\ main \in MainType /\ main.idx \in Nat
        /\ child \in [Ids -> {"none", "running", "doomed", "exited"}]
    BY DEF IInv, TypeOK, Listed, Range, MainType
  <1>1. ASSUME UNCHANGED <<g_procs, g_next_id, spawning, main, child>> PROVE G
    BY <1>1, ChildrenOnlyEndKeepsList DEF ChildrenOnlyEnd, Exited
  <1>2. ASSUME NEW id \in Ids, ChildExit(id) PROVE G
    <2>1. child' = [child EXCEPT ![id] = "exited"] /\ child[id] # "none"
      BY <1>2 DEF ChildExit
    <2>2. ChildrenOnlyEnd
      BY <1>0, <1>2, <2>1 DEF ChildrenOnlyEnd, ChildExit, Exited, hostVars
    <2> QED
      BY <2>2, ChildrenOnlyEndKeepsList
  <1>3. ASSUME CtrlHandler PROVE G
    <2>1. PICK S \in SUBSET {id \in Listed : child[id] = "running"} :
             child' = [id \in Ids |-> IF id \in S THEN "doomed" ELSE child[id]]
      BY <1>3 DEF CtrlHandler
    <2>2. ChildrenOnlyEnd
      BY <1>0, <1>3, <2>1 DEF ChildrenOnlyEnd, CtrlHandler, Exited, hostVars
    <2> QED
      BY <2>2, ChildrenOnlyEndKeepsList
  <1>4. ASSUME NEW id \in Ids, NEW sig \in Signals, js_kill(id, sig) PROVE G
    <2>1. PICK fate \in {Doom(id), child[id]} : child' = [child EXCEPT ![id] = fate]
      BY <1>4 DEF js_kill
    <2>2. ChildrenOnlyEnd
      BY <1>0, <1>4, <2>1 DEF ChildrenOnlyEnd, js_kill, Doom, Exited, hostVars
    <2> QED
      BY <2>2, ChildrenOnlyEndKeepsList
  <1>5. ASSUME js_spawn PROVE G
    <2> DEFINE id == g_next_id
    <2>1. /\ main.pc = "js" /\ main.idx = 0 /\ main.held = 0
          /\ id \in Ids /\ id \in Nat /\ id' = id + 1
          /\ main' = [main EXCEPT !.pc = "assign", !.cur = id]
          /\ child' = [child EXCEPT ![id] = "running"]
          /\ g_procs' = Append(g_procs, id)
      BY <1>5 DEF js_spawn, IInv, Locals, Ids
    <2>2. /\ Len(g_procs') = Len(g_procs) + 1
          /\ DOMAIN g_procs' = 1 .. Len(g_procs) + 1
          /\ \A i \in 1 .. Len(g_procs) : g_procs'[i] = g_procs[i]
          /\ g_procs'[Len(g_procs) + 1] = id
      BY <1>0, <2>1 DEF IInv, TypeOK
    <2>3. PollCursor'
      BY <1>0, <2>1, <2>2 DEF PollCursor, MainType
    <2>4. Locals'
      BY <1>0, <2>1 DEF Locals, MainType
    <2>5. ListWithinLimit'
      <3>1. spawning \in Nat /\ spawning' = spawning - 1
        BY <1>5 DEF js_spawn, IInv, TypeOK
      <3>2. MaxConcurrent > 0 => Len(g_procs) + spawning <= SpawnLimit
        BY DEF IInv, ListWithinLimit
      <3>3. Len(g_procs') + spawning' = Len(g_procs) + spawning
        BY <1>0, <2>2, <3>1
      <3> QED
        BY <3>2, <3>3 DEF ListWithinLimit, SpawnLimit
    <2>6. /\ \A i, j \in DOMAIN g_procs : g_procs[i] = g_procs[j] => i = j
          /\ \A i \in DOMAIN g_procs : g_procs[i] < id
          /\ \A i \in Ids : child[i] = "none" <=> i >= id
          /\ \A i \in Ids : child[i] \in {"running", "doomed"} => i \in Listed
      BY DEF IInv, ListKeepsAlive
    <2>7. Listed' = Listed \union {id}
      BY <1>0, <2>2 DEF Listed, Range
    <2>8. /\ \A i, j \in DOMAIN g_procs' : g_procs'[i] = g_procs'[j] => i = j
          /\ \A i \in DOMAIN g_procs' : g_procs'[i] < id'
      BY <1>0, <2>1, <2>2, <2>6 DEF Ids
    <2>9. /\ \A i \in Ids : child'[i] = "none" <=> i >= id'
          /\ \A i \in Ids : child'[i] \in {"running", "doomed"} => i \in Listed'
      BY <1>0, <2>1, <2>6, <2>7 DEF Ids
    <2>10. main'.pc = "assign"
      BY <1>0, <2>1 DEF MainType
    <2>11. ListKeepsAlive'
      BY <2>8, <2>9, <2>10 DEF ListKeepsAlive
    <2> QED
      BY <2>3, <2>4, <2>5, <2>11
  <1>6. ASSUME JoinErr PROVE G
    <2> DEFINE id == main.cur
    <2>1. id \in Ids /\ child[id] = "exited"
      BY <1>6 DEF JoinErr, IInv, Locals, ListKeepsAlive, Exited
    <2>2. PICK n \in DOMAIN g_procs : g_procs[n] = id /\ g_procs' = RemoveAt(g_procs, n)
      BY <1>6 DEF JoinErr, Unlist
    <2>3. /\ g_procs' \in Seq(Ids)
          /\ Len(g_procs') = Len(g_procs) - 1
          /\ \A i \in 1 .. Len(g_procs) - 1 :
                g_procs'[i] = IF i < n THEN g_procs[i] ELSE g_procs[i + 1]
      <3>1. g_procs \in Seq(Ids)
        BY DEF IInv, TypeOK
      <3> QED
        BY <2>2, <3>1, RemoveAtFacts
    <2>4. DOMAIN g_procs' = 1 .. Len(g_procs) - 1
      BY <2>3
    <2>5. /\ \A i, j \in DOMAIN g_procs : g_procs[i] = g_procs[j] => i = j
          /\ \A i \in DOMAIN g_procs : g_procs[i] < g_next_id
          /\ \A i \in Ids : child[i] = "none" <=> i >= g_next_id
          /\ \A i \in Ids : child[i] \in {"running", "doomed"} => i \in Listed
      BY DEF IInv, ListKeepsAlive
    <2>6. child' = child /\ g_next_id' = g_next_id
      BY <1>6 DEF JoinErr
    <2>7. /\ main'.pc \in {"js", "poll"}
          /\ main'.idx = 0 \/ (main'.idx = main.idx - 1 /\ main.idx > 0)
          /\ main'.pc = "js" => main'.idx = 0 /\ main'.held = NoId
      <3>1. CASE main.idx = 0
        <4>1. main' = InJs
          BY <1>6, <3>1 DEF JoinErr
        <4> QED
          BY <4>1 DEF InJs
      <3>2. CASE main.idx # 0
        <4>1. main' = [main EXCEPT !.pc = "poll", !.cur = NoId, !.idx = main.idx - 1]
          BY <1>6, <3>2 DEF JoinErr, NextIdx
        <4> QED
          BY <1>0, <3>2, <4>1 DEF MainType
      <3> QED
        BY <3>1, <3>2
    <2>8. PollCursor'
      BY <1>0, <2>3, <2>7 DEF IInv, PollCursor
    <2>9. Locals'
      BY <2>7 DEF Locals
    <2>10. ListWithinLimit'
      <3>1. spawning \in Nat /\ spawning' = spawning
        BY <1>6 DEF JoinErr, IInv, TypeOK
      <3> QED
        BY <1>0, <2>3, <3>1 DEF IInv, ListWithinLimit, SpawnLimit
    <2> DEFINE old(i) == IF i < n THEN i ELSE i + 1
    <2>11. ASSUME NEW i \in DOMAIN g_procs'
           PROVE  old(i) \in DOMAIN g_procs /\ g_procs'[i] = g_procs[old(i)]
      BY <1>0, <2>3, <2>4
    <2>12. ASSUME NEW i \in DOMAIN g_procs', NEW j \in DOMAIN g_procs',
                  g_procs'[i] = g_procs'[j]
           PROVE  i = j
      <3>1. old(i) = old(j)
        BY <2>5, <2>12, <2>11
      <3>2. i \in Nat /\ j \in Nat /\ n \in Nat
        BY <1>0, <2>4
      <3> QED
        BY <3>1, <3>2
    <2>13. \A i \in DOMAIN g_procs' : g_procs'[i] < g_next_id
      BY <2>5, <2>11
    <2>14. ASSUME NEW i \in Ids, child[i] \in {"running", "doomed"} PROVE i \in Listed'
      <3>1. PICK m \in 1 .. Len(g_procs) : g_procs[m] = i
        BY <1>0, <2>5, <2>14 DEF Listed, Range
      <3>2. m # n
        BY <2>1, <2>2, <2>14, <3>1
      <3>3. CASE m < n
        <4>1. m \in DOMAIN g_procs' /\ g_procs'[m] = i
          BY <1>0, <2>2, <2>3, <2>4, <3>1, <3>3
        <4> QED
          BY <4>1 DEF Listed, Range
      <3>4. CASE m > n
        <4>1. m - 1 \in DOMAIN g_procs' /\ g_procs'[m - 1] = i
          BY <1>0, <2>2, <2>3, <2>4, <3>1, <3>4
        <4> QED
          BY <4>1 DEF Listed, Range
      <3> QED
        BY <1>0, <3>1, <3>2, <3>3, <3>4
    <2>15. ListKeepsAlive'
      BY <2>5, <2>6, <2>7, <2>12, <2>13, <2>14 DEF ListKeepsAlive
    <2> QED
      BY <2>8, <2>9, <2>10, <2>15
  <1>7. ASSUME PollTimeout PROVE G
    <2> DEFINE id == g_procs[main.idx]
    <2>1. /\ id \in Ids /\ main.idx \in 1 .. Len(g_procs)
          /\ main' = [main EXCEPT !.pc = "drain", !.cur = id]
          /\ UNCHANGED <<g_procs, g_next_id, spawning>>
      BY <1>0, <1>7 DEF PollTimeout, IInv, PollCursor, hostVars
    <2>2. main'.pc = "drain" /\ main'.cur = id /\ main'.idx = main.idx
      BY <1>0, <2>1 DEF MainType
    <2>3. PollCursor' /\ Locals' /\ ListWithinLimit'
      BY <1>0, <2>1, <2>2 DEF IInv, PollCursor, Locals, ListWithinLimit
    <2>4. child' = child \/ child' = [child EXCEPT ![id] = Doom(id)]
      BY <1>7 DEF PollTimeout
    <2>5. \A i \in Ids : /\ child'[i] = "none" <=> child[i] = "none"
                         /\ child'[i] \in {"running", "doomed"} =>
                                child[i] \in {"running", "doomed"}
      BY <1>0, <2>1, <2>4 DEF Doom
    <2>6. Listed' = Listed
      BY <2>1 DEF Listed
    <2>7. ListKeepsAlive'
      BY <2>1, <2>2, <2>5, <2>6 DEF IInv, ListKeepsAlive
    <2> QED
      BY <2>3, <2>7
  <1>8. CASE UNCHANGED vars
    BY <1>1, <1>8 DEF vars, hostVars, osVars
  <1>9. ASSUME NEW id \in Ids, NEW k \in Kinds, ChildWrite(id, k) \/ Reader(id, k)
         PROVE  G
    BY <1>1, <1>9 DEF ChildWrite, Reader, ReaderProbe, ReaderIdle, ReaderRead,
                       ReaderPush, hostVars, osVars
  <1>10. ASSUME NEW id \in Ids, ChildForks(id) \/ DeadlinePasses(id) PROVE G
    BY <1>1, <1>10 DEF ChildForks, DeadlinePasses, hostVars, osVars
  <1>11. ASSUME PollDrain \/ \E c \in Contexts, id \in Ids : js_wait_async(c, id)
         PROVE  G
    BY <1>1, <1>11 DEF PollDrain, js_wait_async, hostVars, osVars
  <1>12. ASSUME AssignJob PROVE G
    <2>1. /\ main'.pc = "js"
          /\ main'.idx = 0 /\ main'.held = 0
      BY <1>0, <1>12 DEF AssignJob, InJs, MainType
    <2>2. UNCHANGED <<g_procs, g_next_id, spawning, child>>
      BY <1>12 DEF AssignJob, hostVars, osVars
    <2>3. PollCursor' /\ Locals'
      BY <1>0, <2>1, <2>2 DEF IInv, PollCursor, Locals
    <2>4. ListKeepsAlive' /\ ListWithinLimit'
      BY <2>1, <2>2, MainMovesKeepsList
    <2> QED
      BY <2>3, <2>4
  <1>13. ASSUME JoinOut PROVE G
    <2>1. /\ main'.pc = "joinErr" /\ main.pc = "joinOut"
          /\ main'.idx = main.idx /\ main'.cur = main.cur
          /\ main.cur \in Ids /\ Exited(main.cur)
      BY <1>0, <1>13 DEF JoinOut, IInv, Locals, ListKeepsAlive, MainType
    <2>2. UNCHANGED <<g_procs, g_next_id, spawning, child>>
      BY <1>13 DEF JoinOut, hostVars, osVars
    <2>3. PollCursor' /\ Locals'
      BY <1>0, <2>1, <2>2 DEF IInv, PollCursor, Locals
    <2>4. ListKeepsAlive' /\ ListWithinLimit'
      BY <2>1, <2>2, MainMovesKeepsList
    <2> QED
      BY <2>3, <2>4
  <1>14. ASSUME PollDrained PROVE G
    <2>1. /\ main'.pc = "exitq" /\ main.pc = "drain"
          /\ main'.idx = main.idx /\ main'.cur = main.cur
      BY <1>0, <1>14 DEF PollDrained, MainType
    <2>2. UNCHANGED <<g_procs, g_next_id, spawning, child>>
      BY <1>14 DEF PollDrained, hostVars, osVars
    <2>3. PollCursor' /\ Locals'
      BY <1>0, <2>1, <2>2 DEF IInv, PollCursor, Locals
    <2>4. ListKeepsAlive' /\ ListWithinLimit'
      BY <2>1, <2>2, MainMovesKeepsList
    <2> QED
      BY <2>3, <2>4
  <1>15. ASSUME PollReap PROVE G
    <2>1. /\ main'.pc = "joinOut" /\ main.pc = "exitq"
          /\ main'.idx = main.idx /\ main'.cur = main.cur
          /\ Exited(main.cur)
      BY <1>0, <1>15 DEF PollReap, BeginRemove, MainType
    <2>2. UNCHANGED <<g_procs, g_next_id, spawning, child>>
      BY <1>15 DEF PollReap, hostVars, osVars
    <2>3. PollCursor' /\ Locals'
      BY <1>0, <2>1, <2>2 DEF IInv, PollCursor, Locals
    <2>4. ListKeepsAlive' /\ ListWithinLimit'
      BY <2>1, <2>2, MainMovesKeepsList
    <2> QED
      BY <2>3, <2>4
  <1>16. ASSUME PollNext PROVE G
    <2>1. /\ main'.pc = "poll" /\ main.pc = "exitq"
          /\ main'.idx = main.idx - 1
      BY <1>0, <1>16 DEF PollNext, NextIdx, MainType
    <2>2. UNCHANGED <<g_procs, g_next_id, spawning, child>>
      BY <1>16 DEF PollNext, hostVars, osVars
    <2>3. PollCursor' /\ Locals'
      BY <1>0, <2>1, <2>2 DEF IInv, PollCursor, Locals
    <2>4. ListKeepsAlive' /\ ListWithinLimit'
      BY <2>1, <2>2, MainMovesKeepsList
    <2> QED
      BY <2>3, <2>4
  <1>17. ASSUME PollReturn PROVE G
    <2>1. /\ main.pc = "poll" /\ main.idx = 0 /\ main'.idx = 0
          /\ \/ main'.pc = "js" /\ main'.held = 0
             \/ main'.pc = "waiting" /\ main'.held \in Ids
      BY <1>0, <1>17 DEF PollReturn, InJs, MainType
    <2>2. UNCHANGED <<g_procs, g_next_id, spawning, child>>
      BY <1>17 DEF PollReturn, hostVars, osVars
    <2>3. PollCursor' /\ Locals'
      BY <1>0, <2>1, <2>2 DEF IInv, PollCursor, Locals
    <2>4. ListKeepsAlive' /\ ListWithinLimit'
      BY <2>1, <2>2, MainMovesKeepsList
    <2> QED
      BY <2>3, <2>4
  <1>18. ASSUME WaitExited PROVE G
    <2>1. /\ main.pc = "waiting" /\ main'.pc = "joinOut"
          /\ main'.idx = 0 /\ main'.cur = main.held
          /\ main.held \in Ids /\ Exited(main.held)
      BY <1>0, <1>18 DEF WaitExited, BeginRemove, IInv, Locals, MainType
    <2>2. UNCHANGED <<g_procs, g_next_id, spawning, child>>
      BY <1>18 DEF WaitExited, hostVars, osVars
    <2>3. PollCursor' /\ Locals'
      BY <1>0, <2>1, <2>2 DEF IInv, PollCursor, Locals
    <2>4. ListKeepsAlive' /\ ListWithinLimit'
      BY <2>1, <2>2, MainMovesKeepsList
    <2> QED
      BY <2>3, <2>4
  <1>19. ASSUME WaitPoll PROVE G
    <2>1. /\ main'.pc = "poll"
          /\ main'.idx = Len(g_procs)
      BY <1>0, <1>19 DEF WaitPoll, MainType
    <2>2. UNCHANGED <<g_procs, g_next_id, spawning, child>>
      BY <1>19 DEF WaitPoll, hostVars, osVars
    <2>3. PollCursor' /\ Locals'
      BY <1>0, <2>1, <2>2 DEF IInv, PollCursor, Locals
    <2>4. ListKeepsAlive' /\ ListWithinLimit'
      BY <2>1, <2>2, MainMovesKeepsList
    <2> QED
      BY <2>3, <2>4
  <1>20. ASSUME WaitStale PROVE G
    <2>1. /\ main'.pc \in {"poll", "crashed"}
          /\ main'.idx \in {main.idx, Len(g_procs)}
      BY <1>0, <1>20 DEF WaitStale, MainType
    <2>2. UNCHANGED <<g_procs, g_next_id, spawning, child>>
      BY <1>20 DEF WaitStale, hostVars, osVars
    <2>3. PollCursor' /\ Locals'
      BY <1>0, <2>1, <2>2 DEF IInv, PollCursor, Locals
    <2>4. ListKeepsAlive' /\ ListWithinLimit'
      BY <2>1, <2>2, MainMovesKeepsList
    <2> QED
      BY <2>3, <2>4
  <1>21. ASSUME NEW c \in Contexts, SpawnPoll(c) PROVE G
    <2>1. /\ main'.pc = "poll"
          /\ main'.idx = Len(g_procs)
      BY <1>0, <1>21 DEF SpawnPoll, MainType
    <2>2. UNCHANGED <<g_procs, g_next_id, spawning, child>>
      BY <1>21 DEF SpawnPoll, hostVars, osVars
    <2>3. PollCursor' /\ Locals'
      BY <1>0, <2>1, <2>2 DEF IInv, PollCursor, Locals
    <2>4. ListKeepsAlive' /\ ListWithinLimit'
      BY <2>1, <2>2, MainMovesKeepsList
    <2> QED
      BY <2>3, <2>4
  <1>22. ASSUME NEW c \in Contexts, NEW id \in Ids, js_wait(c, id) PROVE G
    <2>1. /\ main.pc = "js" /\ main'.pc = "waiting"
          /\ main'.idx = main.idx /\ main'.held = id
      BY <1>0, <1>22 DEF js_wait, MainType
    <2>2. UNCHANGED <<g_procs, g_next_id, spawning, child>>
      BY <1>22 DEF js_wait, hostVars, osVars
    <2>3. PollCursor' /\ Locals'
      BY <1>0, <2>1, <2>2 DEF IInv, PollCursor, Locals
    <2>4. ListKeepsAlive' /\ ListWithinLimit'
      BY <2>1, <2>2, MainMovesKeepsList
    <2> QED
      BY <2>3, <2>4
  <1>23. ASSUME SpawnCheck \/ SpawnRefused PROVE G
    <2>1. UNCHANGED <<g_procs, g_next_id, main, child>>
      BY <1>23 DEF SpawnCheck, SpawnRefused, osVars
    <2>2. Listed' = Listed
      BY <2>1 DEF Listed
    <2>3. PollCursor' /\ Locals' /\ ListKeepsAlive'
      BY <2>1, <2>2 DEF IInv, PollCursor, Locals, ListKeepsAlive, Exited
    <2>4. spawning \in 0 .. MaxNesting
      BY DEF IInv, TypeOK
    <2>5. ListWithinLimit'
      <3>1. CASE SpawnCheck
        BY <1>0, <2>1, <2>4, <3>1
        DEF SpawnCheck, BelowLimit, ListWithinLimit, SpawnLimit
      <3>2. CASE SpawnRefused
        BY <1>0, <2>1, <2>4, <3>2 DEF SpawnRefused, IInv, ListWithinLimit, SpawnLimit
      <3> QED
        BY <1>23, <3>1, <3>2
    <2> QED
      BY <2>3, <2>5
  <1> QED
    BY <1>2, <1>3, <1>4, <1>5, <1>6, <1>7, <1>8, <1>9, <1>10, <1>11, <1>12, <1>13,
       <1>14, <1>15, <1>16, <1>17, <1>18, <1>19, <1>20, <1>21, <1>22, <1>23
    DEF Next, Script, ScriptEnds, Native, OS

\* Every step preserves the inductive invariant.
THEOREM Invariant == Spec => []IInv
  <1>1. ASSUME IInv, [Next]_vars PROVE IInv'
    BY <1>1, TypeStep, ListStep DEF IInv
  <1> QED
    BY InitIInv, <1>1, PTL DEF Spec

\* Every state of the shim is well typed, and no reader takes more from a pipe than
\* the child wrote to it.
THEOREM TypeCorrect == Spec => []TypeOK
  <1>1. IInv => TypeOK
    BY DEF IInv
  <1> QED
    BY Invariant, <1>1, PTL

\* SpawnPoll walks g_procs from the end while RemoveProcById deletes from it, and is
\* itself called from js_wait: the cursor always names the record being worked on.
THEOREM CursorIsSafe == Spec => []PollCursor
  <1>1. IInv => PollCursor
    BY DEF IInv
  <1> QED
    BY Invariant, <1>1, PTL

\* js_spawn compares the length of g_procs with the limit, not the number of living
\* processes, and lists its record only after it has run the accessors of its arguments.
\* Nothing alive ever leaves the list, so that the check bounds both: exactly when the
\* calls do not nest (MaxNesting = 1), by one more for every level when they do.
THEOREM LimitHolds == Spec => []AliveWithinLimit
  <1>1. ASSUME IInv PROVE AliveWithinLimit
    <2> DEFINE alive == {id \in Ids : child[id] \in {"running", "doomed"}}
               D == 1 .. Len(g_procs)
    <2> SUFFICES ASSUME MaxConcurrent > 0 PROVE Cardinality(alive) <= SpawnLimit
      BY DEF AliveWithinLimit
    <2>1. g_procs \in Seq(Ids)
      BY <1>1 DEF IInv, TypeOK
    <2>2. Len(g_procs) \in Nat /\ DOMAIN g_procs = D
      BY <2>1
    <2>3. g_procs \in [D -> Listed] /\ \A id \in Listed : \E i \in D : g_procs[i] = id
      BY <2>1, <2>2 DEF Listed, Range
    <2>4. g_procs \in Surjection(D, Listed)
      BY <2>3 DEF Surjection
    <2>5. IsFiniteSet(D) /\ Cardinality(D) = Len(g_procs)
      <3>1. IsFiniteSet(D) /\ Cardinality(D) =
              IF 1 > Len(g_procs) THEN 0 ELSE Len(g_procs) - 1 + 1
        <4>1. Len(g_procs) \in Int
          BY <2>2
        <4> QED
          BY <4>1, FS_Interval
      <3> QED
        BY <2>2, <3>1
    <2>6. IsFiniteSet(Listed) /\ Cardinality(Listed) <= Len(g_procs)
      BY <2>4, <2>5, FS_Surjection
    <2>7. alive \in SUBSET Listed
      BY <1>1 DEF IInv, ListKeepsAlive
    <2>8. /\ IsFiniteSet(alive)
          /\ Cardinality(alive) <= Cardinality(Listed)
      BY <2>6, <2>7, FS_Subset
    <2>9. Len(g_procs) <= SpawnLimit
      <3>1. spawning \in Nat
        BY <1>1, SpawnAssumption DEF IInv, TypeOK
      <3> QED
        BY <1>1, <2>2, <3>1, SpawnAssumption DEF IInv, ListWithinLimit, SpawnLimit
    <2>10. Cardinality(alive) \in Nat /\ Cardinality(Listed) \in Nat
      BY <2>6, <2>8, FS_CardinalityType
    <2> QED
      BY <2>2, <2>6, <2>8, <2>9, <2>10, SpawnAssumption DEF SpawnLimit
  <1> QED
    BY Invariant, <1>1, PTL
=============================================================================
