---------------------------- MODULE ModuleGraph ----------------------------
(***************************************************************************)
(* Linking and evaluation of a graph of ES modules by the engine           *)
(* (quickjs.c): js_link_module, js_evaluate_module and the reactions of    *)
(* the promises of modules with top-level await.                           *)
(*                                                                         *)
(* Both depth-first searches are cut into one step per edge; `frames` is   *)
(* the C recursion, `stack` the list threaded through stack_prev.  The     *)
(* graph itself is what module ModuleLoader leaves behind.                 *)
(***************************************************************************)
EXTENDS Integers, Sequences, FiniteSets, SequencesExt, FiniteSetsExt

CONSTANTS
    Modules,        \* the module definitions
    NoModule,
    Graphs,         \* the request graphs examined: [Modules -> Seq(Modules)]
    Awaiting,       \* the sets of modules with top-level await examined
    Unresolvable,   \* the sets of modules with an import nobody exports
    MaxImports      \* bound: how often scripts call import()

ASSUME GraphAssumption ==
    /\ NoModule \notin Modules
    /\ Graphs \subseteq [Modules -> Seq(Modules)]
    /\ Awaiting \subseteq SUBSET Modules
    /\ Unresolvable \subseteq SUBSET Modules
    /\ MaxImports \in Nat

VARIABLES
    req,        \* req_module_entries
    has_tla,    \* the modules with top-level await
    broken,     \* the modules with an import that cannot be resolved
    status,     \* JS_MODULE_STATUS_*
    dfs_index, dfs_ancestor_index,
    pending_async_dependencies,
    async_evaluation,
    timestamp,  \* async_evaluation_timestamp
    async_parent_modules,
    cycle_root,
    eval_has_exception,
    promise,    \* of js_evaluate_module, with its resolving functions
    phase,      \* where the engine is: between two jobs, or in which function
    entry,      \* the module js_link_module and js_evaluate_module work on
    frames,     \* the recursion: the module and the request it is at, innermost first
    stack,      \* stack_top and what it links to
    index,
    next_timestamp,
    work,       \* modules whose parents are still to be visited
    exec_list,
    jobs,       \* reactions of settled module functions
    body,       \* how far the function of the module got
    started,    \* history: the functions in the order they were started
    late,       \* history: the modules that wait for what has already ended
    imports     \* bound on the calls of import()

graphVars   == <<req, has_tla, broken>>
searchVars  == <<dfs_index, dfs_ancestor_index, frames, stack, index>>
asyncVars   == <<pending_async_dependencies, async_evaluation, timestamp,
                 async_parent_modules, next_timestamp>>
resultVars  == <<cycle_root, eval_has_exception, promise>>
jobVars     == <<work, exec_list, jobs>>
bodyVars    == <<body, started, late>>
vars == <<graphVars, status, searchVars, asyncVars, resultVars, phase, entry,
          jobVars, bodyVars, imports>>

Init ==
    /\ req \in Graphs
    /\ has_tla \in Awaiting
    /\ broken \in Unresolvable
    /\ status = [m \in Modules |-> "unlinked"]
    /\ dfs_index = [m \in Modules |-> 0]
    /\ dfs_ancestor_index = [m \in Modules |-> 0]
    /\ pending_async_dependencies = [m \in Modules |-> 0]
    /\ async_evaluation = [m \in Modules |-> FALSE]
    /\ timestamp = [m \in Modules |-> 0]
    /\ async_parent_modules = [m \in Modules |-> <<>>]
    /\ cycle_root = [m \in Modules |-> NoModule]
    /\ eval_has_exception = [m \in Modules |-> FALSE]
    /\ promise = [m \in Modules |-> "none"]
    /\ phase = "idle"
    /\ entry = NoModule
    /\ frames = <<>> /\ stack = <<>> /\ index = 0 /\ next_timestamp = 0
    /\ work = <<>> /\ exec_list = {} /\ jobs = <<>>
    /\ body = [m \in Modules |-> "none"] /\ started = <<>> /\ late = {}
    /\ imports = 0

Finished == {"evaluating_async", "evaluated"}

\* The frame on top, and the frames when it has dealt with its current request.
Top     == Head(frames)
AtEnd   == Top.i > Len(req[Top.m])
Request == req[Top.m][Top.i]
Advance == <<[Top EXCEPT !.i = @ + 1]>> \o Tail(frames)

\* A module is entered by one of the two searches.
Enter(m, s) ==
    /\ status' = [status EXCEPT ![m] = s]
    /\ dfs_index' = [dfs_index EXCEPT ![m] = index]
    /\ dfs_ancestor_index' = [dfs_ancestor_index EXCEPT ![m] = index]
    /\ index' = index + 1
    /\ stack' = <<m>> \o stack
    /\ frames' = <<[m |-> m, i |-> 1]>> \o frames

\* dfs_ancestor_index of m once request d, still on the stack, was visited.
LowAncestor(m, d) == Min({dfs_ancestor_index[m], dfs_ancestor_index[d]})

\* The strongly connected component that m closes: the stack down to m.
Component(m) == {stack[k] : k \in 1 .. SelectInSeq(stack, LAMBDA x : x = m)}
IsRoot(m)    == dfs_index[m] = dfs_ancestor_index[m]
StackBelow(m) == SubSeq(stack, SelectInSeq(stack, LAMBDA x : x = m) + 1, Len(stack))

(***************************************************************************)
(* import(): JS_EvalFunctionInternal links the module, then evaluates it.  *)
(***************************************************************************)
Import(m) ==
    /\ phase = "idle"
    /\ imports < MaxImports
    /\ imports' = imports + 1
    /\ entry' = m
    /\ IF status[m] = "unlinked"
       THEN /\ phase' = "link"
            /\ index = 0 /\ Enter(m, "linking")
       ELSE /\ phase' = "evaluate"
            /\ UNCHANGED <<status, searchVars>>
    /\ UNCHANGED <<graphVars, asyncVars, resultVars, jobVars, bodyVars>>

(***************************************************************************)
(* js_inner_module_linking.                                                *)
(***************************************************************************)
\* A request not yet linked is entered; its frame returns to this same request.
LinkEnter ==
    /\ phase = "link" /\ frames # <<>> /\ ~AtEnd
    /\ status[Request] = "unlinked"
    /\ Enter(Request, "linking")
    /\ UNCHANGED <<graphVars, asyncVars, resultVars, phase, entry, jobVars,
                   bodyVars, imports>>

LinkVisited ==
    /\ phase = "link" /\ frames # <<>> /\ ~AtEnd
    /\ status[Request] # "unlinked"
    /\ dfs_ancestor_index' =
           IF status[Request] = "linking"
           THEN [dfs_ancestor_index EXCEPT ![Top.m] = LowAncestor(Top.m, Request)]
           ELSE dfs_ancestor_index
    /\ frames' = Advance
    /\ UNCHANGED <<graphVars, status, dfs_index, stack, index, asyncVars,
                   resultVars, phase, entry, jobVars, bodyVars, imports>>

\* Its imports are bound; the root of a component takes it off the stack.
LinkDone ==
    /\ phase = "link" /\ frames # <<>> /\ AtEnd
    /\ Top.m \notin broken
    /\ IF IsRoot(Top.m)
       THEN /\ status' = [m \in Modules |->
                            IF m \in Component(Top.m) THEN "linked" ELSE status[m]]
            /\ stack' = StackBelow(Top.m)
       ELSE UNCHANGED <<status, stack>>
    /\ frames' = Tail(frames)
    /\ index' = IF Tail(frames) = <<>> THEN 0 ELSE index
    /\ phase' = IF Tail(frames) = <<>> THEN "evaluate" ELSE "link"
    /\ UNCHANGED <<graphVars, dfs_index, dfs_ancestor_index, asyncVars,
                   resultVars, entry, jobVars, bodyVars, imports>>

Unlinked_OnlyTop(m) == m = Top.m

\* The modules js_link_module takes back after a failure: those on the stack.
Unlinked(m) == m \in ToSet(stack)

\* An import that nobody exports: js_link_module takes everything on the stack back.
LinkFail ==
    /\ phase = "link" /\ frames # <<>> /\ AtEnd
    /\ Top.m \in broken
    /\ status' = [m \in Modules |-> IF Unlinked(m) THEN "unlinked" ELSE status[m]]
    /\ frames' = <<>> /\ stack' = <<>> /\ index' = 0
    /\ phase' = "idle"
    /\ entry' = NoModule
    /\ UNCHANGED <<graphVars, dfs_index, dfs_ancestor_index, asyncVars,
                   resultVars, jobVars, bodyVars, imports>>

(***************************************************************************)
(* js_evaluate_module.                                                     *)
(***************************************************************************)
\* Modules without top-level await that ended after waiting for others: they keep
\* async_evaluation, which js_set_module_evaluated does not reset.
EndedAsync == {d \in Modules : status[d] = "evaluated" /\ ~eval_has_exception[d]
                                /\ async_evaluation[d]}

\* js_evaluate_module goes on with the root of the component.
PromiseHolder(m) == IF status[m] \in Finished THEN cycle_root[m] ELSE m

\* The component has been evaluated, or is being evaluated, at somebody's request.
EvaluateAgain ==
    /\ phase = "evaluate" /\ frames = <<>>
    /\ promise[PromiseHolder(entry)] # "none"
    /\ phase' = "idle" /\ entry' = NoModule
    /\ UNCHANGED <<graphVars, status, searchVars, asyncVars, resultVars,
                   jobVars, bodyVars, imports>>

\* Evaluated as part of another request: the promise is made and, if the module is
\* not in the middle of an asynchronous evaluation, settled at once.
EvaluateKnown ==
    LET m == PromiseHolder(entry)
    IN  /\ phase = "evaluate" /\ frames = <<>>
        /\ promise[m] = "none" /\ status[m] \in Finished
        /\ promise' = [promise EXCEPT ![m] =
                         IF eval_has_exception[m] THEN "rejected"
                         ELSE IF async_evaluation[m] THEN "pending" ELSE "fulfilled"]
        /\ late' = late \union ({m} \intersect EndedAsync)
        /\ phase' = "idle" /\ entry' = NoModule
        /\ UNCHANGED <<graphVars, status, searchVars, asyncVars, cycle_root,
                       eval_has_exception, jobVars, body, started, imports>>

EvaluateNew ==
    /\ phase = "evaluate" /\ frames = <<>>
    /\ promise[entry] = "none" /\ status[entry] = "linked"
    /\ promise' = [promise EXCEPT ![entry] = "pending"]
    /\ pending_async_dependencies' = [pending_async_dependencies EXCEPT ![entry] = 0]
    /\ Enter(entry, "evaluating")
    /\ phase' = "inner"
    /\ UNCHANGED <<graphVars, async_evaluation, timestamp, async_parent_modules,
                   next_timestamp, cycle_root, eval_has_exception, entry,
                   jobVars, bodyVars, imports>>

(***************************************************************************)
(* js_inner_module_evaluation.                                             *)
(***************************************************************************)
InnerEnter ==
    /\ phase = "inner" /\ ~AtEnd
    /\ status[Request] = "linked"
    /\ pending_async_dependencies' =
           [pending_async_dependencies EXCEPT ![Request] = 0]
    /\ Enter(Request, "evaluating")
    /\ UNCHANGED <<graphVars, async_evaluation, timestamp, async_parent_modules,
                   next_timestamp, resultVars, phase, entry, jobVars, bodyVars,
                   imports>>

\* The module whose completion the request stands for.
Awaited == IF status[Request] = "evaluating" THEN Request ELSE cycle_root[Request]

\* The request or the root of its component has already failed.
RequestFailed == status[Request] \in Finished
                 /\ (eval_has_exception[Request] \/ eval_has_exception[Awaited])

IsWaitedFor_Never(d) == FALSE

\* m1->async_evaluation: the requesting module has to wait for it.
IsWaitedFor(d) == async_evaluation[d]

InnerVisited ==
    /\ phase = "inner" /\ ~AtEnd
    /\ status[Request] \in Finished \union {"evaluating"}
    /\ ~RequestFailed
    /\ dfs_ancestor_index' =
           IF status[Request] = "evaluating"
           THEN [dfs_ancestor_index EXCEPT ![Top.m] = LowAncestor(Top.m, Request)]
           ELSE dfs_ancestor_index
    /\ IF IsWaitedFor(Awaited)
       THEN /\ pending_async_dependencies' =
                   [pending_async_dependencies EXCEPT ![Top.m] = @ + 1]
            /\ async_parent_modules' =
                   [async_parent_modules EXCEPT ![Awaited] = Append(@, Top.m)]
       ELSE UNCHANGED <<pending_async_dependencies, async_parent_modules>>
    /\ late' = IF IsWaitedFor(Awaited) /\ Awaited \in EndedAsync
               THEN late \union {Top.m} ELSE late
    /\ frames' = Advance
    /\ UNCHANGED <<graphVars, status, dfs_index, stack, index, async_evaluation,
                   timestamp, next_timestamp, resultVars, phase, entry, jobVars,
                   body, started, imports>>

\* js_evaluate_module after a failure: everything on the stack fails, and the
\* promise of the module it was called for is rejected.
FailStack ==
    /\ status' = [m \in Modules |-> IF m \in ToSet(stack) THEN "evaluated" ELSE status[m]]
    /\ eval_has_exception' =
           [m \in Modules |-> eval_has_exception[m] \/ m \in ToSet(stack)]
    /\ cycle_root' = [m \in Modules |-> IF m \in ToSet(stack) THEN entry ELSE cycle_root[m]]
    /\ promise' = [promise EXCEPT ![entry] = "rejected"]
    /\ frames' = <<>> /\ stack' = <<>> /\ index' = 0
    /\ phase' = "idle" /\ entry' = NoModule
    /\ UNCHANGED <<dfs_index, dfs_ancestor_index>>

InnerFail ==
    /\ phase = "inner" /\ ~AtEnd
    /\ RequestFailed
    /\ FailStack
    /\ UNCHANGED <<graphVars, asyncVars, jobVars, bodyVars, imports>>

\* The function of m is called.  With top-level await it goes on in later jobs.
Run(m, outcome) ==
    /\ body' = [body EXCEPT ![m] = outcome]
    /\ started' = Append(started, m)
    /\ UNCHANGED late

\* Some of its requests have not completed.
Waits(m) == pending_async_dependencies[m] > 0

\* The module on top, all of whose requests have been visited, waits for some of
\* them, starts, or runs to its end; the root of a component takes it off the stack.
InnerDone ==
    LET m == Top.m
        isAsync == Waits(m) \/ m \in has_tla
        asyncNow == [async_evaluation EXCEPT ![m] = @ \/ isAsync]
    IN  /\ phase = "inner" /\ AtEnd
        /\ async_evaluation' = asyncNow
        /\ timestamp' = IF isAsync THEN [timestamp EXCEPT ![m] = next_timestamp]
                        ELSE timestamp
        /\ next_timestamp' = IF isAsync THEN next_timestamp + 1 ELSE next_timestamp
        /\ IF Waits(m) THEN UNCHANGED bodyVars
           ELSE Run(m, IF m \in has_tla THEN "awaiting" ELSE "returned")
        /\ IF IsRoot(m)
           THEN /\ status' = [x \in Modules |->
                                IF x \notin Component(m) THEN status[x]
                                ELSE IF asyncNow[x] THEN "evaluating_async"
                                ELSE "evaluated"]
                /\ cycle_root' = [x \in Modules |->
                                    IF x \in Component(m) THEN m ELSE cycle_root[x]]
                /\ stack' = StackBelow(m)
           ELSE UNCHANGED <<status, cycle_root, stack>>
        /\ frames' = Tail(frames)
        /\ IF Tail(frames) = <<>>
           THEN /\ promise' = [promise EXCEPT ![entry] =
                                 IF asyncNow[entry] THEN @ ELSE "fulfilled"]
                /\ phase' = "idle" /\ entry' = NoModule /\ index' = 0
           ELSE UNCHANGED <<promise, phase, entry, index>>
        /\ UNCHANGED <<graphVars, dfs_index, dfs_ancestor_index,
                       pending_async_dependencies, async_parent_modules,
                       eval_has_exception, jobVars, imports>>

\* The function of a module without top-level await throws.
InnerThrows ==
    /\ phase = "inner" /\ AtEnd
    /\ ~Waits(Top.m) /\ Top.m \notin has_tla
    /\ Run(Top.m, "threw")
    /\ FailStack
    /\ UNCHANGED <<graphVars, asyncVars, jobVars, imports>>

(***************************************************************************)
(* Jobs: what follows when a function with top-level await has ended.      *)
(***************************************************************************)
BodySettles(m, ok) ==
    /\ body[m] = "awaiting"
    /\ phase = "idle"
    /\ body' = [body EXCEPT ![m] = IF ok THEN "returned" ELSE "threw"]
    /\ jobs' = Append(jobs, [m |-> m, ok |-> ok])
    /\ UNCHANGED <<graphVars, status, searchVars, asyncVars, resultVars, phase,
                   entry, work, exec_list, started, late, imports>>

\* The asynchronous evaluation came to nothing in the meantime: the stack it was on
\* has failed.
LateReaction ==
    /\ phase = "idle" /\ jobs # <<>>
    /\ status[Head(jobs).m] = "evaluated"
    /\ jobs' = Tail(jobs)
    /\ UNCHANGED <<graphVars, status, searchVars, asyncVars, resultVars, phase,
                   entry, work, exec_list, bodyVars, imports>>

\* js_set_module_evaluated: the promise, which only the root of a component has.
Evaluated(m) ==
    /\ status' = [status EXCEPT ![m] = "evaluated"]
    /\ promise' = [promise EXCEPT ![m] = IF @ = "none" THEN @ ELSE "fulfilled"]

\* js_async_module_execution_fulfilled, up to gather_available_ancestors.
Fulfilled ==
    LET m == Head(jobs).m
    IN  /\ phase = "idle" /\ jobs # <<>> /\ Head(jobs).ok
        /\ status[m] # "evaluated"
        /\ async_evaluation' = [async_evaluation EXCEPT ![m] = FALSE]
        /\ Evaluated(m)
        /\ jobs' = Tail(jobs) /\ work' = <<m>> /\ phase' = "gather"
        /\ UNCHANGED <<graphVars, searchVars, pending_async_dependencies, timestamp,
                       async_parent_modules, next_timestamp, cycle_root,
                       eval_has_exception, entry, exec_list, bodyVars, imports>>

Occurs(x, s) == Cardinality({k \in DOMAIN s : s[k] = x})

\* The parents gather_available_ancestors looks at: not listed yet, and the root of
\* their component has not failed.
OpenParents(m) == {p \in ToSet(async_parent_modules[m]) :
                      p \notin exec_list /\ ~eval_has_exception[cycle_root[p]]}

\* What p still waits for when m has been evaluated.
Left(p, m) == pending_async_dependencies[p] - Occurs(p, async_parent_modules[m])

Onward_None(freed) == {}

\* Those of the modules set free that will run to their end at once.
Onward(freed) == freed \ has_tla

\* One module's parents; a parent without top-level await will run at once, so its
\* own parents are visited too.
Gather ==
    LET m     == Head(work)
        freed == {p \in OpenParents(m) : Left(p, m) = 0}
    IN  /\ phase = "gather" /\ work # <<>>
        /\ pending_async_dependencies' =
               [p \in Modules |-> IF p \in OpenParents(m) THEN Left(p, m)
                                  ELSE pending_async_dependencies[p]]
        /\ exec_list' = exec_list \union freed
        /\ work' = Tail(work) \o SetToSeq(Onward(freed))
        /\ UNCHANGED <<graphVars, status, searchVars, async_evaluation, timestamp,
                       async_parent_modules, next_timestamp, resultVars, phase,
                       entry, jobs, bodyVars, imports>>

GatherDone ==
    /\ phase = "gather" /\ work = <<>>
    /\ phase' = "exec"
    /\ UNCHANGED <<graphVars, status, searchVars, asyncVars, resultVars, entry,
                   jobVars, bodyVars, imports>>

NextToRun_Latest == CHOOSE m \in exec_list :
                        \A x \in exec_list : timestamp[x] <= timestamp[m]

\* exec_list is sorted by the timestamp of its modules.
NextToRun == CHOOSE m \in exec_list :
                 \A x \in exec_list : timestamp[m] <= timestamp[x]

\* A module of the list is skipped if it failed meanwhile, started if it awaits, run
\* to its end otherwise.
ExecSkip ==
    /\ phase = "exec" /\ work = <<>> /\ exec_list # {}
    /\ status[NextToRun] = "evaluated"
    /\ exec_list' = exec_list \ {NextToRun}
    /\ UNCHANGED <<graphVars, status, searchVars, asyncVars, resultVars, phase,
                   entry, work, jobs, bodyVars, imports>>

ExecAsync ==
    /\ phase = "exec" /\ work = <<>> /\ exec_list # {}
    /\ status[NextToRun] # "evaluated" /\ NextToRun \in has_tla
    /\ Run(NextToRun, "awaiting")
    /\ exec_list' = exec_list \ {NextToRun}
    /\ UNCHANGED <<graphVars, status, searchVars, asyncVars, resultVars, phase,
                   entry, work, jobs, imports>>

ExecSync(ok) ==
    /\ phase = "exec" /\ work = <<>> /\ exec_list # {}
    /\ status[NextToRun] # "evaluated" /\ NextToRun \notin has_tla
    /\ Run(NextToRun, IF ok THEN "returned" ELSE "threw")
    /\ IF ok THEN Evaluated(NextToRun) /\ UNCHANGED work
       ELSE work' = <<NextToRun>> /\ UNCHANGED <<status, promise>>
    /\ exec_list' = exec_list \ {NextToRun}
    /\ UNCHANGED <<graphVars, searchVars, asyncVars, cycle_root,
                   eval_has_exception, phase, entry, jobs, imports>>

ExecDone ==
    /\ phase = "exec" /\ work = <<>> /\ exec_list = {}
    /\ phase' = "idle"
    /\ UNCHANGED <<graphVars, status, searchVars, asyncVars, resultVars, entry,
                   jobVars, bodyVars, imports>>

\* js_async_module_execution_rejected is called for the module of a job ...
Rejected ==
    /\ phase = "idle" /\ jobs # <<>> /\ ~Head(jobs).ok
    /\ status[Head(jobs).m] # "evaluated"
    /\ jobs' = Tail(jobs) /\ work' = <<Head(jobs).m>> /\ phase' = "exec"
    /\ UNCHANGED <<graphVars, status, searchVars, asyncVars, resultVars, entry,
                   exec_list, bodyVars, imports>>

Blamed_NoParents(m) == <<>>

\* The modules that fail because m did.
Blamed(m) == async_parent_modules[m]

\* ... and calls itself for the parents.
Reject ==
    LET m == Head(work)
    IN  /\ phase = "exec" /\ work # <<>>
        /\ IF status[m] = "evaluated"
           THEN work' = Tail(work) /\ UNCHANGED <<status, eval_has_exception, promise>>
           ELSE /\ eval_has_exception' = [eval_has_exception EXCEPT ![m] = TRUE]
                /\ status' = [status EXCEPT ![m] = "evaluated"]
                /\ promise' = [promise EXCEPT ![m] =
                                 IF @ = "none" THEN @ ELSE "rejected"]
                /\ work' = Blamed(m) \o Tail(work)
        /\ UNCHANGED <<graphVars, searchVars, asyncVars, cycle_root, phase, entry,
                       exec_list, jobs, bodyVars, imports>>

Link     == LinkEnter \/ LinkVisited \/ LinkDone \/ LinkFail
Evaluate == \/ EvaluateAgain \/ EvaluateKnown \/ EvaluateNew
            \/ InnerEnter \/ InnerVisited \/ InnerFail \/ InnerDone \/ InnerThrows
React    == \/ LateReaction \/ Fulfilled \/ Gather \/ GatherDone
            \/ ExecSkip \/ ExecAsync \/ (\E ok \in BOOLEAN : ExecSync(ok)) \/ ExecDone
            \/ Rejected \/ Reject

\* Scripts need not import anything more.
Rest == phase = "idle" /\ jobs = <<>> /\ UNCHANGED vars

Next ==
    \/ \E m \in Modules : Import(m)
    \/ Link \/ Evaluate \/ React
    \/ \E m \in Modules, ok \in BOOLEAN : BodySettles(m, ok)
    \/ Rest

Spec == Init /\ [][Next]_vars

\* The engine goes on, and what a module awaits at its top level comes to an end.
Fairness ==
    /\ WF_vars(Link \/ Evaluate \/ React)
    /\ \A m \in Modules : SF_vars(\E ok \in BOOLEAN : BodySettles(m, ok))

FairSpec == Spec /\ Fairness

(***************************************************************************)
(* What must hold.                                                         *)
(***************************************************************************)
Statuses == {"unlinked", "linking", "linked", "evaluating",
             "evaluating_async", "evaluated"}

\* Every variable has its type.
TypeOK ==
    /\ req \in Graphs /\ has_tla \in Awaiting /\ broken \in Unresolvable
    /\ status \in [Modules -> Statuses]
    /\ dfs_index \in [Modules -> Nat]
    /\ dfs_ancestor_index \in [Modules -> Nat]
    /\ pending_async_dependencies \in [Modules -> Nat]
    /\ async_evaluation \in [Modules -> BOOLEAN]
    /\ timestamp \in [Modules -> Nat]
    /\ async_parent_modules \in [Modules -> Seq(Modules)]
    /\ cycle_root \in [Modules -> Modules \union {NoModule}]
    /\ eval_has_exception \in [Modules -> BOOLEAN]
    /\ promise \in [Modules -> {"none", "pending", "fulfilled", "rejected"}]
    /\ phase \in {"idle", "link", "evaluate", "inner", "gather", "exec"}
    /\ entry \in Modules \union {NoModule}
    /\ frames \in Seq([m : Modules, i : Nat \ {0}])
    /\ stack \in Seq(Modules)
    /\ index \in Nat /\ next_timestamp \in Nat /\ imports \in 0 .. MaxImports
    /\ work \in Seq(Modules) /\ exec_list \subseteq Modules
    /\ jobs \in Seq([m : Modules, ok : BOOLEAN])
    /\ body \in [Modules -> {"none", "awaiting", "returned", "threw"}]
    /\ started \in Seq(Modules) /\ late \subseteq Modules

\* What m requests, directly or through others, m included: the least set that has m
\* and what its members request.
Reachable(m) == {d \in Modules : \A S \in SUBSET Modules :
                    m \in S /\ (\A x \in S : ToSet(req[x]) \subseteq S) => d \in S}

\* The modules in the middle of a search are those on the stack; between two jobs
\* there are none, also after a failure (the asserts of js_link_module and
\* js_evaluate_module), so that the next import() finds no half-linked module.
SearchIsStack ==
    /\ {m \in Modules : status[m] \in {"linking", "evaluating"}} = ToSet(stack)
    /\ phase \in {"idle", "gather", "exec"} => stack = <<>>

\* However often and in whatever order modules are imported, the function of a
\* module is called at most once.
RunOnce == \A j, k \in DOMAIN started : started[j] = started[k] => j = k

\* A module's function is called only when everything below its requests has run to
\* its end without an error; only requests that lead back to it may be unfinished.
RequestsRunFirst ==
    \A m \in ToSet(started) : \A d \in ToSet(req[m]) :
        m \notin Reachable(d) => \A e \in Reachable(d) : body[e] = "returned"

\* Modules run once, and after what they request (js_inner_module_evaluation).
RunInTurn == RunOnce /\ RequestsRunFirst

\* gather_available_ancestors never takes a module out of turn: what it counts down
\* is in an asynchronous evaluation, has not failed and still waits (its asserts).
GatherIsInTurn ==
    phase = "gather" /\ work # <<>> =>
        \A p \in OpenParents(Head(work)) :
            /\ status[p] = "evaluating_async" /\ ~eval_has_exception[p]
            /\ async_evaluation[p]
            /\ pending_async_dependencies[p] >=
                   Occurs(p, async_parent_modules[Head(work)])

\* The types, and what the engine asserts while it searches the graph and when it
\* counts down the requesters of a module that has completed.
WellFormed == TypeOK /\ SearchIsStack /\ GatherIsInTurn

\* An import that succeeds has everything it requests evaluated; one that fails has
\* a module that threw among it.
PromiseTellsTheTruth ==
    \A m \in Modules :
        /\ promise[m] = "fulfilled" => \A d \in Reachable(m) : body[d] = "returned"
        /\ promise[m] = "rejected"  => \E d \in Reachable(m) : body[d] = "threw"

\* Once all reactions have run, whoever requested a module that threw has failed,
\* through the root of its cycle.
ErrorReachesRequesters ==
    phase = "idle" /\ jobs = <<>> =>
        \A m \in Modules : status[m] \in Finished =>
            ((\E d \in Reachable(m) : body[d] = "threw")
                => eval_has_exception[cycle_root[m]])

\* What import() and the modules themselves say of an evaluation is what happened, in
\* cycles and through asynchronous modules too (js_async_module_execution_rejected).
OutcomesAreTrue == PromiseTellsTheTruth /\ ErrorReachesRequesters

\* Modules that one completion sets free are started in the order in which they
\* entered the asynchronous evaluation, whatever order their parents were found in.
StartedInOrder ==
    [][\A m \in exec_list \ exec_list' : phase = "exec" =>
          \A x \in exec_list' : timestamp[m] < timestamp[x]]_vars

\* An import ends when what is awaited at top level ends, unless something in it
\* waits for a module that had already ended.
ImportEnds ==
    \A m \in Modules :
        []<>(promise[m] # "pending" \/ Reachable(m) \intersect late # {})

(***************************************************************************)
(* What js_evaluate_module is said to do and does not.                     *)
(***************************************************************************)
\* "Run the <eval> function of the module and of all its requested modules": a module
\* whose evaluation was asked for is run, unless something it requests fails.
EvaluateRuns ==
    \A m \in Modules :
        promise[m] = "pending" ~> (body[m] # "none" \/ promise[m] = "rejected")
=============================================================================
