---------------------------- MODULE ModuleLoader ----------------------------
(***************************************************************************)
(* Loading of modules: the engine looks a specifier up among the modules   *)
(* of the context and otherwise calls qjsp_module_loader, which maps it to *)
(* files; compiling a file creates the module under the file's name and    *)
(* loads what it requests (__JS_EvalInternal, js_resolve_module).          *)
(*                                                                         *)
(* A name is a specifier, resolved against the requesting module.  What it *)
(* is loaded from, a file on disk or the source of an entry of an archive, *)
(* is compiled under a name of its own: the same one, another for lib: and *)
(* qjsp: specifiers, for those with an archive's prefix and for basenames. *)
(***************************************************************************)
EXTENDS Integers, Sequences, FiniteSets, SequencesExt

CONSTANTS
    Names, NoName,
    Fold,           \* of a name: the same for names that differ only in case
    Files,          \* on disk and in archives
    Called,         \* the name a file is compiled under
    Present,        \* the files that exist and parse
    Scripts,        \* those that are run by themselves
    Candidates,     \* the files tried for a name, in order
    Trees,          \* what the files request, in order: [Files -> Seq(Names)]
    MaxMods,        \* bound: module definitions ever made
    MaxRequests     \* bound: evaluations and imports asked for

Mods  == 1 .. MaxMods
NoMod == 0

\* A name may be tried several times, also under itself: in every archive, on disk, and
\* its basename after it (js_module_loader_wrapper).
ASSUME LoaderAssumption ==
    /\ NoName \notin Names
    /\ Called \in [Files -> Names] /\ Present \subseteq Files
    /\ Candidates \in [Names -> Seq(Files)]
    /\ Trees \subseteq [Files -> Seq(Names)]
    /\ MaxMods \in Nat /\ MaxRequests \in Nat

VARIABLES
    requests,   \* what each file requests, by its text
    loaded,     \* ctx->loaded_modules, oldest first
    file,       \* the file a module was compiled from
    deps,       \* the modules its first requests were resolved to
    asked,      \* history: the name it was loaded by, or NoName for a script
    frames,     \* compilations in progress, innermost first
    load_stack, \* g_module_load_stack
    next_mod, calls

vars == <<requests, loaded, file, deps, asked, frames, load_stack, next_mod, calls>>

Init ==
    /\ requests \in Trees
    /\ loaded = <<>>
    /\ file = [m \in Mods |-> NoName]
    /\ deps = [m \in Mods |-> <<>>]
    /\ asked = [m \in Mods |-> NoName]
    /\ frames = <<>> /\ load_stack = <<>>
    /\ next_mod = 1 /\ calls = 0

Live == ToSet(loaded)

NameOf(m) == Called[file[m]]

\* js_find_loaded_module: the first module with this very name, being loaded or not.
Find(n) ==
    LET k == SelectInSeq(loaded, LAMBDA m : NameOf(m) = n)
    IN  IF k = 0 THEN NoMod ELSE loaded[k]

Top      == Head(frames)
Below    == Tail(frames)
Text     == requests[file[Top.mod]]
AtEnd    == Top.at > Len(Text)
Request  == Text[Top.at]
With(fr) == <<fr>> \o Below

\* A call of the loader, or of the compiler for a script, with its files to try.
Frame(n, fs) == [name |-> n, alts |-> fs, mod |-> NoMod, at |-> 1]

InProgress_Never(n) == FALSE

\* The loader refuses a name that is on its stack, in whatever case (TStringList.IndexOf).
InProgress(n) == \E x \in ToSet(load_stack) : Fold[x] = Fold[n]

(***************************************************************************)
(* RunScriptFile and import(): the outermost call.                         *)
(***************************************************************************)
EvalFile(f) ==
    /\ frames = <<>> /\ calls < MaxRequests
    /\ f \in Present
    /\ frames' = <<Frame(NoName, <<f>>)>>
    /\ calls' = calls + 1
    /\ UNCHANGED <<requests, loaded, file, deps, asked, load_stack, next_mod>>

Import(n) ==
    /\ frames = <<>> /\ calls < MaxRequests
    /\ Find(n) = NoMod
    /\ frames' = <<Frame(n, Candidates[n])>>
    /\ load_stack' = Append(load_stack, n)
    /\ calls' = calls + 1
    /\ UNCHANGED <<requests, loaded, file, deps, asked, next_mod>>

\* JS_FreeContext, at a reload or the end of a daemon job.
Restart ==
    /\ frames = <<>> /\ loaded # <<>>
    /\ loaded' = <<>>
    /\ UNCHANGED <<requests, file, deps, asked, frames, load_stack, next_mod, calls>>

(***************************************************************************)
(* One file is compiled.                                                   *)
(***************************************************************************)
Registered_Later(l, m) == l

\* js_new_module_def puts the module on the list before its requests are loaded.
Registered(l, m) == Append(l, m)

\* js_mallocz: another module definition than all before it.
FreshAfter(m) == m + 1

Compile ==
    /\ frames # <<>> /\ Top.mod = NoMod /\ Top.alts # <<>>
    /\ Head(Top.alts) \in Present
    /\ next_mod \in Mods
    /\ loaded' = Registered(loaded, next_mod)
    /\ file' = [file EXCEPT ![next_mod] = Head(Top.alts)]
    /\ asked' = [asked EXCEPT ![next_mod] = Top.name]
    /\ frames' = With([Top EXCEPT !.mod = next_mod, !.at = 1, !.alts = Tail(@)])
    /\ next_mod' = FreshAfter(next_mod)
    /\ UNCHANGED <<requests, deps, load_stack, calls>>

\* The file is missing or does not parse.
SkipFile ==
    /\ frames # <<>> /\ Top.mod = NoMod /\ Top.alts # <<>>
    /\ Head(Top.alts) \notin Present
    /\ frames' = With([Top EXCEPT !.alts = Tail(@)])
    /\ UNCHANGED <<requests, loaded, file, deps, asked, load_stack, next_mod, calls>>

(***************************************************************************)
(* js_resolve_module: the requests of the module on top, one at a time.    *)
(***************************************************************************)
Resolved(fr, d) ==
    /\ deps' = [deps EXCEPT ![fr.mod] = Append(@, d)]

RequireLoaded ==
    /\ frames # <<>> /\ Top.mod # NoMod /\ ~AtEnd
    /\ Find(Request) # NoMod
    /\ Resolved(Top, Find(Request))
    /\ frames' = With([Top EXCEPT !.at = @ + 1])
    /\ UNCHANGED <<requests, loaded, file, asked, load_stack, next_mod, calls>>

RequireNew ==
    /\ frames # <<>> /\ Top.mod # NoMod /\ ~AtEnd
    /\ Find(Request) = NoMod /\ ~InProgress(Request)
    /\ frames' = <<Frame(Request, Candidates[Request])>> \o frames
    /\ load_stack' = Append(load_stack, Request)
    /\ UNCHANGED <<requests, loaded, file, deps, asked, next_mod, calls>>

Freed_Newest(l, m) == Front(l)

\* fail1: the module whose request failed is taken off the list and freed; what it
\* had loaded before stays.
Freed(l, m) == RemoveFirst(l, m)

\* QJSP_E_MODULE_CIRCULAR_IMPORT: the request fails, and with it the module.
Refuse ==
    /\ frames # <<>> /\ Top.mod # NoMod /\ ~AtEnd
    /\ Find(Request) = NoMod /\ InProgress(Request)
    /\ loaded' = Freed(loaded, Top.mod)
    /\ frames' = With([Top EXCEPT !.mod = NoMod])
    /\ UNCHANGED <<requests, file, deps, asked, load_stack, next_mod, calls>>

Popped_OnlyScripts(s, n) == s

\* The finally part of qjsp_module_loader.
Popped(s, n) == IF n = NoName THEN s ELSE Front(s)

\* All requests resolved: the loader returns the module to the request below.
Finish ==
    /\ frames # <<>> /\ Top.mod # NoMod /\ AtEnd
    /\ load_stack' = Popped(load_stack, Top.name)
    /\ IF Below = <<>> THEN frames' = <<>> /\ UNCHANGED deps
       ELSE /\ Resolved(Head(Below), Top.mod)
            /\ frames' = <<[Head(Below) EXCEPT !.at = @ + 1]>> \o Tail(Below)
    /\ UNCHANGED <<requests, loaded, file, asked, next_mod, calls>>

\* No file is left to try: the loader returns nil, the request below fails, and its
\* module is freed; its own loader goes on with its next file.
GiveUp ==
    /\ frames # <<>> /\ Top.mod = NoMod /\ Top.alts = <<>>
    /\ load_stack' = Popped(load_stack, Top.name)
    /\ IF Below = <<>> THEN frames' = <<>> /\ UNCHANGED loaded
       ELSE /\ frames' = <<[Head(Below) EXCEPT !.mod = NoMod]>> \o Tail(Below)
            /\ loaded' = Freed(loaded, Head(Below).mod)
    /\ UNCHANGED <<requests, file, deps, asked, next_mod, calls>>

Load == Compile \/ SkipFile \/ RequireLoaded \/ RequireNew \/ Refuse \/ Finish \/ GiveUp

\* Scripts need not ask for more; the instance ends at its bound.
Rest == (frames = <<>> \/ next_mod \notin Mods) /\ UNCHANGED vars

Next ==
    \/ \E f \in Scripts : EvalFile(f)
    \/ \E n \in Names : Import(n)
    \/ Restart \/ Load \/ Rest

Spec     == Init /\ [][Next]_vars
FairSpec == Spec /\ WF_vars(Load)

(***************************************************************************)
(* What must hold.                                                         *)
(***************************************************************************)
\* Every variable has its type, and no module is on the list twice.
TypeOK ==
    /\ requests \in [Files -> Seq(Names)]
    /\ loaded \in Seq(Mods) /\ IsInjective(loaded)
    /\ file \in [Mods -> Files \union {NoName}]
    /\ deps \in [Mods -> Seq(Mods)]
    /\ asked \in [Mods -> Names \union {NoName}]
    /\ frames \in Seq([name : Names \union {NoName}, alts : Seq(Files),
                       mod : Mods \union {NoMod}, at : Nat \ {0}])
    /\ load_stack \in Seq(Names)
    /\ next_mod \in 1 .. MaxMods + 1 /\ calls \in 0 .. MaxRequests

\* The compilations in progress that the loader was called for: all but a script.
Loads == {k \in DOMAIN frames : frames[k].name # NoName}

\* The load stack names exactly the loads in progress, the outermost first, each asked
\* for by the one below it, and is empty when nothing is being loaded: a failed load
\* leaves no name behind that would make the next import of it look circular.
LoadStackIsChain ==
    /\ Loads = DOMAIN load_stack
    /\ \A k \in Loads : frames[k].name = load_stack[Len(load_stack) + 1 - k]
    /\ \A k \in 2 .. Len(frames) :
           /\ frames[k].mod # NoMod
           /\ frames[k].at <= Len(requests[file[frames[k].mod]])
           /\ requests[file[frames[k].mod]][frames[k].at] = frames[k - 1].name

\* The types, and a load stack that tells what is being loaded (qjsp_module_loader).
WellFormed == TypeOK /\ LoadStackIsChain

\* A request is called circular only if its name is being loaded in another case, or
\* from a file of another name: cycles of modules that go by their own names load.
CircularIsAliased ==
    frames # <<>> /\ Top.mod # NoMod /\ ~AtEnd /\ Find(Request) = NoMod
        /\ InProgress(Request)
    => \E k \in Loads : /\ Fold[frames[k].name] = Fold[Request]
                         /\ \/ frames[k].name # Request
                            \/ /\ frames[k].mod # NoMod
                               /\ NameOf(frames[k].mod) # Request

\* When nothing is being loaded, every module on the list has all its requests
\* resolved: a module that failed half way is never found again.
CompleteWhenIdle ==
    frames = <<>> => \A m \in Live : Len(deps[m]) = Len(requests[file[m]])

\* What a request of n may get.
Answers(n) == ToSet(Candidates[n]) \union {x \in Files : Called[x] = n}
FilesOf(f) == UNION {Answers(n) : n \in ToSet(requests[f])}

\* The files that f leads to by its requests: what is in every set that holds the
\* files of f's requests and, with a file, those of its requests.
Leads(f) == {g \in Files : \A S \in SUBSET Files :
                FilesOf(f) \subseteq S /\ (\A x \in S : FilesOf(x) \subseteq S) => g \in S}

\* A module on the list refers to one that was freed only if the two lead to each
\* other: it was loaded for the other, found it on the list, and survived its failure.
FreedOnlyInCycle ==
    \A m \in Live : \A d \in ToSet(deps[m]) \ Live :
        file[m] \in Leads(file[d]) /\ file[d] \in Leads(file[m])

\* A load that fails takes with it what it had put on the list: what can be found
\* later is complete, but for cycles (js_resolve_module, js_free_module_def).
ListIsComplete == CompleteWhenIdle /\ FreedOnlyInCycle

\* Of the copies of a module on the list, one at most was loaded by its own name; any
\* other is of a script or another specifier, also when the name is tried again after an
\* earlier attempt had left such a copy.
OneCopyByName ==
    \A m, d \in Live :
        NameOf(m) = NameOf(d) /\ asked[m] = NameOf(m) /\ asked[d] = NameOf(d) => m = d

\* Only a module that is asked for by more than one specifier, or in more than one case,
\* is loaded twice or called circular (js_find_loaded_module, the load stack).
AliasesOnly == CircularIsAliased /\ OneCopyByName

\* Every load ends, also in a cycle of mounted specifiers.
LoadEnds == frames # <<>> ~> frames = <<>>

(***************************************************************************)
(* What a comment of the engine asks for and the code does not do.         *)
(***************************************************************************)
\* "should free all the unresolved dependencies": no module on the list refers to a
\* module that was freed.
NoFreedDependency ==
    frames = <<>> => \A m \in Live : ToSet(deps[m]) \subseteq Live
=============================================================================
