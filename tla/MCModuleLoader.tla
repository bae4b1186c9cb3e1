--------------------------- MODULE MCModuleLoader ---------------------------
(* Finite instances of ModuleLoader for TLC. *)
EXTENDS ModuleLoader
CONSTANTS
    f, g, h,    \* names, and the files of these names
    F,          \* f in another case: the same file where the file system ignores case
    miss,       \* a name for which nothing is found
    sub,        \* dir/h, which does not exist: the loader falls back on its basename, h
    qg,         \* qjsp:g
    lh,         \* lib:h, with h.js and, failing that, its index f
    arch        \* the entry h of an archive, tried before the file h

Tried == [n \in Names |-> CASE n = h   -> <<arch, h>>
                            [] n = sub -> <<sub, arch, h>>
                            [] n = qg  -> <<g>>
                            [] n = lh  -> <<h, f>>
                            [] n = miss -> <<>>
                            [] OTHER   -> <<n>>]

Compiled == [x \in Files |-> IF x = arch THEN h ELSE x]
CaseFold == [n \in Names |-> IF n = F THEN f ELSE n]

Tree(rf, rg, rh, ra) ==
    [x \in Files |-> CASE x \in {f, F} -> rf [] x = g -> rg [] x = h -> rh
                       [] x = arch -> ra [] OTHER -> <<>>]
\* Direct and mounted requests that close cycles, share a file or fail, in all
\* combinations.
SomeTrees == {Tree(rf, rg, rh, ra) :
    rf \in {<<g>>, <<qg>>, <<g, miss>>, <<h, g>>},
    rg \in {<<>>, <<F>>, <<sub>>, <<lh>>, <<h, f>>},
    rh \in {<<>>, <<qg>>, <<g, miss>>},
    ra \in {<<sub, miss>>, <<f>>}}
\* f requests g and something that is missing; g requests f.
Cycle == {Tree(<<g, miss>>, <<f>>, <<>>, <<>>)}
=============================================================================
