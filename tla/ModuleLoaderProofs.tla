------------------------- MODULE ModuleLoaderProofs -------------------------
(***************************************************************************)
(* Proofs about module ModuleLoader: what holds of the modules on the      *)
(* list, of the loads in progress and of the load stack for every set of   *)
(* files and names, all candidates and requests, and every bound.          *)
(***************************************************************************)
EXTENDS ModuleLoader, DataLemmas, TLAPS

\* A module definition is made once: what is on the list was made before, and nothing
\* refers to what is still to be made.
Old ==
    /\ \A m \in Live : m < next_mod /\ file[m] \in Files
    /\ \A m \in Mods : m >= next_mod => deps[m] = <<>>
    /\ \A m \in Mods : \A d \in ToSet(deps[m]) : d < next_mod

\* Each compilation in progress has a module of its own, on the list.
Held ==
    /\ \A k \in DOMAIN frames : frames[k].mod # NoMod => frames[k].mod \in Live
    /\ \A j, k \in DOMAIN frames :
          frames[j].mod = frames[k].mod /\ frames[j].mod # NoMod => j = k

\* A load compiles one of the files of its name.
Fitting ==
    \A k \in DOMAIN frames : frames[k].name # NoName =>
        /\ ToSet(frames[k].alts) \subseteq ToSet(Candidates[frames[k].name])
        /\ frames[k].mod # NoMod =>
              file[frames[k].mod] \in ToSet(Candidates[frames[k].name])

\* No two loads in progress are of the same name, and the module that one is compiling is
\* the only one on the list that was loaded by its name and has it.
Sole ==
    /\ \A k \in DOMAIN frames : \A m \in Live :
          frames[k].name # NoName /\ asked[m] = frames[k].name /\ NameOf(m) = frames[k].name
              => frames[k].mod = m
    /\ \A j, k \in DOMAIN frames :
          frames[j].name # NoName /\ frames[j].name = frames[k].name => j = k

\* How many requests of a module have been resolved: all, or those before the one its
\* compilation is at.
Counted ==
    \A m \in Live :
        /\ (\A k \in DOMAIN frames : frames[k].mod # m)
              => Len(deps[m]) = Len(requests[file[m]])
        /\ \A k \in DOMAIN frames : frames[k].mod = m =>
              /\ Len(deps[m]) = frames[k].at - 1
              /\ frames[k].at <= Len(requests[file[m]]) + 1

\* The files that f leads to (Leads), of what all files request.
FilesIn(req, f) == UNION {Answers(n) : n \in ToSet(req[f])}
LeadsIn(req, f) == {g \in Files : \A S \in SUBSET Files :
    FilesIn(req, f) \subseteq S /\ (\A x \in S : FilesIn(req, x) \subseteq S) => g \in S}

\* What is being compiled leads to what is being compiled for it.
LeadsDown ==
    \A j, k \in DOMAIN frames :
        j < k /\ frames[j].mod # NoMod
            => file[frames[j].mod] \in LeadsIn(requests, file[frames[k].mod])

\* Who refers to a module that is still being compiled, or failed to, is in a cycle
\* with it.
Tied ==
    \A m \in Live : \A d \in ToSet(deps[m]) :
        (d \notin Live \/ \E k \in DOMAIN frames : frames[k].mod = d)
            => file[m] \in LeadsIn(requests, file[d]) /\ file[d] \in LeadsIn(requests, file[m])

IInv == /\ TypeOK /\ LoadStackIsChain /\ Old /\ Held /\ Fitting /\ Sole /\ Counted
        /\ LeadsDown /\ Tied /\ OneCopyByName

(***************************************************************************)
(* The operators of the model.                                             *)
(***************************************************************************)
\* js_find_loaded_module finds a module of that name if there is one on the list.
LEMMA FindFacts ==
    ASSUME TypeOK, NEW n \in Names
    PROVE  /\ Find(n) = NoMod => \A m \in Live : NameOf(m) # n
           /\ Find(n) # NoMod => Find(n) \in Live /\ NameOf(Find(n)) = n
  <1> DEFINE I == {i \in 1 .. Len(loaded) : NameOf(loaded[i]) = n}
             k == SelectInSeq(loaded, LAMBDA m : NameOf(m) = n)
  <1>1. loaded \in Seq(Mods) /\ NoMod \notin Mods
    BY DEF TypeOK, Mods, NoMod
  <1>2. Find(n) = IF k = 0 THEN NoMod ELSE loaded[k]
    BY DEF Find
  <1>3. k = IF I # {} THEN Min(I) ELSE 0
    BY DEF SelectInSeq
  <1> HIDE DEF k
  <1>4. CASE I = {}
    <2>1. Find(n) = NoMod
      BY <1>2, <1>3, <1>4
    <2>2. ASSUME NEW m \in Live PROVE NameOf(m) # n
      BY <1>1, <1>4 DEF Live, ToSet
    <2> QED
      BY <2>1, <2>2
  <1>5. CASE I # {}
    <2>1. I \subseteq Nat /\ I \subseteq 1 .. Len(loaded)
      OBVIOUS
    <2>2. Min(I) \in I
      <3> HIDE DEF I
      <3> QED
        BY <1>5, <2>1, LeastChosen
    <2>3. k \in I
      BY <1>3, <1>5, <2>2
    <2>4. k # 0 /\ loaded[k] \in Live /\ loaded[k] \in Mods /\ NameOf(loaded[k]) = n
      BY <1>1, <2>3 DEF Live, ToSet
    <2> QED
      BY <1>1, <1>2, <2>4
  <1> QED
    BY <1>4, <1>5

\* What a file requests is what it leads to, and what that requests too.
LEMMA LeadsFacts ==
    ASSUME TypeOK, NEW f \in Files
    PROVE  /\ FilesIn(requests, f) \subseteq LeadsIn(requests, f)
           /\ LeadsIn(requests, f) \subseteq Files
           /\ \A x \in LeadsIn(requests, f) : FilesIn(requests, x) \subseteq LeadsIn(requests, f)
  <1>1. ASSUME NEW x \in Files PROVE FilesIn(requests, x) \subseteq Files
    <2>1. requests[x] \in Seq(Names) /\ Candidates \in [Names -> Seq(Files)]
      BY LoaderAssumption DEF TypeOK
    <2>2. ToSet(requests[x]) \subseteq Names
      BY <2>1 DEF ToSet
    <2>3. \A n \in Names : Answers(n) \subseteq Files
      BY <2>1 DEF Answers, ToSet
    <2> QED
      BY <2>2, <2>3 DEF FilesIn
  <1> QED
    BY <1>1 DEF LeadsIn

\* js_free_module_def takes one module off the list and leaves the others in order.
LEMMA FreedFacts ==
    ASSUME NEW l \in Seq(Mods), IsInjective(l), NEW m \in ToSet(l)
    PROVE  /\ Freed(l, m) \in Seq(Mods) /\ IsInjective(Freed(l, m))
           /\ ToSet(Freed(l, m)) = ToSet(l) \ {m}
           /\ \A j, k \in DOMAIN Freed(l, m) : j < k =>
                 \E a, b \in DOMAIN l : /\ a < b /\ l[a] = Freed(l, m)[j]
                                        /\ l[b] = Freed(l, m)[k]
  <1>1. PICK n \in DOMAIN l : l[n] = m /\ Freed(l, m) = RemoveAt(l, n)
    BY RemoveFirstFacts DEF Freed
  <1>2. PICK r : r = RemoveAt(l, n)
    OBVIOUS
  <1>3. /\ r \in Seq(Mods) /\ DOMAIN l = 1 .. Len(l) /\ Len(l) \in Nat
        /\ DOMAIN r = 1 .. Len(l) - 1
        /\ \A i \in DOMAIN r : \E j \in DOMAIN l \ {n} :
              r[i] = l[j] /\ j = (IF i < n THEN i ELSE i + 1)
        /\ \A j \in DOMAIN l \ {n} : \E i \in DOMAIN r : r[i] = l[j]
    BY <1>1, <1>2, RemoveAtFacts, RemoveAtPlaces
  <1>4. \A i, j \in DOMAIN l : l[i] = l[j] => i = j
    BY DEF IsInjective
  <1>5. ToSet(r) = ToSet(l) \ {m}
    BY <1>1, <1>3, <1>4 DEF ToSet
  <1>6. ASSUME NEW j \in DOMAIN r, NEW k \in DOMAIN r, j < k
        PROVE  \E a, b \in DOMAIN l : a < b /\ l[a] = r[j] /\ l[b] = r[k]
    <2>1. PICK a \in DOMAIN l : r[j] = l[a] /\ a = (IF j < n THEN j ELSE j + 1)
      BY <1>3
    <2>2. PICK b \in DOMAIN l : r[k] = l[b] /\ b = (IF k < n THEN k ELSE k + 1)
      BY <1>3
    <2>3. a < b
      <3>1. n \in Int /\ j \in Int /\ k \in Int
        BY <1>3
      <3>2. /\ j < n => a = j
            /\ ~(j < n) => a = j + 1
            /\ k < n => b = k
            /\ ~(k < n) => b = k + 1
        BY <2>1, <2>2
      <3> QED
        BY <1>6, <3>1, <3>2
    <2> QED
      BY <2>1, <2>2, <2>3
  <1>7. ASSUME NEW j \in DOMAIN r, NEW k \in DOMAIN r, r[j] = r[k] PROVE j = k
    <2>1. CASE j < k
      BY <1>4, <1>6, <1>7, <2>1, <1>3
    <2>2. CASE k < j
      BY <1>4, <1>6, <1>7, <2>2, <1>3
    <2> QED
      BY <1>3, <2>1, <2>2
  <1>8. IsInjective(r)
    BY <1>7 DEF IsInjective
  <1> QED
    BY <1>1, <1>2, <1>3, <1>5, <1>6, <1>8

(***************************************************************************)
(* Types.                                                                  *)
(***************************************************************************)
Compilation == [name : Names \union {NoName}, alts : Seq(Files),
                mod : Mods \union {NoMod}, at : Nat \ {0}]

LEMMA Types ==
    ASSUME TypeOK
    PROVE  /\ requests \in [Files -> Seq(Names)]
           /\ loaded \in Seq(Mods) /\ IsInjective(loaded) /\ Live \subseteq Mods
           /\ file \in [Mods -> Files \union {NoName}]
           /\ deps \in [Mods -> Seq(Mods)]
           /\ asked \in [Mods -> Names \union {NoName}]
           /\ frames \in Seq(Compilation) /\ load_stack \in Seq(Names)
           /\ next_mod \in Nat \ {0} /\ calls \in 0 .. MaxRequests
           /\ next_mod <= MaxMods + 1
  BY LoaderAssumption, ListElements DEF TypeOK, Live, Compilation

LEMMA Constants ==
    /\ NoMod \notin Mods /\ NoName \notin Names /\ Called \in [Files -> Names]
    /\ Mods \subseteq Nat \ {0} /\ MaxMods \in Nat
    /\ Candidates \in [Names -> Seq(Files)] /\ Present \subseteq Files
  BY LoaderAssumption DEF NoMod, Mods

\* A compilation goes on.
LEMMA CompilationChanged ==
    ASSUME NEW c \in Compilation, NEW a \in Seq(Files), NEW m \in Mods \union {NoMod},
           NEW i \in Nat \ {0}
    PROVE  /\ [c EXCEPT !.alts = a] \in Compilation
           /\ [c EXCEPT !.mod = m] \in Compilation
           /\ [c EXCEPT !.at = i] \in Compilation
           /\ [c EXCEPT !.mod = m, !.at = i, !.alts = a] \in Compilation
  <1> DEFINE N == Names \union {NoName}
             A == Seq(Files)
             M == Mods \union {NoMod}
             I == Nat \ {0}
  <1>1. c \in [name : N, alts : A, mod : M, at : I] /\ a \in A /\ m \in M /\ i \in I
    BY DEF Compilation
  <1> HIDE DEF N, A, M, I
  <1>2. [c EXCEPT !.alts = a] \in [name : N, alts : A, mod : M, at : I]
    BY <1>1
  <1>3. [c EXCEPT !.mod = m] \in [name : N, alts : A, mod : M, at : I]
    BY <1>1
  <1>4. [c EXCEPT !.at = i] \in [name : N, alts : A, mod : M, at : I]
    BY <1>1
  <1>5. [c EXCEPT !.mod = m, !.at = i, !.alts = a] \in [name : N, alts : A, mod : M, at : I]
    BY <1>1
  <1> QED
    BY <1>2, <1>3, <1>4, <1>5 DEF N, A, M, I, Compilation
\* The compilation on top, and what it is at.
LEMMA TopFacts ==
    ASSUME TypeOK, frames # <<>>
    PROVE  /\ Top = frames[1] /\ Top \in Compilation
           /\ Top.name \in Names \union {NoName} /\ Top.alts \in Seq(Files)
           /\ Top.mod \in Mods \union {NoMod} /\ Top.at \in Nat \ {0}
           /\ Below \in Seq(Compilation)
           /\ Len(frames) \in Nat \ {0} /\ DOMAIN frames = 1 .. Len(frames)
           /\ Below = <<>> <=> Len(frames) = 1
  <1>1. frames \in Seq(Compilation)
    BY Types
  <1>2. /\ Tail(frames) \in Seq(Compilation)
        /\ Len(frames) \in Nat \ {0} /\ DOMAIN frames = 1 .. Len(frames)
        /\ Head(frames) = frames[1]
    BY <1>1, HeadDropped
  <1>3. Tail(frames) = <<>> <=> Len(frames) = 1
    BY <1>1, HeadDropped
  <1>4. frames[1] \in Compilation
    BY <1>1, <1>2
  <1>5. /\ frames[1].name \in Names \union {NoName} /\ frames[1].alts \in Seq(Files)
        /\ frames[1].mod \in Mods \union {NoMod} /\ frames[1].at \in Nat \ {0}
    BY <1>4 DEF Compilation
  <1> QED
    BY <1>2, <1>3, <1>4, <1>5 DEF Top, Below

\* A compilation in progress and the text it is at.
LEMMA TextFacts ==
    ASSUME TypeOK, Old, Held, frames # <<>>, Top.mod # NoMod
    PROVE  /\ Top.mod \in Live /\ Top.mod \in Mods /\ file[Top.mod] \in Files
           /\ Text \in Seq(Names)
           /\ ~AtEnd => Top.at \in DOMAIN Text /\ Top.at <= Len(Text) /\ Request \in Names
  <1>1. Top.mod \in Live /\ Top.mod \in Mods
    BY TopFacts, Types DEF Held
  <1>2. file[Top.mod] \in Files
    BY <1>1 DEF Old
  <1>3. Text \in Seq(Names)
    BY <1>2, Types DEF Text
  <1>4. ASSUME ~AtEnd PROVE Top.at \in DOMAIN Text /\ Top.at <= Len(Text) /\ Request \in Names
    <2>1. Top.at \in Nat \ {0} /\ Len(Text) \in Nat /\ DOMAIN Text = 1 .. Len(Text)
      BY <1>3, TopFacts
    <2>2. Top.at <= Len(Text) /\ Top.at \in DOMAIN Text
      BY <1>4, <2>1 DEF AtEnd
    <2> QED
      BY <1>3, <2>2 DEF Request
  <1> QED
    BY <1>1, <1>2, <1>3, <1>4

(***************************************************************************)
(* The invariant is kept by every action.                                  *)
(***************************************************************************)
LEMMA CompileKeeps ==
    ASSUME IInv, Compile
    PROVE  IInv'
  <1> USE DEF IInv
  <1> DEFINE fr == [Top EXCEPT !.mod = next_mod, !.at = 1, !.alts = Tail(@)]
             f == Head(Top.alts)
             n == Len(frames)
  <1>1. /\ frames # <<>> /\ Top.mod = NoMod /\ Top.alts # <<>> /\ f \in Present
        /\ next_mod \in Mods /\ loaded' = Append(loaded, next_mod)
        /\ file' = [file EXCEPT ![next_mod] = f]
        /\ asked' = [asked EXCEPT ![next_mod] = Top.name]
        /\ next_mod' = next_mod + 1
        /\ requests' = requests /\ deps' = deps /\ load_stack' = load_stack
        /\ calls' = calls
    BY DEF Compile, Registered, FreshAfter
  <1>2. /\ Top = frames[1] /\ Top \in Compilation /\ Top.alts \in Seq(Files)
        /\ Top.name \in Names \union {NoName} /\ n \in Nat \ {0} /\ DOMAIN frames = 1 .. n
    BY <1>1, TopFacts
  <1>3. Tail(Top.alts) \in Seq(Files) /\ f \in ToSet(Top.alts)
        /\ ToSet(Tail(Top.alts)) \subseteq ToSet(Top.alts) /\ f \in Files
    <2>1. Top.alts \in Seq(Files) /\ Top.alts # <<>>
      BY <1>1, <1>2
    <2>2. /\ Tail(Top.alts) \in Seq(Files) /\ Head(Top.alts) \in ToSet(Top.alts)
          /\ ToSet(Top.alts) = {Head(Top.alts)} \union ToSet(Tail(Top.alts))
      BY <2>1, ListElements
    <2>3. f \in Files
      BY <1>1, Constants
    <2> QED
      BY <2>2, <2>3
  <1>5. frames' = <<fr>> \o Tail(frames)
    BY DEF Compile, With, Below
  <1>6. fr \in Compilation
    <2>1. Tail(Top.alts) \in Seq(Files) /\ next_mod \in Mods \union {NoMod}
      BY <1>1, <1>3
    <2>2. 1 \in Nat \ {0}
      OBVIOUS
    <2>3. \A a \in Seq(Files), m \in Mods \union {NoMod}, i \in Nat \ {0} :
             [Top EXCEPT !.mod = m, !.at = i, !.alts = a] \in Compilation
      BY <1>2, CompilationChanged
    <2> QED
      BY <2>1, <2>2, <2>3
  <1>7. /\ frames' \in Seq(Compilation) /\ frames' # <<>> /\ DOMAIN frames' = 1 .. n
        /\ frames'[1] = fr
        /\ \A k \in 2 .. n : frames'[k] = frames[k]
    <2>1. frames \in Seq(Compilation)
      BY Types
    <2> HIDE DEF fr
    <2> QED
      BY <1>1, <1>2, <1>5, <1>6, <2>1, HeadReplaced
  <1>8. /\ fr.name = Top.name /\ fr.alts = Tail(Top.alts) /\ fr.mod = next_mod /\ fr.at = 1
    BY <1>2 DEF Compilation
  <1> HIDE DEF fr, f
  <1>9. /\ next_mod \notin Live /\ Live' = Live \union {next_mod}
        /\ \A m \in Live : file'[m] = file[m] /\ asked'[m] = asked[m] /\ m \in Mods
        /\ file'[next_mod] = f /\ asked'[next_mod] = Top.name
    <2>1. next_mod \notin Live
      <3>1. \A m \in Live : m < next_mod
        BY DEF Old
      <3>2. next_mod \in Nat
        BY Types
      <3> QED
        BY <3>1, <3>2
    <2>2. ToSet(Append(loaded, next_mod)) = ToSet(loaded) \union {next_mod}
      BY <1>1, Types, ListElements
    <2>3. Live' = Live \union {next_mod}
      BY <1>1, <2>2 DEF Live
    <2> QED
      BY <1>1, <2>1, <2>3, Types
  <1>10. /\ \A k \in 2 .. n : frames[k].mod \in Live /\ frames[k].mod # NoMod
         /\ \A k \in DOMAIN frames' : frames'[k].mod # next_mod => k \in 2 .. n
    <2>1. \A k \in 2 .. n : frames[k].mod # NoMod
      BY DEF LoadStackIsChain
    <2>2. \A k \in 2 .. n : k \in DOMAIN frames
      BY <1>2
    <2>3. \A k \in 1 .. n : k = 1 \/ k \in 2 .. n
      BY <1>2
    <2> QED
      BY <1>7, <1>8, <2>1, <2>2, <2>3 DEF Held
  <1>11. /\ DOMAIN loaded' = 1 .. Len(loaded) + 1 /\ loaded' \in Seq(Mods)
         /\ \A i \in DOMAIN loaded' :
               loaded'[i] = IF i = Len(loaded) + 1 THEN next_mod ELSE loaded[i]
         /\ Len(loaded) \in Nat /\ DOMAIN loaded = 1 .. Len(loaded)
         /\ \A i \in DOMAIN loaded : loaded[i] \in Live
    <2>1. loaded \in Seq(Mods)
      BY Types
    <2> QED
      BY <1>1, <2>1, AppendFacts DEF Live, ToSet
  <1>12. TypeOK'
    <2>1. IsInjective(loaded')
      <3>1. ASSUME NEW i \in DOMAIN loaded', NEW j \in DOMAIN loaded',
                   loaded'[i] = loaded'[j]
            PROVE  i = j
        <4>1. \A a, b \in DOMAIN loaded : loaded[a] = loaded[b] => a = b
          BY Types DEF IsInjective
        <4>2. CASE i = Len(loaded) + 1 \/ j = Len(loaded) + 1
          BY <1>9, <1>11, <3>1, <4>2
        <4>3. CASE i # Len(loaded) + 1 /\ j # Len(loaded) + 1
          BY <1>11, <3>1, <4>1, <4>3
        <4> QED
          BY <4>2, <4>3
      <3> QED
        BY <3>1 DEF IsInjective
    <2>2. next_mod' \in 1 .. MaxMods + 1
      BY <1>1, Constants DEF Mods
    <2>3. /\ file' \in [Mods -> Files \union {NoName}]
          /\ asked' \in [Mods -> Names \union {NoName}]
      BY <1>1, <1>2, <1>3, Types
    <2> QED
      BY <1>1, <1>7, <1>11, <2>1, <2>2, <2>3 DEF TypeOK, Compilation
  <1>13. LoadStackIsChain'
    <2>1. \A k \in 1 .. n : frames'[k].name = frames[k].name
      <3>1. \A k \in 1 .. n : k = 1 \/ k \in 2 .. n
        BY <1>2
      <3> QED
        BY <1>2, <1>7, <1>8, <3>1
    <2>2. Loads' = Loads
      BY <1>2, <1>7, <2>1 DEF Loads
    <2>3. Len(frames') = n
      BY <1>2, <1>7
    <2>4. ASSUME NEW k \in 2 .. n
          PROVE  /\ frames'[k].mod # NoMod
                 /\ frames'[k].at <= Len(requests'[file'[frames'[k].mod]])
                 /\ requests'[file'[frames'[k].mod]][frames'[k].at] = frames'[k - 1].name
      <3>1. frames'[k] = frames[k] /\ file'[frames'[k].mod] = file[frames[k].mod]
        BY <1>7, <1>9, <1>10
      <3>2. k - 1 \in 1 .. n
        BY <1>2
      <3> QED
        BY <1>1, <2>1, <3>1, <3>2 DEF LoadStackIsChain
    <2>5. \A k \in Loads : frames'[k].name = load_stack'[Len(load_stack') + 1 - k]
      BY <1>1, <1>2, <2>1 DEF LoadStackIsChain, Loads
    <2>6. Loads' = DOMAIN load_stack'
      BY <1>1, <2>2 DEF LoadStackIsChain
    <2> QED
      BY <2>2, <2>3, <2>4, <2>5, <2>6 DEF LoadStackIsChain
  <1>14. Old'
    <2>1. \A m \in Live' : m < next_mod' /\ file'[m] \in Files
      <3>1. \A m \in Live : m < next_mod /\ file[m] \in Files /\ m \in Nat
        BY Types, Constants DEF Old
      <3>2. next_mod \in Nat
        BY Types
      <3> QED
        BY <1>1, <1>3, <1>9, <3>1, <3>2
    <2>2. \A m \in Mods : m >= next_mod' => deps'[m] = <<>>
      <3>1. \A m \in Mods : m >= next_mod => deps[m] = <<>>
        BY DEF Old
      <3>2. next_mod \in Nat /\ Mods \subseteq Nat
        BY Types, Constants
      <3> QED
        BY <1>1, <3>1, <3>2
    <2>3. \A m \in Mods : \A d \in ToSet(deps'[m]) : d < next_mod'
      <3>1. \A m \in Mods : \A d \in ToSet(deps[m]) : d < next_mod
        BY DEF Old
      <3>2. \A m \in Mods : ToSet(deps[m]) \subseteq Nat
        <4>1. \A m \in Mods : deps[m] \in Seq(Mods)
          BY Types
        <4> QED
          BY <4>1, Constants, ListElements
      <3>3. next_mod \in Nat
        BY Types
      <3> QED
        <4>1. SUFFICES ASSUME NEW m \in Mods, NEW d \in ToSet(deps[m])
                       PROVE  d < next_mod + 1
          BY <1>1
        <4> QED
          BY <3>1, <3>2, <3>3
    <2> QED
      BY <2>1, <2>2, <2>3 DEF Old
  <1>15. Held'
    <2>1. \A k \in DOMAIN frames' : frames'[k].mod \in Live'
      <3>1. \A k \in 1 .. n : k = 1 \/ k \in 2 .. n
        BY <1>2
      <3> QED
        BY <1>7, <1>8, <1>9, <1>10, <3>1
    <2>2. ASSUME NEW j \in DOMAIN frames', NEW k \in DOMAIN frames',
                 frames'[j].mod = frames'[k].mod
          PROVE  j = k
      <3>1. CASE j = 1 \/ k = 1
        <4>1. frames'[j].mod = next_mod /\ frames'[k].mod = next_mod
          BY <1>7, <1>8, <2>2, <3>1
        <4>2. ~(j \in 2 .. n) /\ ~(k \in 2 .. n)
          BY <1>7, <1>9, <1>10, <4>1
        <4> QED
          BY <1>2, <1>7, <4>2
      <3>2. CASE ~(j = 1 \/ k = 1)
        <4>1. j \in 2 .. n /\ k \in 2 .. n /\ j \in DOMAIN frames /\ k \in DOMAIN frames
          BY <1>2, <1>7, <3>2
        <4> QED
          BY <1>7, <1>10, <2>2, <4>1 DEF Held
      <3> QED
        BY <3>1, <3>2
    <2> QED
      BY <2>1, <2>2 DEF Held
  <1>16. Fitting'
    <2>1. ASSUME NEW k \in DOMAIN frames', frames'[k].name # NoName
          PROVE  /\ ToSet(frames'[k].alts) \subseteq ToSet(Candidates[frames'[k].name])
                 /\ frames'[k].mod # NoMod =>
                       file'[frames'[k].mod] \in ToSet(Candidates[frames'[k].name])
      <3>1. CASE k = 1
        <4>1. ToSet(Top.alts) \subseteq ToSet(Candidates[Top.name])
          BY <1>2, <1>7, <1>8, <2>1, <3>1 DEF Fitting
        <4> QED
          BY <1>3, <1>7, <1>8, <1>9, <3>1, <4>1
      <3>2. CASE k # 1
        <4>1. k \in 2 .. n /\ k \in DOMAIN frames
          BY <1>2, <1>7, <3>2
        <4> QED
          BY <1>7, <1>9, <1>10, <2>1, <4>1 DEF Fitting
      <3> QED
        BY <3>1, <3>2
    <2> QED
      BY <2>1 DEF Fitting
  <1>17. /\ \A m \in Live : NameOf(m)' = NameOf(m)
         /\ \A k \in DOMAIN frames' : frames'[k].name = frames[k].name
         /\ Top.name # NoName =>
               \A m \in Live : ~(asked[m] = Top.name /\ NameOf(m) = Top.name)
    <2>1. \A m \in Live : NameOf(m)' = NameOf(m)
      BY <1>9 DEF NameOf
    <2>2. \A k \in 1 .. n : k = 1 \/ k \in 2 .. n
      BY <1>2
    <2>3. \A k \in DOMAIN frames' : frames'[k].name = frames[k].name
      BY <1>2, <1>7, <1>8, <2>2
    <2>4. ASSUME Top.name # NoName, NEW m \in Live, asked[m] = Top.name, NameOf(m) = Top.name
          PROVE  FALSE
      <3>1. 1 \in DOMAIN frames /\ frames[1] = Top
        BY <1>2
      <3>2. frames[1].mod = m
        BY <2>4, <3>1 DEF Sole
      <3>3. m \in Mods
        BY <1>9
      <3> QED
        BY <1>1, <3>1, <3>2, <3>3, Constants
    <2> QED
      BY <2>1, <2>3, <2>4
  <1>25. Sole'
    <2>1. \A j, k \in DOMAIN frames' :
             frames'[j].name # NoName /\ frames'[j].name = frames'[k].name => j = k
      BY <1>2, <1>7, <1>17 DEF Sole
    <2>2. ASSUME NEW k \in DOMAIN frames', NEW m \in Live', frames'[k].name # NoName,
                 asked'[m] = frames'[k].name, NameOf(m)' = frames'[k].name
          PROVE  frames'[k].mod = m
      <3>1. k \in DOMAIN frames /\ frames[k].name = frames'[k].name
        BY <1>2, <1>7, <1>17
      <3>2. CASE m = next_mod
        <4>1. Top.name = frames[k].name /\ 1 \in DOMAIN frames /\ frames[1] = Top
          BY <1>2, <1>9, <2>2, <3>1, <3>2
        <4>2. k = 1
          BY <2>2, <3>1, <4>1 DEF Sole
        <4> QED
          BY <1>7, <1>8, <3>2, <4>2
      <3>3. CASE m # next_mod
        <4>1. m \in Live /\ asked[m] = frames[k].name /\ NameOf(m) = frames[k].name
          BY <1>9, <1>17, <2>2, <3>1, <3>3
        <4>2. k # 1
          BY <1>2, <1>17, <2>2, <3>1, <4>1
        <4>3. frames'[k] = frames[k]
          BY <1>2, <1>7, <4>2
        <4> QED
          BY <2>2, <3>1, <4>1, <4>3 DEF Sole
      <3> QED
        BY <3>2, <3>3
    <2> QED
      BY <2>1, <2>2 DEF Sole
  <1>18. Counted'
    <2>1. ASSUME NEW m \in Live,
                 \A k \in DOMAIN frames' : frames'[k].mod # m
          PROVE  Len(deps'[m]) = Len(requests'[file'[m]])
      <3>1. \A k \in DOMAIN frames : frames[k].mod # m
        <4>1. m # NoMod
          BY Types, Constants
        <4>2. \A k \in 1 .. n : k = 1 \/ k \in 2 .. n
          BY <1>2
        <4> QED
          BY <1>1, <1>2, <1>7, <2>1, <4>1, <4>2
      <3> QED
        BY <1>1, <1>9, <3>1 DEF Counted
    <2>2. ASSUME NEW m \in Live, NEW k \in DOMAIN frames', frames'[k].mod = m
          PROVE  /\ Len(deps'[m]) = frames'[k].at - 1
                 /\ frames'[k].at <= Len(requests'[file'[m]]) + 1
      <3>1. k \in 2 .. n /\ k \in DOMAIN frames
        BY <1>2, <1>7, <1>8, <1>9, <2>2
      <3> QED
        BY <1>1, <1>7, <1>9, <2>2, <3>1 DEF Counted
    <2>3. ASSUME NEW k \in DOMAIN frames', frames'[k].mod = next_mod
          PROVE  /\ Len(deps'[next_mod]) = frames'[k].at - 1
                 /\ frames'[k].at <= Len(requests'[file'[next_mod]]) + 1
      <3>1. k = 1
        BY <1>7, <1>9, <1>10, <2>3
      <3>2. deps'[next_mod] = <<>>
        <4>1. next_mod >= next_mod
          BY Types
        <4> QED
          BY <1>1, <4>1 DEF Old
      <3>3. requests'[file'[next_mod]] \in Seq(Names)
        BY <1>1, <1>3, <1>9, Types
      <3> QED
        BY <1>7, <1>8, <3>1, <3>2, <3>3
    <2>4. ~(\A k \in DOMAIN frames' : frames'[k].mod # next_mod)
      BY <1>2, <1>7, <1>8
    <2> QED
      BY <1>9, <2>1, <2>2, <2>3, <2>4 DEF Counted
  <1>20. \A k \in 2 .. n : file[frames[k].mod] \in Files
    BY <1>10 DEF Old
  <1>21. \A k \in 2 .. n : f \in LeadsIn(requests, file[frames[k].mod])
    <2>1. ASSUME 2 \in 1 .. n PROVE f \in FilesIn(requests, file[frames[2].mod])
      <3>1. 2 \in 2 .. n /\ frames[2].at <= Len(requests[file[frames[2].mod]])
            /\ requests[file[frames[2].mod]][frames[2].at] = frames[1].name
        <4>1. 2 \in 2 .. Len(frames) /\ 2 - 1 = 1
          BY <2>1, <1>2
        <4> QED
          BY <4>1 DEF LoadStackIsChain
      <3>2. frames[1].name \in ToSet(requests[file[frames[2].mod]])
        <4>1. frames[2] \in Compilation
          BY <1>2, <2>1, Types
        <4>2. frames[2].at \in Nat \ {0} /\ requests[file[frames[2].mod]] \in Seq(Names)
          BY <1>20, <3>1, <4>1, Types DEF Compilation
        <4>3. frames[2].at \in DOMAIN requests[file[frames[2].mod]]
          BY <3>1, <4>2
        <4> QED
          BY <3>1, <4>3 DEF ToSet
      <3>3. Top.name # NoName
        <4>1. requests[file[frames[2].mod]] \in Seq(Names)
          BY <1>20, <3>1, Types
        <4> QED
          BY <1>2, <3>2, <4>1, Constants, ListElements
      <3>4. f \in ToSet(Candidates[frames[1].name])
        BY <1>2, <1>3, <3>3 DEF Fitting
      <3> QED
        BY <3>2, <3>4 DEF FilesIn, Answers
    <2>2. ASSUME NEW k \in 2 .. n PROVE f \in LeadsIn(requests, file[frames[k].mod])
      <3>1. 2 \in 1 .. n /\ 2 \in 2 .. n /\ 2 \in DOMAIN frames /\ k \in DOMAIN frames
        BY <1>2
      <3>2. CASE k = 2
        BY <1>20, <2>1, <3>1, <3>2, LeadsFacts
      <3>3. CASE k # 2
        <4>1. 2 < k
          BY <1>2, <3>3
        <4>2. file[frames[2].mod] \in LeadsIn(requests, file[frames[k].mod])
          BY <1>10, <3>1, <4>1 DEF LeadsDown
        <4> QED
          BY <1>20, <2>1, <3>1, <4>2, LeadsFacts
      <3> QED
        BY <3>2, <3>3
    <2> QED
      BY <2>2
  <1>22. LeadsDown'
    <2>1. ASSUME NEW j \in DOMAIN frames', NEW k \in DOMAIN frames', j < k
          PROVE  file'[frames'[j].mod] \in LeadsIn(requests', file'[frames'[k].mod])
      <3>1. k \in 2 .. n /\ k \in DOMAIN frames
        BY <1>2, <1>7, <2>1
      <3>2. /\ frames'[k] = frames[k] /\ file'[frames'[k].mod] = file[frames[k].mod]
        BY <1>7, <1>9, <1>10, <3>1
      <3>3. CASE j = 1
        BY <1>1, <1>7, <1>8, <1>9, <1>21, <3>1, <3>2, <3>3
      <3>4. CASE j # 1
        <4>1. j \in 2 .. n /\ j \in DOMAIN frames
          BY <1>2, <1>7, <3>4
        <4>2. file[frames[j].mod] \in LeadsIn(requests, file[frames[k].mod])
          BY <1>10, <2>1, <3>1, <4>1 DEF LeadsDown
        <4> QED
          BY <1>1, <1>7, <1>9, <1>10, <3>2, <4>1, <4>2
      <3> QED
        BY <3>3, <3>4
    <2> QED
      BY <2>1 DEF LeadsDown
  <1>23. Tied'
    <2>1. ASSUME NEW m \in Live', NEW d \in ToSet(deps'[m]),
                 d \notin Live' \/ \E k \in DOMAIN frames' : frames'[k].mod = d
          PROVE  /\ file'[m] \in LeadsIn(requests', file'[d])
                 /\ file'[d] \in LeadsIn(requests', file'[m])
      <3>1. m \in Mods /\ d \in Mods /\ d # next_mod /\ d \in ToSet(deps[m])
        <4>1. m \in Mods
          BY <1>1, <1>9
        <4>2. deps[m] \in Seq(Mods) /\ d \in ToSet(deps[m])
          BY <1>1, <4>1, Types
        <4>3. d \in Mods
          BY <4>2, ListElements
        <4>4. d < next_mod /\ next_mod \in Nat
          BY <4>1, <4>2, Types DEF Old
        <4> QED
          BY <4>1, <4>2, <4>3, <4>4
      <3>2. m \in Live
        <4>1. m # next_mod
          <5>1. deps[m] # <<>>
            BY <3>1 DEF ToSet
          <5>2. next_mod >= next_mod
            BY Types
          <5> QED
            BY <3>1, <5>1, <5>2 DEF Old
        <4> QED
          BY <1>9, <4>1
      <3>3. d \notin Live \/ \E k \in DOMAIN frames : frames[k].mod = d
        <4>1. ASSUME NEW k \in DOMAIN frames', frames'[k].mod = d
              PROVE  k \in DOMAIN frames /\ frames[k].mod = d
          BY <1>2, <1>7, <1>10, <3>1, <4>1
        <4> QED
          BY <1>9, <2>1, <4>1
      <3>4. /\ file[m] \in LeadsIn(requests, file[d])
            /\ file[d] \in LeadsIn(requests, file[m])
        BY <3>1, <3>2, <3>3 DEF Tied
      <3>5. file'[m] = file[m] /\ file'[d] = file[d]
        <4>1. m # next_mod
          BY <1>9, <3>2
        <4>2. file \in [Mods -> Files \union {NoName}] /\ file' = [file EXCEPT ![next_mod] = f]
          BY <1>1, Types
        <4> QED
          BY <3>1, <4>1, <4>2
      <3> QED
        BY <1>1, <3>4, <3>5
    <2> QED
      BY <2>1 DEF Tied
  <1>24. OneCopyByName'
    <2>1. \A m, d \in Live : NameOf(m)' = NameOf(d)' /\ asked'[m] = NameOf(m)'
                                 /\ asked'[d] = NameOf(d)' => m = d
      BY <1>9, <1>17 DEF OneCopyByName
    <2>2. PICK x : x = next_mod
      OBVIOUS
    <2>3. ASSUME NEW m \in Live, NameOf(m)' = NameOf(x)', asked'[m] = NameOf(m)',
                 asked'[x] = NameOf(x)'
          PROVE  FALSE
      <3>1. NameOf(x)' = Called[f] /\ Called[f] \in Names
        BY <1>3, <1>9, <2>2, Constants DEF NameOf
      <3>2. Top.name = Called[f] /\ Top.name # NoName
        BY <1>9, <2>2, <2>3, <3>1, Constants
      <3>3. asked[m] = Top.name /\ NameOf(m) = Top.name
        BY <1>9, <1>17, <2>3, <3>1, <3>2
      <3> QED
        BY <1>17, <3>2, <3>3
    <2>4. Live' = Live \union {x}
      BY <1>9, <2>2
    <2> QED
      BY <2>1, <2>3, <2>4 DEF OneCopyByName
  <1> QED
    BY <1>12, <1>13, <1>14, <1>15, <1>16, <1>25, <1>18, <1>22, <1>23, <1>24

LEMMA SkipFileKeeps ==
    ASSUME IInv, SkipFile
    PROVE  IInv'
  <1> DEFINE fr == [Top EXCEPT !.alts = Tail(@)]
             n == Len(frames)
  <1>0. /\ TypeOK /\ LoadStackIsChain /\ Old /\ Held /\ Fitting /\ Sole /\ Counted
        /\ LeadsDown /\ Tied /\ OneCopyByName
    BY DEF IInv
  <1>1. /\ frames # <<>> /\ Top.mod = NoMod /\ Top.alts # <<>>
        /\ requests' = requests /\ loaded' = loaded /\ file' = file /\ deps' = deps
        /\ asked' = asked /\ load_stack' = load_stack /\ next_mod' = next_mod
        /\ calls' = calls
    BY DEF SkipFile
  <1>2. /\ Top = frames[1] /\ Top \in Compilation /\ Top.alts \in Seq(Files)
        /\ n \in Nat \ {0} /\ DOMAIN frames = 1 .. n
    BY <1>0, <1>1, TopFacts
  <1>3. /\ Tail(Top.alts) \in Seq(Files)
        /\ ToSet(Tail(Top.alts)) \subseteq ToSet(Top.alts)
    <2>1. /\ Tail(Top.alts) \in Seq(Files)
          /\ ToSet(Top.alts) = {Head(Top.alts)} \union ToSet(Tail(Top.alts))
      BY <1>1, <1>2, ListElements
    <2> QED
      BY <2>1
  <1>4. frames' = <<fr>> \o Tail(frames)
    BY DEF SkipFile, With, Below
  <1>5. fr \in Compilation
    <2>1. \A a \in Seq(Files) : [Top EXCEPT !.alts = a] \in Compilation
      <3>1. 1 \in Nat \ {0} /\ NoMod \in Mods \union {NoMod}
        OBVIOUS
      <3> QED
        BY <1>2, <3>1, CompilationChanged
    <2> QED
      BY <1>3, <2>1
  <1>6. fr.name = Top.name /\ fr.alts = Tail(Top.alts) /\ fr.mod = NoMod /\ fr.at = Top.at
    BY <1>1, <1>2 DEF Compilation
  <1> HIDE DEF fr
  <1>7. /\ frames' \in Seq(Compilation) /\ frames' # <<>> /\ DOMAIN frames' = 1 .. n
        /\ frames'[1] = fr
        /\ \A k \in 2 .. n : frames'[k] = frames[k]
    <2>1. frames \in Seq(Compilation)
      BY <1>0, Types
    <2> QED
      BY <1>1, <1>2, <1>4, <1>5, <2>1, HeadReplaced
  <1>8. /\ Len(frames') = n
        /\ \A k \in 1 .. n : k = 1 \/ k \in 2 .. n
        /\ \A k \in 2 .. n : k \in 1 .. n /\ k - 1 \in 1 .. n
    BY <1>2, <1>7
  <1>9. \A k \in 1 .. n : /\ frames'[k].name = frames[k].name
                          /\ frames'[k].mod = frames[k].mod
                          /\ frames'[k].at = frames[k].at
    BY <1>1, <1>2, <1>6, <1>7, <1>8
  <1>10. TypeOK'
    BY <1>0, <1>1, <1>7 DEF TypeOK, Compilation
  <1>11. LoadStackIsChain'
    <2>1. Loads' = Loads
      BY <1>2, <1>7, <1>9 DEF Loads
    <2>2. \A k \in Loads : frames'[k].name = load_stack'[Len(load_stack') + 1 - k]
      BY <1>0, <1>1, <1>2, <1>9 DEF LoadStackIsChain, Loads
    <2>3. ASSUME NEW k \in 2 .. n
          PROVE  /\ frames'[k].mod # NoMod
                 /\ frames'[k].at <= Len(requests'[file'[frames'[k].mod]])
                 /\ requests'[file'[frames'[k].mod]][frames'[k].at] = frames'[k - 1].name
      BY <1>0, <1>1, <1>8, <1>9 DEF LoadStackIsChain
    <2> QED
      BY <1>0, <1>1, <1>8, <2>1, <2>2, <2>3 DEF LoadStackIsChain
  <1>12. Live' = Live
    BY <1>1 DEF Live
  <1>13. Old'
    BY <1>0, <1>1, <1>12 DEF Old
  <1>14. Held'
    BY <1>0, <1>2, <1>7, <1>9, <1>12 DEF Held
  <1>15. Fitting'
    <2>1. ASSUME NEW k \in 1 .. n, frames[k].name # NoName
          PROVE  /\ ToSet(frames'[k].alts) \subseteq ToSet(Candidates[frames[k].name])
                 /\ frames[k].mod # NoMod =>
                       file[frames[k].mod] \in ToSet(Candidates[frames[k].name])
      <3>1. /\ ToSet(frames[k].alts) \subseteq ToSet(Candidates[frames[k].name])
            /\ frames[k].mod # NoMod =>
                  file[frames[k].mod] \in ToSet(Candidates[frames[k].name])
        BY <1>0, <1>2, <2>1 DEF Fitting
      <3>2. ToSet(frames'[k].alts) \subseteq ToSet(frames[k].alts)
        BY <1>2, <1>3, <1>6, <1>7, <1>8
      <3> QED
        BY <3>1, <3>2
    <2> QED
      BY <1>1, <1>7, <1>9, <2>1 DEF Fitting
  <1>16. Sole'
    BY <1>0, <1>1, <1>2, <1>7, <1>9, <1>12 DEF Sole, NameOf
  <1>17. Counted'
    BY <1>0, <1>1, <1>2, <1>7, <1>9, <1>12 DEF Counted
  <1>18. LeadsDown'
    BY <1>0, <1>1, <1>2, <1>7, <1>9 DEF LeadsDown
  <1>19. Tied'
    BY <1>0, <1>1, <1>2, <1>7, <1>9, <1>12 DEF Tied
  <1>20. OneCopyByName'
    BY <1>0, <1>1, <1>12 DEF OneCopyByName, NameOf
  <1> QED
    BY <1>10, <1>11, <1>13, <1>14, <1>15, <1>16, <1>17, <1>18, <1>19, <1>20 DEF IInv

\* Nothing is being compiled.
LEMMA OutermostKeeps ==
    ASSUME IInv, frames = <<>>, NEW n \in Names \union {NoName}, NEW fs \in Seq(Files),
           frames' = <<Frame(n, fs)>>,
           load_stack' = IF n = NoName THEN load_stack ELSE Append(load_stack, n),
           n # NoName => /\ fs = Candidates[n]
                         /\ \A m \in Live : NameOf(m) # n,
           calls' \in 0 .. MaxRequests,
           UNCHANGED <<requests, loaded, file, deps, asked, next_mod>>
    PROVE  IInv'
  <1> DEFINE fr == Frame(n, fs)
  <1>0. /\ TypeOK /\ LoadStackIsChain /\ Old /\ Held /\ Fitting /\ Sole /\ Counted
        /\ LeadsDown /\ Tied /\ OneCopyByName
    BY DEF IInv
  <1>1. /\ requests' = requests /\ loaded' = loaded /\ file' = file /\ deps' = deps
        /\ asked' = asked /\ next_mod' = next_mod
    OBVIOUS
  <1>2. /\ fr \in Compilation /\ fr.name = n /\ fr.alts = fs /\ fr.mod = NoMod /\ fr.at = 1
    BY DEF Frame, Compilation
  <1> HIDE DEF fr
  <1>3. /\ frames' = <<fr>> /\ frames' \in Seq(Compilation) /\ DOMAIN frames' = {1}
        /\ frames'[1] = fr /\ Len(frames') = 1
    <2>1. frames' = <<fr>>
      BY DEF fr
    <2> QED
      BY <1>2, <2>1
  <1>4. Live' = Live /\ load_stack = <<>>
    <2>1. Loads = {}
      BY DEF Loads
    <2>2. DOMAIN load_stack = {} /\ load_stack \in Seq(Names)
      BY <1>0, <2>1, Types DEF LoadStackIsChain
    <2> QED
      BY <1>1, <2>2 DEF Live
  <1>5. TypeOK'
    <2>1. load_stack' \in Seq(Names)
      BY <1>0, Types
    <2>2. frames' \in Seq([name : Names \union {NoName}, alts : Seq(Files),
                       mod : Mods \union {NoMod}, at : Nat \ {0}])
      BY <1>3 DEF Compilation
    <2> QED
      BY <1>0, <1>1, <2>1, <2>2 DEF TypeOK
  <1>6. LoadStackIsChain'
    <2>1. \A k \in 2 .. Len(frames') : FALSE
      BY <1>3
    <2>2. CASE n = NoName
      <3>1. Loads' = {} /\ load_stack' = <<>>
        BY <1>2, <1>3, <1>4, <2>2 DEF Loads
      <3> QED
        BY <2>1, <3>1 DEF LoadStackIsChain
    <2>3. CASE n # NoName
      <3>1. load_stack' = <<n>>
        BY <1>4, <2>3
      <3>2. Loads' = {1}
        BY <1>2, <1>3, <2>3 DEF Loads
      <3>3. Loads' = DOMAIN load_stack'
        BY <3>1, <3>2
      <3>4. \A k \in Loads' : frames'[k].name = load_stack'[Len(load_stack') + 1 - k]
        <4>1. Len(load_stack') + 1 - 1 = 1 /\ load_stack'[1] = n
          BY <3>1
        <4> QED
          BY <1>2, <1>3, <3>2, <4>1
      <3> QED
        BY <2>1, <3>3, <3>4 DEF LoadStackIsChain
    <2> QED
      BY <2>2, <2>3
  <1>7. Old'
    BY <1>0, <1>1, <1>4 DEF Old
  <1>8. Held' /\ LeadsDown'
    BY <1>2, <1>3 DEF Held, LeadsDown
  <1>9. Fitting'
    BY <1>2, <1>3 DEF Fitting
  <1>10. Sole'
    BY <1>1, <1>2, <1>3, <1>4 DEF Sole, NameOf
  <1>11. Counted'
    <2>1. ASSUME NEW m \in Live PROVE Len(deps[m]) = Len(requests[file[m]])
      BY <1>0, <2>1 DEF Counted
    <2>2. ASSUME NEW m \in Live PROVE m # NoMod
      BY <1>0, <2>2, Types, Constants
    <2> QED
      BY <1>1, <1>2, <1>3, <1>4, <2>1, <2>2 DEF Counted
  <1>12. Tied'
    <2>1. ASSUME NEW m \in Live, NEW d \in ToSet(deps[m]) PROVE d # NoMod
      <3>1. m \in Mods /\ deps[m] \in Seq(Mods)
        BY <1>0, Types
      <3> QED
        BY <3>1, Constants, ListElements
    <2> QED
      BY <1>0, <1>1, <1>2, <1>3, <1>4, <2>1 DEF Tied
  <1>13. OneCopyByName'
    BY <1>0, <1>1, <1>4 DEF OneCopyByName, NameOf
  <1> QED
    BY <1>5, <1>6, <1>7, <1>8, <1>9, <1>10, <1>11, <1>12, <1>13 DEF IInv

LEMMA RestartKeeps ==
    ASSUME IInv, Restart
    PROVE  IInv'
  <1>0. /\ TypeOK /\ LoadStackIsChain /\ Old /\ Held /\ Fitting /\ Sole /\ Counted
        /\ LeadsDown /\ Tied /\ OneCopyByName
    BY DEF IInv
  <1>1. /\ frames = <<>> /\ loaded' = <<>> /\ requests' = requests /\ file' = file
        /\ deps' = deps /\ asked' = asked /\ frames' = frames
        /\ load_stack' = load_stack /\ next_mod' = next_mod /\ calls' = calls
    BY DEF Restart
  <1>2. Live' = {} /\ DOMAIN loaded' = {} /\ DOMAIN frames' = {}
    BY <1>1 DEF Live, ToSet
  <1>3. TypeOK'
    <2>1. loaded' \in Seq(Mods) /\ IsInjective(loaded')
      BY <1>1 DEF IsInjective
    <2> QED
      BY <1>0, <1>1, <2>1 DEF TypeOK
  <1>4. LoadStackIsChain'
    BY <1>0, <1>1 DEF LoadStackIsChain, Loads
  <1>5. Old'
    BY <1>0, <1>1, <1>2 DEF Old
  <1>6. Held' /\ Fitting' /\ Sole' /\ Counted' /\ LeadsDown' /\ Tied'
    BY <1>2 DEF Held, Fitting, Sole, Counted, LeadsDown, Tied
  <1>7. OneCopyByName'
    BY <1>2 DEF OneCopyByName
  <1> QED
    BY <1>3, <1>4, <1>5, <1>6, <1>7 DEF IInv

LEMMA RequireLoadedKeeps ==
    ASSUME IInv, RequireLoaded
    PROVE  IInv'
  <1> DEFINE fr == [Top EXCEPT !.at = @ + 1]
             n == Len(frames)
             m1 == Top.mod
             d1 == Find(Request)
  <1>0. /\ TypeOK /\ LoadStackIsChain /\ Old /\ Held /\ Fitting /\ Sole /\ Counted
        /\ LeadsDown /\ Tied /\ OneCopyByName
    BY DEF IInv
  <1>1. /\ frames # <<>> /\ Top.mod # NoMod /\ ~AtEnd
        /\ d1 # NoMod /\ deps' = [deps EXCEPT ![m1] = Append(@, d1)]
        /\ requests' = requests /\ loaded' = loaded /\ file' = file
        /\ asked' = asked /\ load_stack' = load_stack /\ next_mod' = next_mod
        /\ calls' = calls
    BY DEF RequireLoaded, Resolved
  <1>2. /\ Top = frames[1] /\ Top \in Compilation /\ Top.alts \in Seq(Files)
        /\ n \in Nat \ {0} /\ DOMAIN frames = 1 .. n /\ Top.at \in Nat \ {0}
    BY <1>0, <1>1, TopFacts
  <1>3. /\ m1 \in Live /\ m1 \in Mods /\ file[m1] \in Files
        /\ Text \in Seq(Names) /\ Text = requests[file[m1]]
        /\ Top.at \in DOMAIN Text /\ Top.at <= Len(Text) /\ Request \in Names
        /\ Request = Text[Top.at]
    <2>1. Text = requests[file[m1]] /\ Request = Text[Top.at]
      BY DEF Text, Request
    <2> QED
      BY <1>0, <1>1, <2>1, TextFacts
  <1>4. d1 \in Live /\ NameOf(d1) = Request /\ d1 \in Mods
    BY <1>0, <1>1, <1>3, FindFacts, Types
  <1>5. frames' = <<fr>> \o Tail(frames)
    BY DEF RequireLoaded, With, Below
  <1>6. fr \in Compilation
    <2>1. \A i \in Nat \ {0} : [Top EXCEPT !.at = i] \in Compilation
      <3>1. NoMod \in Mods \union {NoMod}
        OBVIOUS
      <3> QED
        BY <1>2, <3>1, CompilationChanged
    <2>2. Top.at + 1 \in Nat \ {0}
      BY <1>2
    <2> QED
      BY <2>1, <2>2
  <1>7. fr.name = Top.name /\ fr.alts = Top.alts /\ fr.mod = Top.mod /\ fr.at = Top.at + 1
    BY <1>2 DEF Compilation
  <1> HIDE DEF fr
  <1>8. /\ frames' \in Seq(Compilation) /\ frames' # <<>> /\ DOMAIN frames' = 1 .. n
        /\ frames'[1] = fr
        /\ \A k \in 2 .. n : frames'[k] = frames[k]
    <2>1. frames \in Seq(Compilation)
      BY <1>0, Types
    <2> QED
      BY <1>1, <1>2, <1>5, <1>6, <2>1, HeadReplaced
  <1>9. /\ Len(frames') = n
        /\ \A k \in 1 .. n : k = 1 \/ k \in 2 .. n
        /\ \A k \in 2 .. n : k \in 1 .. n /\ k - 1 \in 1 .. n /\ k # 1
    BY <1>2, <1>8
  <1>10. \A k \in 1 .. n : /\ frames'[k].name = frames[k].name
                           /\ frames'[k].mod = frames[k].mod
                           /\ frames'[k].alts = frames[k].alts
    BY <1>1, <1>2, <1>7, <1>8, <1>9
  <1>11. /\ \A m \in Mods : deps[m] \in Seq(Mods)
         /\ deps'[m1] = Append(deps[m1], d1)
         /\ \A m \in Mods : m # m1 => deps'[m] = deps[m]
         /\ ToSet(deps'[m1]) = ToSet(deps[m1]) \union {d1}
         /\ Len(deps'[m1]) = Len(deps[m1]) + 1
         /\ deps' \in [Mods -> Seq(Mods)]
    <2>1. deps \in [Mods -> Seq(Mods)]
      BY <1>0, Types
    <2>2. deps[m1] \in Seq(Mods)
      BY <1>3, <2>1
    <2>3. /\ ToSet(Append(deps[m1], d1)) = ToSet(deps[m1]) \union {d1}
          /\ Len(Append(deps[m1], d1)) = Len(deps[m1]) + 1
          /\ Append(deps[m1], d1) \in Seq(Mods)
      BY <1>4, <2>2, ListElements
    <2> QED
      BY <1>1, <1>3, <2>1, <2>3
  <1> HIDE DEF n, m1, d1
  <1>12. TypeOK'
    BY <1>0, <1>1, <1>8, <1>11 DEF TypeOK, Compilation
  <1>13. LoadStackIsChain'
    <2>1. Loads' = Loads
      BY <1>2, <1>8, <1>10 DEF Loads
    <2>2. \A k \in Loads : frames'[k].name = load_stack'[Len(load_stack') + 1 - k]
      BY <1>0, <1>1, <1>2, <1>10 DEF LoadStackIsChain, Loads
    <2>3. ASSUME NEW k \in 2 .. n
          PROVE  /\ frames'[k].mod # NoMod
                 /\ frames'[k].at <= Len(requests'[file'[frames'[k].mod]])
                 /\ requests'[file'[frames'[k].mod]][frames'[k].at] = frames'[k - 1].name
      <3>1. frames'[k] = frames[k] /\ frames'[k - 1].name = frames[k - 1].name
        BY <1>8, <1>9, <1>10
      <3> QED
        BY <1>0, <1>1, <3>1 DEF LoadStackIsChain, n
    <2> QED
      BY <1>0, <1>1, <1>9, <2>1, <2>2, <2>3 DEF LoadStackIsChain
  <1>14. Live' = Live
    BY <1>1 DEF Live
  <1>15. Old'
    <2>1. \A m \in Live : m < next_mod /\ file[m] \in Files
      BY <1>0 DEF Old
    <2>2. \A m \in Mods : m >= next_mod => deps'[m] = <<>>
      <3>1. ~(m1 >= next_mod)
        <4>1. m1 \in Nat /\ next_mod \in Nat /\ m1 < next_mod
          BY <1>0, <1>3, <2>1, Types, Constants
        <4> QED
          BY <4>1
      <3>2. \A m \in Mods : m >= next_mod => deps[m] = <<>>
        BY <1>0 DEF Old
      <3> QED
        BY <1>11, <3>1, <3>2
    <2>3. \A m \in Mods : \A d \in ToSet(deps'[m]) : d < next_mod
      <3>1. \A m \in Mods : \A d \in ToSet(deps[m]) : d < next_mod
        BY <1>0 DEF Old
      <3> QED
        BY <1>3, <1>4, <1>11, <2>1, <3>1
    <2> QED
      BY <1>1, <1>14, <2>1, <2>2, <2>3 DEF Old
  <1>16. Held'
    BY <1>0, <1>2, <1>8, <1>10, <1>14 DEF Held
  <1>17. Fitting'
    BY <1>0, <1>1, <1>2, <1>8, <1>10 DEF Fitting
  <1>18. Sole'
    BY <1>0, <1>1, <1>2, <1>8, <1>10, <1>14 DEF Sole, NameOf
  <1>19. Counted'
    <2>1. ASSUME NEW m \in Live, \A k \in DOMAIN frames' : frames'[k].mod # m
          PROVE  Len(deps'[m]) = Len(requests[file[m]])
      <3>1. \A k \in DOMAIN frames : frames[k].mod # m
        BY <1>2, <1>8, <1>10, <2>1
      <3>2. m # m1 /\ m \in Mods
        <4>1. 1 \in DOMAIN frames
          BY <1>2
        <4> QED
          BY <1>0, <1>2, <3>1, <4>1, Types DEF m1
      <3> QED
        BY <1>0, <1>11, <3>1, <3>2 DEF Counted
    <2>2. ASSUME NEW m \in Live, NEW k \in DOMAIN frames', frames'[k].mod = m
          PROVE  /\ Len(deps'[m]) = frames'[k].at - 1
                 /\ frames'[k].at <= Len(requests[file[m]]) + 1
      <3>1. k \in DOMAIN frames /\ frames[k].mod = m /\ m \in Mods
        BY <1>0, <1>2, <1>8, <1>10, <2>2, Types
      <3>2. Len(deps[m]) = frames[k].at - 1 /\ frames[k].at <= Len(requests[file[m]]) + 1
        BY <1>0, <3>1 DEF Counted
      <3>3. CASE k = 1
        <4>1. m = m1 /\ frames'[k].at = frames[k].at + 1 /\ frames[k].at = Top.at
          BY <1>2, <1>7, <1>8, <3>1, <3>3 DEF m1
        <4>2. Len(Text) \in Nat /\ Text = requests[file[m]]
          BY <1>3, <4>1
        <4>3. /\ Len(deps'[m]) = Len(deps[m]) + 1 /\ Len(deps[m]) = frames[k].at - 1
              /\ frames'[k].at = frames[k].at + 1 /\ frames[k].at \in Nat \ {0}
          BY <1>2, <1>11, <3>2, <4>1
        <4>4. frames[k].at <= Len(requests[file[m]]) /\ Len(requests[file[m]]) \in Nat
          BY <1>3, <4>1, <4>2
        <4> QED
          BY <4>3, <4>4
      <3>4. CASE k # 1
        <4>1. frames'[k] = frames[k]
          BY <1>8, <1>9, <3>4
        <4>2. m # m1
          <5>1. 1 \in DOMAIN frames /\ m1 = frames[1].mod /\ m1 # NoMod
            BY <1>1, <1>2 DEF m1
          <5> QED
            BY <1>0, <3>1, <3>4, <5>1 DEF Held
        <4> QED
          BY <1>11, <3>1, <3>2, <4>1, <4>2
      <3> QED
        BY <3>3, <3>4
    <2> QED
      BY <1>1, <1>14, <2>1, <2>2 DEF Counted
  <1>20. LeadsDown'
    BY <1>0, <1>1, <1>2, <1>8, <1>10 DEF LeadsDown
  <1>21. Tied'
    <2>1. ASSUME NEW k \in DOMAIN frames, frames[k].mod = d1
          PROVE  /\ file[m1] \in LeadsIn(requests, file[d1])
                 /\ file[d1] \in LeadsIn(requests, file[m1])
      <3>1. file[d1] \in FilesIn(requests, file[m1])
        <4>1. Request \in ToSet(requests[file[m1]])
          BY <1>3 DEF ToSet
        <4>2. file[d1] \in Files /\ Called[file[d1]] = Request
          BY <1>0, <1>4 DEF Old, NameOf
        <4> QED
          BY <4>1, <4>2 DEF FilesIn, Answers
      <3>2. file[d1] \in LeadsIn(requests, file[m1])
        BY <1>0, <1>3, <3>1, LeadsFacts
      <3>3. CASE k = 1
        <4>1. d1 = m1
          BY <1>2, <2>1, <3>3 DEF m1
        <4> QED
          BY <3>2, <4>1
      <3>4. CASE k # 1
        <4>1. 1 \in DOMAIN frames /\ 1 < k /\ m1 = frames[1].mod
          BY <1>2, <3>4 DEF m1
        <4> QED
          BY <1>0, <1>1, <2>1, <3>2, <4>1 DEF LeadsDown, m1
      <3> QED
        BY <3>3, <3>4
    <2>2. ASSUME NEW m \in Live, NEW d \in ToSet(deps'[m]),
                 d \notin Live \/ \E k \in DOMAIN frames : frames[k].mod = d
          PROVE  /\ file[m] \in LeadsIn(requests, file[d])
                 /\ file[d] \in LeadsIn(requests, file[m])
      <3>1. CASE d \in ToSet(deps[m])
        BY <1>0, <2>2, <3>1 DEF Tied
      <3>2. CASE d \notin ToSet(deps[m])
        <4>1. m = m1 /\ d = d1
          <5>1. m \in Mods
            BY <1>0, Types
          <5> QED
            BY <1>11, <2>2, <3>2, <5>1
        <4> QED
          BY <1>4, <2>1, <2>2, <4>1
      <3> QED
        BY <3>1, <3>2
    <2> QED
      BY <1>1, <1>2, <1>8, <1>10, <1>14, <2>2 DEF Tied
  <1>22. OneCopyByName'
    BY <1>0, <1>1, <1>14 DEF OneCopyByName, NameOf
  <1> QED
    BY <1>12, <1>13, <1>15, <1>16, <1>17, <1>18, <1>19, <1>20, <1>21, <1>22 DEF IInv

LEMMA RequireNewKeeps ==
    ASSUME IInv, RequireNew
    PROVE  IInv'
  <1> DEFINE fr == Frame(Request, Candidates[Request])
             n == Len(frames)
             r == Request
  <1>0. /\ TypeOK /\ LoadStackIsChain /\ Old /\ Held /\ Fitting /\ Sole /\ Counted
        /\ LeadsDown /\ Tied /\ OneCopyByName
    BY DEF IInv
  <1>1. /\ frames # <<>> /\ Top.mod # NoMod /\ ~AtEnd /\ Find(r) = NoMod
        /\ ~InProgress(r) /\ frames' = <<fr>> \o frames /\ load_stack' = Append(load_stack, r)
        /\ requests' = requests /\ loaded' = loaded /\ file' = file /\ deps' = deps
        /\ asked' = asked /\ next_mod' = next_mod /\ calls' = calls
    BY DEF RequireNew
  <1>2. /\ Top = frames[1] /\ Top \in Compilation
        /\ n \in Nat \ {0} /\ DOMAIN frames = 1 .. n /\ Top.at \in Nat \ {0}
    BY <1>0, <1>1, TopFacts
  <1>3. /\ Text \in Seq(Names) /\ Text = requests[file[Top.mod]]
        /\ Top.at \in DOMAIN Text /\ Top.at <= Len(Text) /\ r \in Names
        /\ r = Text[Top.at]
    <2>1. Text = requests[file[Top.mod]] /\ r = Text[Top.at]
      BY DEF Text, Request
    <2> QED
      BY <1>0, <1>1, <2>1, TextFacts
  <1>4. \A m \in Live : NameOf(m) # r
    BY <1>0, <1>1, <1>3, FindFacts
  <1>5. /\ fr \in Compilation /\ fr.name = r /\ fr.alts = Candidates[r] /\ fr.mod = NoMod
        /\ fr.at = 1
    <2>1. Candidates[r] \in Seq(Files)
      BY <1>3, Constants
    <2> QED
      BY <1>3, <2>1 DEF Frame, Compilation
  <1> HIDE DEF fr, r
  <1>6. /\ frames' \in Seq(Compilation) /\ DOMAIN frames' = 1 .. n + 1
        /\ Len(frames') = n + 1 /\ frames'[1] = fr
        /\ \A k \in 2 .. n + 1 : frames'[k] = frames[k - 1]
    <2>1. frames \in Seq(Compilation)
      BY <1>0, Types
    <2> QED
      BY <1>1, <1>5, <2>1, HeadAdded
  <1>7. /\ \A k \in DOMAIN frames' : k = 1 \/ k \in 2 .. n + 1
        /\ \A k \in 2 .. n + 1 : /\ k - 1 \in DOMAIN frames /\ k # 1
                                 /\ frames'[k] = frames[k - 1] /\ k \in DOMAIN frames'
        /\ \A k \in DOMAIN frames : /\ k + 1 \in DOMAIN frames' /\ k + 1 \in 2 .. n + 1
                                    /\ frames'[k + 1] = frames[k]
    <2>1. \A k \in DOMAIN frames : k + 1 \in 2 .. n + 1 /\ (k + 1) - 1 = k
      BY <1>2
    <2> QED
      BY <1>2, <1>6, <2>1
  <1>8. /\ load_stack \in Seq(Names) /\ Len(load_stack) \in Nat
        /\ DOMAIN load_stack = 1 .. Len(load_stack)
        /\ load_stack' \in Seq(Names) /\ Len(load_stack') = Len(load_stack) + 1
        /\ DOMAIN load_stack' = 1 .. Len(load_stack) + 1
        /\ \A i \in 1 .. Len(load_stack) : load_stack'[i] = load_stack[i]
        /\ load_stack'[Len(load_stack) + 1] = r
    <2>1. load_stack \in Seq(Names)
      BY <1>0, Types
    <2> QED
      BY <1>1, <1>3, <2>1
  <1> HIDE DEF n
  <1>9. TypeOK'
    BY <1>0, <1>1, <1>6, <1>8 DEF TypeOK, Compilation
  <1>10. LoadStackIsChain'
    <2> DEFINE l == Len(load_stack)
    <2>1. Loads = 1 .. l /\ \A k \in Loads : frames[k].name = load_stack[l + 1 - k]
      BY <1>0, <1>8 DEF LoadStackIsChain
    <2>2. r # NoName
      BY <1>3, Constants
    <2>3. Loads' = 1 .. l + 1
      <3>1. ASSUME NEW k \in Loads' PROVE k \in 1 .. l + 1
        <4>1. k \in DOMAIN frames' /\ frames'[k].name # NoName
          BY <3>1 DEF Loads
        <4>2. CASE k = 1
          BY <1>8, <4>2
        <4>3. CASE k # 1
          <5>1. k - 1 \in Loads /\ k \in 2 .. n + 1
            BY <1>7, <4>1, <4>3 DEF Loads
          <5> QED
            BY <1>2, <1>8, <2>1, <5>1
        <4> QED
          BY <4>2, <4>3
      <3>2. ASSUME NEW k \in 1 .. l + 1 PROVE k \in Loads'
        <4>1. CASE k = 1
          <5>1. 1 \in DOMAIN frames'
            BY <1>2, <1>6
          <5> QED
            BY <1>5, <1>6, <2>2, <4>1, <5>1 DEF Loads
        <4>2. CASE k # 1
          <5>1. k - 1 \in Loads /\ (k - 1) + 1 = k
            BY <1>8, <2>1, <4>2
          <5>2. k - 1 \in DOMAIN frames /\ frames[k - 1].name # NoName
            BY <5>1 DEF Loads
          <5>3. k \in DOMAIN frames' /\ frames'[k] = frames[k - 1]
            BY <1>7, <5>1, <5>2
          <5> QED
            BY <5>2, <5>3 DEF Loads
        <4> QED
          BY <4>1, <4>2
      <3> QED
        BY <3>1, <3>2
    <2>4. ASSUME NEW k \in 1 .. l + 1 PROVE frames'[k].name = load_stack'[(l + 1) + 1 - k]
      <3>1. CASE k = 1
        <4>1. (l + 1) + 1 - k = l + 1
          BY <1>8, <3>1
        <4> QED
          BY <1>5, <1>6, <1>8, <3>1, <4>1
      <3>2. CASE k # 1
        <4>1. k - 1 \in 1 .. l /\ l + 1 - (k - 1) \in 1 .. l
              /\ l + 1 - (k - 1) = (l + 1) + 1 - k /\ (k - 1) + 1 = k
          BY <1>8, <3>2
        <4>2. frames[k - 1].name = load_stack[(l + 1) + 1 - k] /\ k - 1 \in DOMAIN frames
          BY <2>1, <4>1 DEF Loads
        <4>3. frames'[k] = frames[k - 1]
          BY <1>7, <4>1, <4>2
        <4> QED
          BY <1>8, <4>1, <4>2, <4>3
      <3> QED
        BY <3>1, <3>2
    <2>5. ASSUME NEW k \in 2 .. n + 1
          PROVE  /\ frames'[k].mod # NoMod
                 /\ frames'[k].at <= Len(requests[file[frames'[k].mod]])
                 /\ requests[file[frames'[k].mod]][frames'[k].at] = frames'[k - 1].name
      <3>1. CASE k = 2
        <4>1. frames'[k] = Top /\ frames'[k - 1].name = r
          <5>1. k - 1 = 1
            BY <3>1
          <5> QED
            BY <1>2, <1>5, <1>6, <1>7, <5>1
        <4> QED
          BY <1>1, <1>3, <4>1
      <3>2. CASE k # 2
        <4>1. k - 1 \in 2 .. n + 1 /\ k - 1 \in 2 .. n
          BY <1>2, <3>2
        <4>2. frames'[k] = frames[k - 1] /\ frames'[k - 1] = frames[(k - 1) - 1]
          BY <1>7, <4>1
        <4> QED
          BY <1>0, <4>1, <4>2 DEF LoadStackIsChain, n
      <3> QED
        BY <3>1, <3>2
    <2> QED
      BY <1>1, <1>6, <1>8, <2>3, <2>4, <2>5 DEF LoadStackIsChain
  <1>11. Live' = Live
    BY <1>1 DEF Live
  <1>12. Old'
    BY <1>0, <1>1, <1>11 DEF Old
  <1>13. Held'
    <2>1. \A k \in DOMAIN frames' : frames'[k].mod # NoMod =>
             k \in 2 .. n + 1 /\ k - 1 \in DOMAIN frames /\ frames'[k] = frames[k - 1]
      BY <1>5, <1>6, <1>7
    <2>2. ASSUME NEW j \in DOMAIN frames', NEW k \in DOMAIN frames',
                 frames'[j].mod = frames'[k].mod, frames'[j].mod # NoMod
          PROVE  j = k
      <3>1. /\ j - 1 \in DOMAIN frames /\ k - 1 \in DOMAIN frames
            /\ frames[j - 1].mod = frames[k - 1].mod /\ frames[j - 1].mod # NoMod
        BY <2>1, <2>2
      <3>2. j - 1 = k - 1
        BY <1>0, <3>1 DEF Held
      <3> QED
        BY <1>2, <1>6, <3>2
    <2> QED
      BY <1>0, <1>11, <2>1, <2>2 DEF Held
  <1>14. Fitting'
    <2>1. ASSUME NEW k \in DOMAIN frames', frames'[k].name # NoName
          PROVE  /\ ToSet(frames'[k].alts) \subseteq ToSet(Candidates[frames'[k].name])
                 /\ frames'[k].mod # NoMod =>
                       file[frames'[k].mod] \in ToSet(Candidates[frames'[k].name])
      <3>1. CASE k = 1
        BY <1>5, <1>6, <3>1
      <3>2. CASE k # 1
        BY <1>0, <1>7, <2>1, <3>2 DEF Fitting
      <3> QED
        BY <3>1, <3>2
    <2> QED
      BY <1>1, <2>1 DEF Fitting
  <1>15. Sole'
    <2>1. ASSUME NEW k \in DOMAIN frames PROVE frames[k].name # r
      <3>1. CASE frames[k].name = NoName
        BY <1>3, <3>1, Constants
      <3>2. CASE frames[k].name # NoName
        <4>1. k \in Loads
          BY <3>2 DEF Loads
        <4>2. k \in 1 .. Len(load_stack) /\ frames[k].name = load_stack[Len(load_stack) + 1 - k]
          BY <1>0, <1>8, <4>1 DEF LoadStackIsChain
        <4>3. Len(load_stack) + 1 - k \in DOMAIN load_stack
          BY <1>8, <4>2
        <4>4. frames[k].name \in ToSet(load_stack)
          BY <4>2, <4>3 DEF ToSet
        <4> QED
          BY <1>1, <4>4 DEF InProgress
      <3> QED
        BY <3>1, <3>2
    <2>2. ASSUME NEW k \in DOMAIN frames', NEW m \in Live, frames'[k].name # NoName,
                 asked[m] = frames'[k].name, NameOf(m) = frames'[k].name
          PROVE  frames'[k].mod = m
      <3>1. k # 1
        BY <1>4, <1>5, <1>6, <2>2
      <3> QED
        BY <1>0, <1>7, <2>2, <3>1 DEF Sole
    <2>3. ASSUME NEW j \in DOMAIN frames', NEW k \in DOMAIN frames',
                 frames'[j].name # NoName, frames'[j].name = frames'[k].name
          PROVE  j = k
      <3>1. CASE j = 1 \/ k = 1
        <4>1. frames'[j].name = r /\ frames'[k].name = r
          BY <1>5, <1>6, <2>3, <3>1
        <4> QED
          BY <1>7, <2>1, <4>1
      <3>2. CASE j # 1 /\ k # 1
        <4>1. /\ j - 1 \in DOMAIN frames /\ k - 1 \in DOMAIN frames
              /\ frames'[j] = frames[j - 1] /\ frames'[k] = frames[k - 1]
          BY <1>7, <3>2
        <4>2. j - 1 = k - 1
          BY <1>0, <2>3, <4>1 DEF Sole
        <4> QED
          BY <1>2, <1>6, <4>2
      <3> QED
        BY <3>1, <3>2
    <2> QED
      BY <1>1, <1>11, <2>2, <2>3 DEF Sole, NameOf
  <1>16. \A m \in Mods : /\ \A k \in DOMAIN frames' : frames'[k].mod = m =>
                               k - 1 \in DOMAIN frames /\ frames'[k] = frames[k - 1]
                         /\ \A k \in DOMAIN frames : frames[k].mod = m =>
                               k + 1 \in DOMAIN frames' /\ frames'[k + 1].mod = m
    BY <1>5, <1>6, <1>7, Constants
  <1>17. Counted'
    <2>1. ASSUME NEW m \in Live
          PROVE  /\ (\A k \in DOMAIN frames' : frames'[k].mod # m)
                       => Len(deps[m]) = Len(requests[file[m]])
                 /\ \A k \in DOMAIN frames' : frames'[k].mod = m =>
                       /\ Len(deps[m]) = frames'[k].at - 1
                       /\ frames'[k].at <= Len(requests[file[m]]) + 1
      <3>1. m \in Mods
        BY <1>0, Types
      <3>2. (\A k \in DOMAIN frames' : frames'[k].mod # m)
               => \A k \in DOMAIN frames : frames[k].mod # m
        BY <1>16, <3>1
      <3> QED
        BY <1>0, <1>16, <3>1, <3>2 DEF Counted
    <2> QED
      BY <1>1, <1>11, <2>1 DEF Counted
  <1>18. LeadsDown'
    <2>1. ASSUME NEW j \in DOMAIN frames', NEW k \in DOMAIN frames',
                 j < k, frames'[j].mod # NoMod
          PROVE  file[frames'[j].mod] \in LeadsIn(requests, file[frames'[k].mod])
      <3>1. j # 1 /\ k # 1
        BY <1>2, <1>5, <1>6, <2>1
      <3>2. /\ j - 1 \in DOMAIN frames /\ frames'[j] = frames[j - 1]
            /\ k - 1 \in DOMAIN frames /\ frames'[k] = frames[k - 1]
        BY <1>7, <3>1
      <3>3. j - 1 < k - 1
        BY <1>2, <1>6, <2>1
      <3> QED
        BY <1>0, <2>1, <3>2, <3>3 DEF LeadsDown
    <2> QED
      BY <1>1, <2>1 DEF LeadsDown
  <1>19. Tied'
    <2>1. ASSUME NEW m \in Live, NEW d \in ToSet(deps[m]),
                 d \notin Live \/ \E k \in DOMAIN frames' : frames'[k].mod = d
          PROVE  /\ file[m] \in LeadsIn(requests, file[d])
                 /\ file[d] \in LeadsIn(requests, file[m])
      <3>1. d \in Mods
        <4>1. m \in Mods /\ deps[m] \in Seq(Mods)
          BY <1>0, Types
        <4> QED
          BY <4>1, ListElements
      <3>2. d \notin Live \/ \E k \in DOMAIN frames : frames[k].mod = d
        BY <1>16, <2>1, <3>1
      <3> QED
        BY <1>0, <3>2 DEF Tied
    <2> QED
      BY <1>1, <1>11, <2>1 DEF Tied
  <1>20. OneCopyByName'
    BY <1>0, <1>1, <1>11 DEF OneCopyByName, NameOf
  <1> QED
    BY <1>9, <1>10, <1>12, <1>13, <1>14, <1>15, <1>17, <1>18, <1>19, <1>20 DEF IInv

\* The module on top is freed; its compilation looks for another file.
LEMMA RefuseKeeps ==
    ASSUME IInv, Refuse
    PROVE  IInv'
  <1> DEFINE fr == [Top EXCEPT !.mod = NoMod]
             n == Len(frames)
             m1 == Top.mod
  <1>0. /\ TypeOK /\ LoadStackIsChain /\ Old /\ Held /\ Fitting /\ Sole /\ Counted
        /\ LeadsDown /\ Tied /\ OneCopyByName
    BY DEF IInv
  <1>1. /\ frames # <<>> /\ m1 # NoMod /\ loaded' = Freed(loaded, m1)
        /\ requests' = requests /\ file' = file /\ deps' = deps
        /\ asked' = asked /\ load_stack' = load_stack /\ next_mod' = next_mod
        /\ calls' = calls
    BY DEF Refuse
  <1>2. /\ Top = frames[1] /\ Top \in Compilation
        /\ n \in Nat \ {0} /\ DOMAIN frames = 1 .. n
    BY <1>0, <1>1, TopFacts
  <1>3. m1 \in Live /\ m1 \in Mods
    BY <1>0, <1>1, TextFacts
  <1>4. frames' = <<fr>> \o Tail(frames)
    BY DEF Refuse, With, Below
  <1>5. fr \in Compilation
    <2>1. 1 \in Nat \ {0} /\ NoMod \in Mods \union {NoMod} /\ Top.alts \in Seq(Files)
      BY <1>0, <1>1, TopFacts
    <2> QED
      BY <1>2, <2>1, CompilationChanged
  <1>6. fr.name = Top.name /\ fr.alts = Top.alts /\ fr.mod = NoMod /\ fr.at = Top.at
    BY <1>2 DEF Compilation
  <1> HIDE DEF fr
  <1>7. /\ frames' \in Seq(Compilation) /\ DOMAIN frames' = 1 .. n
        /\ frames'[1] = fr
        /\ \A k \in 2 .. n : frames'[k] = frames[k]
    <2>1. frames \in Seq(Compilation)
      BY <1>0, Types
    <2> QED
      BY <1>1, <1>2, <1>4, <1>5, <2>1, HeadReplaced
  <1>8. /\ Len(frames') = n
        /\ \A k \in 1 .. n : k = 1 \/ k \in 2 .. n
        /\ \A k \in 2 .. n : k \in 1 .. n /\ k - 1 \in 1 .. n /\ k # 1
    BY <1>2, <1>7
  <1>9. \A k \in 1 .. n : /\ frames'[k].name = frames[k].name
                          /\ frames'[k].alts = frames[k].alts
                          /\ frames'[k].mod # NoMod =>
                                k \in 2 .. n /\ frames'[k] = frames[k]
    BY <1>1, <1>2, <1>6, <1>7, <1>8
  <1> HIDE DEF n, m1
  <1>10. /\ loaded' \in Seq(Mods) /\ IsInjective(loaded') /\ Live' = Live \ {m1}
         /\ \A j, k \in DOMAIN loaded' : j < k =>
               \E a, b \in DOMAIN loaded : /\ a < b /\ loaded[a] = loaded'[j]
                                           /\ loaded[b] = loaded'[k]
    <2>1. loaded \in Seq(Mods) /\ IsInjective(loaded) /\ m1 \in ToSet(loaded)
      BY <1>0, <1>3, Types DEF Live
    <2> QED
      BY <1>1, <2>1, FreedFacts DEF Live
  <1>11. TypeOK'
    BY <1>0, <1>1, <1>7, <1>10 DEF TypeOK, Compilation
  <1>12. LoadStackIsChain'
    <2>1. Loads' = Loads
      BY <1>2, <1>7, <1>9 DEF Loads
    <2>2. \A k \in Loads : frames'[k].name = load_stack'[Len(load_stack') + 1 - k]
      BY <1>0, <1>1, <1>2, <1>9 DEF LoadStackIsChain, Loads
    <2>3. ASSUME NEW k \in 2 .. n
          PROVE  /\ frames'[k].mod # NoMod
                 /\ frames'[k].at <= Len(requests'[file'[frames'[k].mod]])
                 /\ requests'[file'[frames'[k].mod]][frames'[k].at] = frames'[k - 1].name
      <3>1. frames'[k] = frames[k] /\ frames'[k - 1].name = frames[k - 1].name
        BY <1>7, <1>8, <1>9
      <3> QED
        BY <1>0, <1>1, <3>1 DEF LoadStackIsChain, n
    <2> QED
      BY <1>0, <1>1, <1>8, <2>1, <2>2, <2>3 DEF LoadStackIsChain
  <1>13. Old'
    BY <1>0, <1>1, <1>10 DEF Old
  <1>14. \A k \in 2 .. n : frames[k].mod # m1
    <2>1. ASSUME NEW k \in 2 .. n, frames[k].mod = m1 PROVE FALSE
      <3>1. k \in DOMAIN frames /\ 1 \in DOMAIN frames /\ k # 1
        BY <1>2, <1>8
      <3>2. frames[1].mod = m1
        BY <1>2 DEF m1
      <3> QED
        BY <1>0, <1>1, <2>1, <3>1, <3>2 DEF Held
    <2> QED
      BY <2>1
  <1>15. Held'
    <2>1. ASSUME NEW k \in DOMAIN frames', frames'[k].mod # NoMod
          PROVE  frames'[k].mod \in Live'
      <3>1. k \in DOMAIN frames /\ k \in 2 .. n /\ frames'[k] = frames[k]
        BY <1>2, <1>7, <1>9, <2>1
      <3> QED
        BY <1>0, <1>10, <1>14, <2>1, <3>1 DEF Held
    <2>2. ASSUME NEW j \in DOMAIN frames', NEW k \in DOMAIN frames',
                 frames'[j].mod = frames'[k].mod, frames'[j].mod # NoMod
          PROVE  j = k
      BY <1>0, <1>2, <1>7, <1>9, <2>2 DEF Held
    <2> QED
      BY <2>1, <2>2 DEF Held
  <1>16. Fitting'
    BY <1>0, <1>1, <1>2, <1>7, <1>9 DEF Fitting
  <1>17. Sole'
    <2>1. ASSUME NEW k \in DOMAIN frames', NEW m \in Live', frames'[k].name # NoName,
                 asked[m] = frames'[k].name, NameOf(m) = frames'[k].name
          PROVE  frames'[k].mod = m
      <3>1. /\ k \in DOMAIN frames /\ frames'[k].name = frames[k].name
            /\ m \in Live /\ m # m1
        BY <1>2, <1>7, <1>9, <1>10
      <3>2. frames[k].mod = m
        BY <1>0, <2>1, <3>1 DEF Sole
      <3>3. k # 1
        BY <1>2, <3>1, <3>2 DEF m1
      <3> QED
        BY <1>7, <1>8, <3>2, <3>3
    <2>2. \A j, k \in DOMAIN frames' :
             frames'[j].name # NoName /\ frames'[j].name = frames'[k].name => j = k
      BY <1>0, <1>2, <1>7, <1>9 DEF Sole
    <2> QED
      BY <1>1, <2>1, <2>2 DEF Sole, NameOf
  <1>18. Counted'
    <2>1. ASSUME NEW m \in Live, m # m1
          PROVE  /\ (\A k \in DOMAIN frames' : frames'[k].mod # m)
                       => Len(deps[m]) = Len(requests[file[m]])
                 /\ \A k \in DOMAIN frames' : frames'[k].mod = m =>
                       /\ Len(deps[m]) = frames'[k].at - 1
                       /\ frames'[k].at <= Len(requests[file[m]]) + 1
      <3>1. m # NoMod
        BY <1>0, Types, Constants
      <3>2. ASSUME \A k \in DOMAIN frames' : frames'[k].mod # m, NEW k \in DOMAIN frames
            PROVE  frames[k].mod # m
        BY <1>2, <1>7, <1>8, <2>1, <3>2 DEF m1
      <3>3. ASSUME NEW k \in DOMAIN frames', frames'[k].mod = m
            PROVE  k \in DOMAIN frames /\ frames'[k] = frames[k]
        BY <1>2, <1>7, <1>9, <3>1, <3>3
      <3> QED
        BY <1>0, <3>2, <3>3 DEF Counted
    <2> QED
      BY <1>1, <1>10, <2>1 DEF Counted
  <1>19. LeadsDown'
    BY <1>0, <1>1, <1>2, <1>7, <1>8, <1>9 DEF LeadsDown
  <1>20. Tied'
    <2>1. ASSUME NEW m \in Live, NEW d \in ToSet(deps[m]),
                 d \notin Live' \/ \E k \in DOMAIN frames' : frames'[k].mod = d
          PROVE  /\ file[m] \in LeadsIn(requests, file[d])
                 /\ file[d] \in LeadsIn(requests, file[m])
      <3>1. d # NoMod
        <4>1. m \in Mods /\ deps[m] \in Seq(Mods)
          BY <1>0, Types
        <4> QED
          BY <4>1, Constants, ListElements
      <3>2. d \notin Live \/ \E k \in DOMAIN frames : frames[k].mod = d
        <4>1. CASE d = m1
          <5>1. 1 \in DOMAIN frames /\ frames[1].mod = m1
            BY <1>2 DEF m1
          <5> QED
            BY <4>1, <5>1
        <4>2. CASE d # m1
          BY <1>2, <1>7, <1>9, <1>10, <2>1, <3>1, <4>2
        <4> QED
          BY <4>1, <4>2
      <3> QED
        BY <1>0, <3>2 DEF Tied
    <2> QED
      BY <1>1, <1>10, <2>1 DEF Tied
  <1>21. OneCopyByName'
    BY <1>0, <1>1, <1>10 DEF OneCopyByName, NameOf
  <1> QED
    BY <1>11, <1>12, <1>13, <1>15, <1>16, <1>17, <1>18, <1>19, <1>20, <1>21 DEF IInv

\* A load that returns, in either way, is taken off the load stack.
LEMMA LoadStackPopped ==
    ASSUME TypeOK, LoadStackIsChain, frames # <<>>,
           load_stack' = Popped(load_stack, Top.name),
           DOMAIN frames' = 1 .. Len(frames) - 1,
           \A k \in 1 .. Len(frames) - 1 : frames'[k].name = frames[k + 1].name
    PROVE  /\ load_stack' \in Seq(Names)
           /\ Loads' = DOMAIN load_stack'
           /\ \A k \in Loads' : frames'[k].name = load_stack'[Len(load_stack') + 1 - k]
  <1> DEFINE l == Len(load_stack)
             n == Len(frames)
  <1>1. /\ load_stack \in Seq(Names) /\ l \in Nat /\ DOMAIN load_stack = 1 .. l
        /\ Top = frames[1] /\ n \in Nat \ {0} /\ DOMAIN frames = 1 .. n
    BY TopFacts, Types
  <1>2. Loads = 1 .. l /\ \A k \in Loads : frames[k].name = load_stack[l + 1 - k]
    BY <1>1 DEF LoadStackIsChain
  <1>3. \A k \in Loads : k \in 1 .. n /\ frames[k].name # NoName
    BY <1>1 DEF Loads
  <1>4. \A k \in 1 .. n : frames[k].name # NoName => k \in Loads
    BY <1>1 DEF Loads
  <1>5. \A k : k \in Loads' <=> k \in 1 .. n - 1 /\ k + 1 \in Loads
    <2>1. ASSUME NEW k \in Loads' PROVE k \in 1 .. n - 1 /\ k + 1 \in Loads
      <3>1. k \in 1 .. n - 1 /\ frames'[k].name # NoName
        BY <2>1 DEF Loads
      <3>2. k + 1 \in 1 .. n /\ frames[k + 1].name # NoName
        BY <1>1, <3>1
      <3> QED
        BY <1>4, <3>1, <3>2
    <2>2. ASSUME NEW k \in 1 .. n - 1, k + 1 \in Loads PROVE k \in Loads'
      BY <1>3, <2>2 DEF Loads
    <2> QED
      BY <2>1, <2>2
  <1>6. CASE Top.name = NoName
    <2>1. 1 \notin Loads
      BY <1>1, <1>3, <1>6
    <2>2. l = 0
      BY <1>1, <1>2, <2>1
    <2>3. load_stack' = load_stack /\ Loads = {} /\ DOMAIN load_stack = {}
      BY <1>1, <1>2, <1>6, <2>2 DEF Popped
    <2>4. Loads' = {}
      BY <1>5, <2>3
    <2> QED
      BY <1>1, <2>3, <2>4
  <1>7. CASE Top.name # NoName
    <2>1. 1 \in Loads
      BY <1>1, <1>4, <1>7
    <2>2. l > 0
      BY <1>1, <1>2, <2>1
    <2>3. /\ load_stack' \in Seq(Names) /\ Len(load_stack') = l - 1
          /\ DOMAIN load_stack' = 1 .. l - 1
          /\ \A i \in 1 .. l - 1 : load_stack'[i] = load_stack[i]
      <3>1. load_stack' = SubSeq(load_stack, 1, l - 1)
        BY <1>7 DEF Popped, Front
      <3>2. PICK s, j : s = load_stack /\ j = l - 1
        OBVIOUS
      <3>3. s \in Seq(Names) /\ j \in Nat /\ j <= Len(s) /\ 1 \in Nat
        BY <1>1, <2>2, <3>2
      <3>4. /\ SubSeq(s, 1, j) \in Seq(Names) /\ Len(SubSeq(s, 1, j)) = j
            /\ \A i \in 1 .. j : SubSeq(s, 1, j)[i] = s[i]
        BY <3>3
      <3> QED
        BY <3>1, <3>2, <3>4
    <2>4. Loads' = 1 .. l - 1
      <3>1. ASSUME NEW k \in Loads' PROVE k \in 1 .. l - 1
        BY <1>1, <1>2, <1>5, <3>1
      <3>2. ASSUME NEW k \in 1 .. l - 1 PROVE k \in Loads'
        <4>1. k + 1 \in Loads
          BY <1>1, <1>2, <3>2
        <4>2. k + 1 \in 1 .. n /\ k \in Nat \ {0}
          BY <1>1, <1>3, <4>1
        <4> QED
          BY <1>1, <1>5, <4>1, <4>2
      <3> QED
        BY <3>1, <3>2
    <2>5. ASSUME NEW k \in 1 .. l - 1 PROVE frames'[k].name = load_stack'[(l - 1) + 1 - k]
      <3>1. k + 1 \in Loads /\ k \in 1 .. n - 1
        BY <1>5, <2>4, <2>5
      <3>2. frames'[k].name = load_stack[l + 1 - (k + 1)]
        <4>1. frames'[k].name = frames[k + 1].name
          BY <3>1
        <4>2. frames[k + 1].name = load_stack[l + 1 - (k + 1)]
          BY <1>2, <3>1
        <4> QED
          BY <4>1, <4>2
      <3>3. l + 1 - (k + 1) = (l - 1) + 1 - k /\ (l - 1) + 1 - k \in 1 .. l - 1
        <4>1. l \in Nat /\ k \in Nat /\ 1 <= k /\ k <= l - 1
          BY <1>1
        <4> HIDE DEF l
        <4> QED
          BY <4>1
      <3> QED
        BY <2>3, <3>2, <3>3
    <2> QED
      BY <2>3, <2>4, <2>5
  <1> QED
    BY <1>6, <1>7

\* A load is complete: the compilation below goes on with the module it asked for.
LEMMA FinishKeeps ==
    ASSUME IInv, Finish
    PROVE  IInv'
  <1> DEFINE n == Len(frames)
             m1 == Top.mod
             m2 == frames[2].mod
  <1>0. /\ TypeOK /\ LoadStackIsChain /\ Old /\ Held /\ Fitting /\ Sole /\ Counted
        /\ LeadsDown /\ Tied /\ OneCopyByName
    BY DEF IInv
  <1>1. /\ frames # <<>> /\ m1 # NoMod /\ AtEnd
        /\ load_stack' = Popped(load_stack, Top.name)
        /\ requests' = requests /\ loaded' = loaded /\ file' = file
        /\ asked' = asked /\ next_mod' = next_mod /\ calls' = calls
    BY DEF Finish
  <1>2. /\ Top = frames[1] /\ n \in Nat \ {0} /\ DOMAIN frames = 1 .. n
        /\ Below = <<>> <=> n = 1
        /\ frames \in Seq(Compilation)
    BY <1>0, <1>1, TopFacts, Types
  <1>3. /\ m1 \in Live /\ m1 \in Mods /\ Text = requests[file[m1]] /\ Text \in Seq(Names)
    <2>1. Text = requests[file[m1]]
      BY DEF Text
    <2> QED
      BY <1>0, <1>1, <2>1, TextFacts
  <1>4. Len(deps[m1]) = Len(requests[file[m1]])
    <2>1. 1 \in DOMAIN frames /\ frames[1].mod = m1 /\ Top.at \in Nat \ {0}
      BY <1>0, <1>1, <1>2, TopFacts
    <2>2. Len(deps[m1]) = Top.at - 1 /\ Top.at <= Len(requests[file[m1]]) + 1
      BY <1>0, <1>2, <1>3, <2>1 DEF Counted
    <2>3. Top.at > Len(Text) /\ Len(Text) \in Nat
      BY <1>1, <1>3 DEF AtEnd
    <2> HIDE DEF m1
    <2> QED
      BY <1>3, <2>1, <2>2, <2>3
  <1>5. n > 1 => /\ m2 \in Live /\ m2 \in Mods /\ m2 # m1 /\ m2 # NoMod
                 /\ frames[2].at <= Len(requests[file[m2]])
                 /\ file[m2] \in Files /\ frames[2].at \in Nat \ {0}
                 /\ Len(deps[m2]) = frames[2].at - 1
                 /\ frames[2] \in Compilation
    <2> SUFFICES ASSUME n > 1
                 PROVE  /\ m2 \in Live /\ m2 \in Mods /\ m2 # m1 /\ m2 # NoMod
                        /\ frames[2].at <= Len(requests[file[m2]])
                        /\ file[m2] \in Files /\ frames[2].at \in Nat \ {0}
                        /\ Len(deps[m2]) = frames[2].at - 1
                        /\ frames[2] \in Compilation
      OBVIOUS
    <2>1. 2 \in 2 .. n /\ 2 \in DOMAIN frames /\ 1 \in DOMAIN frames
      BY <1>2
    <2>2. m2 # NoMod /\ frames[2].at <= Len(requests[file[m2]])
      BY <1>0, <2>1 DEF LoadStackIsChain
    <2>3. m2 \in Live /\ m2 # m1
      BY <1>0, <1>2, <2>1, <2>2 DEF Held
    <2>4. m2 \in Mods /\ file[m2] \in Files
      BY <1>0, <2>3, Types DEF Old
    <2>5. Len(deps[m2]) = frames[2].at - 1
      BY <1>0, <2>1, <2>3 DEF Counted
    <2>6. frames[2] \in Compilation
      BY <1>2, <2>1
    <2>7. frames[2].at \in Nat \ {0}
      BY <2>6 DEF Compilation
    <2> QED
      BY <2>2, <2>3, <2>4, <2>5, <2>6, <2>7
  <1>6. deps \in [Mods -> Seq(Mods)] /\ \A m \in Mods : deps[m] \in Seq(Mods)
    BY <1>0, Types
  <1> DEFINE Shifted ==
        /\ frames' \in Seq(Compilation) /\ DOMAIN frames' = 1 .. n - 1 /\ Len(frames') = n - 1
        /\ \A k \in 1 .. n - 1 : /\ frames'[k].name = frames[k + 1].name
                                 /\ frames'[k].mod = frames[k + 1].mod
                                 /\ frames'[k].alts = frames[k + 1].alts
        /\ \A k \in 2 .. n - 1 : frames'[k] = frames[k + 1]
        /\ n > 1 => /\ frames'[1].at = frames[2].at + 1
                    /\ deps' = [deps EXCEPT ![m2] = Append(@, m1)]
        /\ n = 1 => deps' = deps
  <1>7. Shifted
    <2>1. CASE n = 1
      <3>1. frames' = <<>> /\ deps' = deps
        BY <1>2, <2>1 DEF Finish
      <3> QED
        BY <2>1, <3>1
    <2>2. CASE n # 1
      <3> DEFINE fr == [frames[2] EXCEPT !.at = @ + 1]
      <3>1. n > 1 /\ Below # <<>>
        BY <1>2, <2>2
      <3>2. /\ frames' = <<[Head(Below) EXCEPT !.at = @ + 1]>> \o Tail(Below)
            /\ deps' = [deps EXCEPT ![Head(Below).mod] = Append(@, m1)]
        BY <3>1 DEF Finish, Resolved
      <3>3. Head(Below) = frames[2] /\ Below = Tail(frames)
        <4>1. frames[2] \in Compilation /\ Tail(frames) # <<>>
          BY <1>5, <3>1 DEF Below
        <4> QED
          BY <1>1, <1>2, <4>1, NextReplaced DEF Below
      <3>4. frames' = <<fr>> \o Tail(Tail(frames))
        BY <3>2, <3>3
      <3>5. fr \in Compilation
        <4>1. \A i \in Nat \ {0} : [frames[2] EXCEPT !.at = i] \in Compilation
          <5>1. NoMod \in Mods \union {NoMod} /\ frames[2].alts \in Seq(Files)
            BY <1>5, <3>1 DEF Compilation
          <5> QED
            BY <1>5, <3>1, <5>1, CompilationChanged
        <4>2. frames[2].at + 1 \in Nat \ {0}
          BY <1>5, <3>1
        <4> QED
          BY <4>1, <4>2
      <3>6. /\ fr.name = frames[2].name /\ fr.alts = frames[2].alts
            /\ fr.mod = m2 /\ fr.at = frames[2].at + 1
        BY <1>5, <3>1 DEF Compilation
      <3> HIDE DEF fr
      <3>7. /\ frames' \in Seq(Compilation) /\ DOMAIN frames' = 1 .. n - 1
            /\ Len(frames') = n - 1 /\ frames'[1] = fr
            /\ \A k \in 2 .. n - 1 : frames'[k] = frames[k + 1]
        <4>1. Tail(frames) # <<>>
          BY <3>1 DEF Below
        <4> QED
          BY <1>1, <1>2, <3>4, <3>5, <4>1, NextReplaced
      <3>8. \A k \in 1 .. n - 1 : k = 1 \/ k \in 2 .. n - 1
        BY <1>2
      <3>9. \A k \in 1 .. n - 1 : /\ frames'[k].name = frames[k + 1].name
                                  /\ frames'[k].mod = frames[k + 1].mod
                                  /\ frames'[k].alts = frames[k + 1].alts
        BY <3>6, <3>7, <3>8
      <3>10. deps' = [deps EXCEPT ![m2] = Append(@, m1)]
        BY <3>2, <3>3
      <3> QED
        BY <2>2, <3>6, <3>7, <3>9, <3>10
    <2> QED
      BY <2>1, <2>2
  <1>8. /\ \A m \in Mods : n = 1 \/ m # m2 => deps'[m] = deps[m]
        /\ n > 1 => /\ ToSet(deps'[m2]) = ToSet(deps[m2]) \union {m1}
                    /\ Len(deps'[m2]) = Len(deps[m2]) + 1
        /\ deps' \in [Mods -> Seq(Mods)]
        /\ n = 1 \/ n > 1
    <2>1. n = 1 \/ n > 1
      BY <1>2
    <2>2. CASE n = 1
      BY <1>6, <1>7, <2>2
    <2>3. CASE n > 1
      <3>1. deps[m2] \in Seq(Mods) /\ deps' = [deps EXCEPT ![m2] = Append(@, m1)]
        BY <1>5, <1>6, <1>7, <2>3
      <3>2. /\ ToSet(Append(deps[m2], m1)) = ToSet(deps[m2]) \union {m1}
            /\ Append(deps[m2], m1) \in Seq(Mods)
            /\ Len(Append(deps[m2], m1)) = Len(deps[m2]) + 1
        BY <1>3, <3>1, ListElements
      <3> QED
        BY <1>5, <1>6, <2>3, <3>1, <3>2
    <2> QED
      BY <2>1, <2>2, <2>3
  <1>9. /\ frames' \in Seq(Compilation) /\ DOMAIN frames' = 1 .. n - 1 /\ Len(frames') = n - 1
        /\ \A k \in 1 .. n - 1 : /\ frames'[k].name = frames[k + 1].name
                                 /\ frames'[k].mod = frames[k + 1].mod
                                 /\ frames'[k].alts = frames[k + 1].alts
                                 /\ k + 1 \in DOMAIN frames /\ k + 1 # 1 /\ k \in Nat
        /\ \A k \in 2 .. n - 1 : frames'[k] = frames[k + 1]
        /\ n > 1 => frames'[1].at = frames[2].at + 1
    BY <1>2, <1>7
  <1>10. Live' = Live
    BY <1>1 DEF Live
  <1>11. \A k \in DOMAIN frames' : frames'[k].mod # m1
    <2>1. 1 \in DOMAIN frames /\ frames[1].mod = m1
      BY <1>2
    <2>2. ASSUME NEW k \in DOMAIN frames', frames'[k].mod = m1 PROVE FALSE
      <3>1. k + 1 \in DOMAIN frames /\ k + 1 # 1 /\ frames[k + 1].mod = m1
        BY <1>9, <2>2
      <3> HIDE DEF m1
      <3> QED
        BY <1>0, <1>1, <2>1, <3>1 DEF Held
    <2> QED
      BY <2>2
  <1>12. TypeOK' /\ LoadStackIsChain'
    <2>1. /\ load_stack' \in Seq(Names) /\ Loads' = DOMAIN load_stack'
          /\ \A k \in Loads' : frames'[k].name = load_stack'[Len(load_stack') + 1 - k]
      BY <1>0, <1>1, <1>9, LoadStackPopped
    <2>2. TypeOK'
      BY <1>0, <1>1, <1>8, <1>9, <2>1 DEF TypeOK, Compilation
    <2>3. ASSUME NEW k \in 2 .. n - 1
          PROVE  /\ frames'[k].mod # NoMod
                 /\ frames'[k].at <= Len(requests[file[frames'[k].mod]])
                 /\ requests[file[frames'[k].mod]][frames'[k].at] = frames'[k - 1].name
      <3>1. k + 1 \in 2 .. n /\ k - 1 \in 1 .. n - 1 /\ (k - 1) + 1 = k /\ (k + 1) - 1 = k
        BY <1>2
      <3>2. frames'[k] = frames[k + 1] /\ frames'[k - 1].name = frames[k].name
        BY <1>9, <3>1
      <3> QED
        BY <1>0, <3>1, <3>2 DEF LoadStackIsChain
    <2> QED
      BY <1>1, <1>9, <2>1, <2>2, <2>3 DEF LoadStackIsChain
  <1> HIDE DEF n, m1, m2, Shifted
  <1>13. Old'
    <2>1. \A m \in Live : m < next_mod /\ file[m] \in Files
      BY <1>0 DEF Old
    <2>2. ASSUME NEW m \in Mods, m >= next_mod PROVE deps'[m] = <<>>
      <3>1. n = 1 \/ m # m2
        <4>1. CASE n > 1 /\ m = m2
          <5>1. m < next_mod /\ m \in Nat /\ next_mod \in Nat
            BY <1>0, <1>5, <2>1, <4>1, Types, Constants
          <5> QED
            BY <2>2, <5>1
        <4> QED
          BY <1>8, <4>1
      <3> QED
        BY <1>0, <1>8, <2>2, <3>1 DEF Old
    <2>3. ASSUME NEW m \in Mods, NEW d \in ToSet(deps'[m]) PROVE d < next_mod
      <3>1. d \in ToSet(deps[m]) \/ d = m1
        BY <1>8, <2>3
      <3> QED
        BY <1>0, <1>3, <2>1, <3>1 DEF Old
    <2> QED
      BY <1>1, <1>10, <2>1, <2>2, <2>3 DEF Old
  <1>14. Held'
    <2>1. ASSUME NEW j \in DOMAIN frames', NEW k \in DOMAIN frames',
                 frames'[j].mod = frames'[k].mod, frames'[j].mod # NoMod
          PROVE  j = k
      <3>1. j + 1 = k + 1
        BY <1>0, <1>9, <2>1 DEF Held
      <3> QED
        BY <1>9, <3>1
    <2> QED
      BY <1>0, <1>9, <1>10, <2>1 DEF Held
  <1>15. Fitting'
    <2>1. ASSUME NEW k \in DOMAIN frames', frames'[k].name # NoName
          PROVE  /\ ToSet(frames'[k].alts) \subseteq ToSet(Candidates[frames'[k].name])
                 /\ frames'[k].mod # NoMod =>
                       file[frames'[k].mod] \in ToSet(Candidates[frames'[k].name])
      <3>1. /\ k + 1 \in DOMAIN frames /\ frames'[k].name = frames[k + 1].name
            /\ frames'[k].mod = frames[k + 1].mod /\ frames'[k].alts = frames[k + 1].alts
        BY <1>9
      <3> QED
        BY <1>0, <2>1, <3>1 DEF Fitting
    <2> QED
      BY <1>1, <2>1 DEF Fitting
  <1>16. Sole'
    <2>1. ASSUME NEW k \in DOMAIN frames', NEW m \in Live, frames'[k].name # NoName,
                 asked[m] = frames'[k].name, NameOf(m) = frames'[k].name
          PROVE  frames'[k].mod = m
      BY <1>0, <1>9, <2>1 DEF Sole
    <2>2. ASSUME NEW j \in DOMAIN frames', NEW k \in DOMAIN frames',
                 frames'[j].name # NoName, frames'[j].name = frames'[k].name
          PROVE  j = k
      <3>1. /\ j + 1 \in DOMAIN frames /\ frames'[j].name = frames[j + 1].name /\ j \in Nat
            /\ k + 1 \in DOMAIN frames /\ frames'[k].name = frames[k + 1].name /\ k \in Nat
        BY <1>9
      <3>2. j + 1 = k + 1
        BY <1>0, <2>2, <3>1 DEF Sole
      <3> QED
        BY <3>1, <3>2
    <2> QED
      BY <1>1, <1>10, <2>1, <2>2 DEF Sole, NameOf
  <1>17. Counted'
    <2>1. ASSUME NEW m \in Live, \A k \in DOMAIN frames' : frames'[k].mod # m
          PROVE  Len(deps'[m]) = Len(requests[file[m]])
      <3>1. m \in Mods
        BY <1>0, Types
      <3>2. n = 1 \/ m # m2
        <4>1. CASE n > 1
          <5>1. 1 \in 1 .. n - 1 /\ 1 + 1 = 2
            BY <1>2, <4>1 DEF n
          <5>2. 1 \in DOMAIN frames' /\ frames'[1].mod = m2
            BY <1>9, <5>1 DEF m2
          <5> QED
            BY <2>1, <5>2
        <4> QED
          BY <1>8, <4>1
      <3>3. deps'[m] = deps[m]
        BY <1>8, <3>1, <3>2
      <3>4. CASE m = m1
        BY <1>4, <3>3, <3>4
      <3>5. CASE m # m1
        <4>1. ASSUME NEW k \in DOMAIN frames PROVE frames[k].mod # m
          <5>1. CASE k = 1
            BY <1>2, <3>5, <5>1 DEF m1
          <5>2. CASE k # 1
            <6>1. k - 1 \in 1 .. n - 1 /\ (k - 1) + 1 = k
              BY <1>2, <5>2 DEF n
            <6> QED
              BY <1>9, <2>1, <6>1
          <5> QED
            BY <5>1, <5>2
        <4> QED
          BY <1>0, <3>3, <4>1 DEF Counted
      <3> QED
        BY <3>4, <3>5
    <2>2. ASSUME NEW m \in Live, NEW k \in DOMAIN frames', frames'[k].mod = m
          PROVE  /\ Len(deps'[m]) = frames'[k].at - 1
                 /\ frames'[k].at <= Len(requests[file[m]]) + 1
      <3>1. k \in 1 .. n - 1 /\ frames[k + 1].mod = m /\ k + 1 \in DOMAIN frames /\ m \in Mods
        BY <1>0, <1>9, <2>2, Types
      <3>2. /\ Len(deps[m]) = frames[k + 1].at - 1
            /\ frames[k + 1].at <= Len(requests[file[m]]) + 1
        BY <1>0, <3>1 DEF Counted
      <3>3. CASE k = 1
        <4>1. n > 1 /\ m = m2 /\ frames'[1].at = frames[2].at + 1
          <5>1. n > 1 /\ k + 1 = 2
            BY <1>2, <3>1, <3>3 DEF n
          <5> QED
            BY <1>9, <3>1, <5>1 DEF m2
        <4>2. /\ Len(deps'[m]) = Len(deps[m]) + 1 /\ Len(deps[m]) = frames[2].at - 1
              /\ frames[2].at \in Nat \ {0} /\ frames[2].at <= Len(requests[file[m]])
          BY <1>5, <1>8, <4>1
        <4>3. Len(requests[file[m]]) \in Nat
          <5>1. requests[file[m]] \in Seq(Names)
            BY <1>0, <1>5, <4>1, Types
          <5> QED
            BY <5>1
        <4> QED
          BY <3>3, <4>1, <4>2, <4>3
      <3>4. CASE k # 1
        <4>1. k \in 2 .. n - 1 /\ frames'[k] = frames[k + 1]
          BY <1>2, <1>9, <3>1, <3>4 DEF n
        <4>2. n = 1 \/ m # m2
          <5>1. CASE n > 1 /\ m = m2
            <6>1. 2 \in DOMAIN frames /\ k + 1 # 2
              BY <1>2, <4>1, <5>1 DEF n
            <6> QED
              BY <1>0, <1>5, <3>1, <5>1, <6>1 DEF Held, m2
          <5> QED
            BY <1>8, <5>1
        <4> QED
          BY <1>8, <3>1, <3>2, <4>1, <4>2
      <3> QED
        BY <3>3, <3>4
    <2> QED
      BY <1>1, <1>10, <2>1, <2>2 DEF Counted
  <1>18. LeadsDown'
    <2>1. ASSUME NEW j \in DOMAIN frames', NEW k \in DOMAIN frames', j < k,
                 frames'[j].mod # NoMod
          PROVE  file[frames'[j].mod] \in LeadsIn(requests, file[frames'[k].mod])
      <3>1. j + 1 < k + 1 /\ j + 1 \in DOMAIN frames /\ k + 1 \in DOMAIN frames
        BY <1>9, <2>1
      <3> QED
        BY <1>0, <1>9, <2>1, <3>1 DEF LeadsDown
    <2> QED
      BY <1>1, <2>1 DEF LeadsDown
  <1>19. Tied'
    <2>1. ASSUME NEW m \in Live, NEW d \in ToSet(deps'[m]),
                 d \notin Live \/ \E k \in DOMAIN frames' : frames'[k].mod = d
          PROVE  /\ file[m] \in LeadsIn(requests, file[d])
                 /\ file[d] \in LeadsIn(requests, file[m])
      <3>1. d # m1
        BY <1>3, <1>11, <2>1
      <3>2. d \in ToSet(deps[m])
        <4>1. m \in Mods
          BY <1>0, Types
        <4> QED
          BY <1>8, <2>1, <3>1, <4>1
      <3>3. d \notin Live \/ \E k \in DOMAIN frames : frames[k].mod = d
        BY <1>9, <2>1
      <3> QED
        BY <1>0, <3>2, <3>3 DEF Tied
    <2> QED
      BY <1>1, <1>10, <2>1 DEF Tied
  <1>20. OneCopyByName'
    BY <1>0, <1>1, <1>10 DEF OneCopyByName, NameOf
  <1> QED
    BY <1>12, <1>13, <1>14, <1>15, <1>16, <1>17, <1>18, <1>19, <1>20 DEF IInv

\* A load has failed, and with it the module that asked for it.
LEMMA GiveUpKeeps ==
    ASSUME IInv, GiveUp
    PROVE  IInv'
  <1> DEFINE n == Len(frames)
             m2 == frames[2].mod
  <1>0. /\ TypeOK /\ LoadStackIsChain /\ Old /\ Held /\ Fitting /\ Sole /\ Counted
        /\ LeadsDown /\ Tied /\ OneCopyByName
    BY DEF IInv
  <1>1. /\ frames # <<>> /\ Top.mod = NoMod
        /\ load_stack' = Popped(load_stack, Top.name)
        /\ requests' = requests /\ file' = file /\ deps' = deps
        /\ asked' = asked /\ next_mod' = next_mod /\ calls' = calls
    BY DEF GiveUp
  <1>2. /\ Top = frames[1] /\ n \in Nat \ {0} /\ DOMAIN frames = 1 .. n
        /\ Below = <<>> <=> n = 1
        /\ frames \in Seq(Compilation)
    BY <1>0, <1>1, TopFacts, Types
  <1>3. n > 1 => /\ m2 \in Live /\ m2 \in Mods /\ m2 # NoMod /\ frames[2] \in Compilation
    <2> SUFFICES ASSUME n > 1
                 PROVE  m2 \in Live /\ m2 \in Mods /\ m2 # NoMod /\ frames[2] \in Compilation
      OBVIOUS
    <2>1. 2 \in 2 .. n /\ 2 \in DOMAIN frames
      BY <1>2
    <2>2. m2 # NoMod
      BY <1>0, <2>1 DEF LoadStackIsChain
    <2>3. m2 \in Live
      BY <1>0, <1>2, <2>1, <2>2 DEF Held
    <2>4. m2 \in Mods
      BY <1>0, <2>3, Types
    <2>5. frames[2] \in Compilation
      BY <1>2, <2>1
    <2> QED
      BY <2>2, <2>3, <2>4, <2>5
  <1> DEFINE Shifted ==
        /\ frames' \in Seq(Compilation) /\ DOMAIN frames' = 1 .. n - 1 /\ Len(frames') = n - 1
        /\ \A k \in 1 .. n - 1 : /\ frames'[k].name = frames[k + 1].name
                                 /\ frames'[k].alts = frames[k + 1].alts
        /\ \A k \in 2 .. n - 1 : frames'[k] = frames[k + 1]
        /\ n > 1 => /\ frames'[1].mod = NoMod
                    /\ loaded' = Freed(loaded, m2)
        /\ n = 1 => loaded' = loaded
  <1>4. Shifted
    <2>1. CASE n = 1
      <3>1. frames' = <<>> /\ loaded' = loaded
        BY <1>2, <2>1 DEF GiveUp
      <3> QED
        BY <2>1, <3>1
    <2>2. CASE n # 1
      <3> DEFINE fr == [frames[2] EXCEPT !.mod = NoMod]
      <3>1. n > 1 /\ Below # <<>>
        BY <1>2, <2>2
      <3>2. /\ frames' = <<[Head(Below) EXCEPT !.mod = NoMod]>> \o Tail(Below)
            /\ loaded' = Freed(loaded, Head(Below).mod)
        BY <3>1 DEF GiveUp
      <3>3. Head(Below) = frames[2] /\ Below = Tail(frames)
        <4>1. frames[2] \in Compilation /\ Tail(frames) # <<>>
          BY <1>3, <3>1 DEF Below
        <4> QED
          BY <1>1, <1>2, <4>1, NextReplaced DEF Below
      <3>4. frames' = <<fr>> \o Tail(Tail(frames))
        BY <3>2, <3>3
      <3>5. fr \in Compilation
        <4>1. NoMod \in Mods \union {NoMod} /\ frames[2].alts \in Seq(Files) /\ 1 \in Nat \ {0}
          BY <1>3, <3>1 DEF Compilation
        <4> QED
          BY <1>3, <3>1, <4>1, CompilationChanged
      <3>6. /\ fr.name = frames[2].name /\ fr.alts = frames[2].alts /\ fr.mod = NoMod
        BY <1>3, <3>1 DEF Compilation
      <3> HIDE DEF fr
      <3>7. /\ frames' \in Seq(Compilation) /\ DOMAIN frames' = 1 .. n - 1
            /\ Len(frames') = n - 1 /\ frames'[1] = fr
            /\ \A k \in 2 .. n - 1 : frames'[k] = frames[k + 1]
        <4>1. Tail(frames) # <<>>
          BY <3>1 DEF Below
        <4> QED
          BY <1>1, <1>2, <3>4, <3>5, <4>1, NextReplaced
      <3>8. \A k \in 1 .. n - 1 : k = 1 \/ k \in 2 .. n - 1
        BY <1>2
      <3>9. \A k \in 1 .. n - 1 : /\ frames'[k].name = frames[k + 1].name
                                  /\ frames'[k].alts = frames[k + 1].alts
        BY <3>6, <3>7, <3>8
      <3>10. loaded' = Freed(loaded, m2)
        BY <3>2, <3>3
      <3> QED
        BY <2>2, <3>6, <3>7, <3>9, <3>10
    <2> QED
      BY <2>1, <2>2
  <1>5. /\ frames' \in Seq(Compilation) /\ DOMAIN frames' = 1 .. n - 1 /\ Len(frames') = n - 1
        /\ \A k \in 1 .. n - 1 : /\ frames'[k].name = frames[k + 1].name
                                 /\ frames'[k].alts = frames[k + 1].alts
                                 /\ k + 1 \in DOMAIN frames /\ k + 1 # 1 /\ k \in Nat
                                 /\ k # 1 => k \in 2 .. n - 1
        /\ \A k \in 2 .. n - 1 : frames'[k] = frames[k + 1]
        /\ n > 1 => frames'[1].mod = NoMod
        /\ n = 1 \/ n > 1
    BY <1>2, <1>4
  <1>6. \A k \in DOMAIN frames' : frames'[k].mod # NoMod =>
           /\ k # 1 /\ frames'[k] = frames[k + 1] /\ k + 1 \in DOMAIN frames /\ k + 1 # 2
           /\ k \in 2 .. n - 1 /\ n > 1
    <2>1. ASSUME NEW k \in DOMAIN frames', frames'[k].mod # NoMod
          PROVE  /\ k # 1 /\ frames'[k] = frames[k + 1] /\ k + 1 \in DOMAIN frames
                 /\ k + 1 # 2 /\ k \in 2 .. n - 1 /\ n > 1
      <3>1. k \in 1 .. n - 1 /\ n > 1
        BY <1>2, <1>5
      <3>2. k # 1
        BY <1>5, <2>1, <3>1
      <3>3. k \in 2 .. n - 1 /\ k + 1 # 2
        BY <1>2, <3>1, <3>2
      <3> QED
        BY <1>5, <3>1, <3>2, <3>3
    <2> QED
      BY <2>1
  <1>7. /\ loaded' \in Seq(Mods) /\ IsInjective(loaded')
        /\ Live' = {m \in Live : n = 1 \/ m # m2}
        /\ \A j, k \in DOMAIN loaded' : j < k =>
              \E a, b \in DOMAIN loaded : /\ a < b /\ loaded[a] = loaded'[j]
                                          /\ loaded[b] = loaded'[k]
    <2>1. loaded \in Seq(Mods) /\ IsInjective(loaded)
      BY <1>0, Types
    <2>2. CASE n = 1
      <3>1. loaded' = loaded
        BY <1>4, <2>2
      <3> QED
        BY <2>1, <2>2, <3>1 DEF Live
    <2>3. CASE n > 1
      <3>1. loaded' = Freed(loaded, m2) /\ m2 \in ToSet(loaded)
        BY <1>3, <1>4, <2>3 DEF Live
      <3> QED
        BY <2>1, <2>3, <3>1, FreedFacts DEF Live
    <2> QED
      BY <1>5, <2>2, <2>3
  <1>8. TypeOK' /\ LoadStackIsChain'
    <2>1. /\ load_stack' \in Seq(Names) /\ Loads' = DOMAIN load_stack'
          /\ \A k \in Loads' : frames'[k].name = load_stack'[Len(load_stack') + 1 - k]
      BY <1>0, <1>1, <1>5, LoadStackPopped
    <2>2. TypeOK'
      BY <1>0, <1>1, <1>5, <1>7, <2>1 DEF TypeOK, Compilation
    <2>3. ASSUME NEW k \in 2 .. n - 1
          PROVE  /\ frames'[k].mod # NoMod
                 /\ frames'[k].at <= Len(requests[file[frames'[k].mod]])
                 /\ requests[file[frames'[k].mod]][frames'[k].at] = frames'[k - 1].name
      <3>1. k + 1 \in 2 .. n /\ k - 1 \in 1 .. n - 1 /\ (k - 1) + 1 = k /\ (k + 1) - 1 = k
        BY <1>2
      <3>2. frames'[k] = frames[k + 1] /\ frames'[k - 1].name = frames[k].name
        BY <1>5, <3>1
      <3> QED
        BY <1>0, <3>1, <3>2 DEF LoadStackIsChain
    <2> QED
      BY <1>1, <1>5, <2>1, <2>2, <2>3 DEF LoadStackIsChain
  <1> HIDE DEF n, m2, Shifted
  <1>9. Old'
    BY <1>0, <1>1, <1>7 DEF Old
  <1>10. Held'
    <2>1. ASSUME NEW k \in DOMAIN frames', frames'[k].mod # NoMod
          PROVE  frames'[k].mod \in Live'
      <3>1. /\ frames'[k] = frames[k + 1] /\ k + 1 \in DOMAIN frames /\ k + 1 # 2 /\ n > 1
            /\ frames[k + 1].mod # NoMod
        BY <1>6, <2>1
      <3>2. 2 \in DOMAIN frames
        BY <1>2, <3>1 DEF n
      <3>3. frames[k + 1].mod \in Live
        BY <1>0, <3>1 DEF Held
      <3>4. frames[k + 1].mod # m2
        BY <1>0, <3>1, <3>2 DEF Held, m2
      <3> QED
        BY <1>7, <3>1, <3>3, <3>4
    <2>2. ASSUME NEW j \in DOMAIN frames', NEW k \in DOMAIN frames',
                 frames'[j].mod = frames'[k].mod, frames'[j].mod # NoMod
          PROVE  j = k
      <3>1. /\ frames'[j] = frames[j + 1] /\ j + 1 \in DOMAIN frames
            /\ frames'[k] = frames[k + 1] /\ k + 1 \in DOMAIN frames
        BY <1>6, <2>2
      <3>2. j + 1 = k + 1
        BY <1>0, <2>2, <3>1 DEF Held
      <3> QED
        BY <1>5, <3>2
    <2> QED
      BY <2>1, <2>2 DEF Held
  <1>11. Fitting'
    <2>1. ASSUME NEW k \in DOMAIN frames', frames'[k].name # NoName
          PROVE  /\ ToSet(frames'[k].alts) \subseteq ToSet(Candidates[frames'[k].name])
                 /\ frames'[k].mod # NoMod =>
                       file[frames'[k].mod] \in ToSet(Candidates[frames'[k].name])
      <3>1. /\ k + 1 \in DOMAIN frames /\ frames'[k].name = frames[k + 1].name
            /\ frames'[k].alts = frames[k + 1].alts
            /\ frames'[k].mod # NoMod => frames'[k].mod = frames[k + 1].mod
        BY <1>5, <1>6
      <3> QED
        BY <1>0, <2>1, <3>1 DEF Fitting
    <2> QED
      BY <1>1, <2>1 DEF Fitting
  <1>12. Sole'
    <2>1. ASSUME NEW k \in DOMAIN frames', NEW m \in Live', frames'[k].name # NoName,
                 asked[m] = frames'[k].name, NameOf(m) = frames'[k].name
          PROVE  frames'[k].mod = m
      <3>1. /\ k \in 1 .. n - 1 /\ k + 1 \in DOMAIN frames /\ n > 1
            /\ frames'[k].name = frames[k + 1].name /\ m \in Live /\ m # m2
        BY <1>2, <1>5, <1>7
      <3>2. frames[k + 1].mod = m
        BY <1>0, <2>1, <3>1 DEF Sole
      <3>3. k # 1
        BY <3>1, <3>2 DEF m2
      <3> QED
        BY <1>5, <3>1, <3>2, <3>3
    <2>2. ASSUME NEW j \in DOMAIN frames', NEW k \in DOMAIN frames',
                 frames'[j].name # NoName, frames'[j].name = frames'[k].name
          PROVE  j = k
      <3>1. j + 1 = k + 1 /\ j \in Nat /\ k \in Nat
        BY <1>0, <1>5, <2>2 DEF Sole
      <3> QED
        BY <3>1
    <2> QED
      BY <1>1, <2>1, <2>2 DEF Sole, NameOf
  <1>13. Counted'
    <2>1. ASSUME NEW m \in Live'
          PROVE  /\ (\A k \in DOMAIN frames' : frames'[k].mod # m)
                       => Len(deps[m]) = Len(requests[file[m]])
                 /\ \A k \in DOMAIN frames' : frames'[k].mod = m =>
                       /\ Len(deps[m]) = frames'[k].at - 1
                       /\ frames'[k].at <= Len(requests[file[m]]) + 1
      <3>1. m \in Live /\ m # NoMod /\ (n = 1 \/ m # m2)
        BY <1>0, <1>7, <2>1, Types, Constants
      <3>2. ASSUME \A k \in DOMAIN frames' : frames'[k].mod # m, NEW k \in DOMAIN frames
            PROVE  frames[k].mod # m
        <4>1. CASE k = 1
          BY <1>1, <1>2, <3>1, <4>1
        <4>2. CASE k = 2
          <5>1. n > 1
            BY <1>2, <4>2 DEF n
          <5>2. m # m2
            BY <3>1, <5>1
          <5> QED
            BY <4>2, <5>2 DEF m2
        <4>3. CASE k # 1 /\ k # 2
          <5>1. k - 1 \in 2 .. n - 1 /\ (k - 1) + 1 = k /\ k - 1 \in DOMAIN frames'
            BY <1>2, <1>5, <4>3 DEF n
          <5> QED
            BY <1>5, <3>2, <5>1
        <4> QED
          BY <4>1, <4>2, <4>3
      <3>3. ASSUME NEW k \in DOMAIN frames', frames'[k].mod = m
            PROVE  k + 1 \in DOMAIN frames /\ frames'[k] = frames[k + 1]
        BY <1>6, <3>1, <3>3
      <3> QED
        BY <1>0, <3>1, <3>2, <3>3 DEF Counted
    <2> QED
      BY <1>1, <2>1 DEF Counted
  <1>14. LeadsDown'
    <2>1. ASSUME NEW j \in DOMAIN frames', NEW k \in DOMAIN frames', j < k,
                 frames'[j].mod # NoMod
          PROVE  file[frames'[j].mod] \in LeadsIn(requests, file[frames'[k].mod])
      <3>1. frames'[j] = frames[j + 1] /\ j + 1 \in DOMAIN frames /\ j \in 2 .. n - 1
        BY <1>6, <2>1
      <3>2. j + 1 < k + 1 /\ k + 1 \in DOMAIN frames /\ k \in 2 .. n - 1
        BY <1>2, <1>5, <2>1, <3>1 DEF n
      <3>3. frames'[k] = frames[k + 1]
        BY <1>5, <3>2
      <3> QED
        BY <1>0, <2>1, <3>1, <3>2, <3>3 DEF LeadsDown
    <2> QED
      BY <1>1, <2>1 DEF LeadsDown
  <1>15. Tied'
    <2>1. ASSUME NEW m \in Live, NEW d \in ToSet(deps[m]),
                 d \notin Live' \/ \E k \in DOMAIN frames' : frames'[k].mod = d
          PROVE  /\ file[m] \in LeadsIn(requests, file[d])
                 /\ file[d] \in LeadsIn(requests, file[m])
      <3>1. d # NoMod
        <4>1. m \in Mods /\ deps[m] \in Seq(Mods)
          BY <1>0, Types
        <4> QED
          BY <4>1, Constants, ListElements
      <3>2. d \notin Live \/ \E k \in DOMAIN frames : frames[k].mod = d
        <4>1. CASE \E k \in DOMAIN frames' : frames'[k].mod = d
          BY <1>6, <3>1, <4>1
        <4>2. CASE d \in Live /\ d \notin Live'
          <5>1. n > 1 /\ d = m2
            BY <1>5, <1>7, <4>2
          <5>2. 2 \in DOMAIN frames
            BY <1>2, <5>1 DEF n
          <5> QED
            BY <5>1, <5>2 DEF m2
        <4> QED
          BY <2>1, <4>1, <4>2
      <3> QED
        BY <1>0, <3>2 DEF Tied
    <2>2. Live' \subseteq Live
      BY <1>7
    <2> QED
      BY <1>1, <2>1, <2>2 DEF Tied
  <1>16. OneCopyByName'
    BY <1>0, <1>1, <1>7 DEF OneCopyByName, NameOf
  <1> QED
    BY <1>8, <1>9, <1>10, <1>11, <1>12, <1>13, <1>14, <1>15, <1>16 DEF IInv

(***************************************************************************)
(* The invariant, and what follows from it.                                *)
(***************************************************************************)
LEMMA InitIInv == Init => IInv
  <1> SUFFICES ASSUME Init PROVE IInv
    OBVIOUS
  <1>1. /\ requests \in Trees /\ loaded = <<>> /\ file = [m \in Mods |-> NoName]
        /\ deps = [m \in Mods |-> <<>>] /\ asked = [m \in Mods |-> NoName]
        /\ frames = <<>> /\ load_stack = <<>> /\ next_mod = 1 /\ calls = 0
    BY DEF Init
  <1>2. Live = {} /\ DOMAIN loaded = {} /\ DOMAIN frames = {} /\ IsInjective(loaded)
    BY <1>1 DEF Live, ToSet, IsInjective
  <1>3. TypeOK
    <2>1. requests \in [Files -> Seq(Names)] /\ calls \in 0 .. MaxRequests
      BY <1>1, LoaderAssumption
    <2>2. next_mod \in 1 .. MaxMods + 1
      BY <1>1, Constants
    <2> QED
      BY <1>1, <1>2, <2>1, <2>2 DEF TypeOK
  <1>4. LoadStackIsChain
    BY <1>1 DEF LoadStackIsChain, Loads
  <1>5. Old
    BY <1>1, <1>2 DEF Old, ToSet
  <1>6. Held /\ Fitting /\ Sole /\ Counted /\ LeadsDown /\ Tied /\ OneCopyByName
    BY <1>2 DEF Held, Fitting, Sole, Counted, LeadsDown, Tied, OneCopyByName
  <1> QED
    BY <1>3, <1>4, <1>5, <1>6 DEF IInv

LEMMA UnchangedKeeps == IInv /\ UNCHANGED vars => IInv'
  <1> SUFFICES ASSUME IInv, UNCHANGED vars PROVE IInv'
    OBVIOUS
  <1>1. UNCHANGED <<requests, loaded, file, deps, asked, frames, load_stack, next_mod, calls>>
    BY DEF vars
  <1>2. UNCHANGED <<Live, Loads>>
    BY <1>1 DEF Live, Loads
  <1>3. TypeOK'
    BY <1>1, <1>2 DEF IInv, TypeOK
  <1>4. LoadStackIsChain'
    BY <1>1, <1>2 DEF IInv, LoadStackIsChain
  <1>5. Old'
    BY <1>1, <1>2 DEF IInv, Old
  <1>6. Held'
    BY <1>1, <1>2 DEF IInv, Held
  <1>7. Fitting'
    BY <1>1, <1>2 DEF IInv, Fitting
  <1>8. Sole'
    BY <1>1, <1>2 DEF IInv, Sole, NameOf
  <1>9. Counted'
    BY <1>1, <1>2 DEF IInv, Counted
  <1>10. LeadsDown'
    BY <1>1, <1>2 DEF IInv, LeadsDown
  <1>11. Tied'
    BY <1>1, <1>2 DEF IInv, Tied
  <1>12. OneCopyByName'
    BY <1>1, <1>2 DEF IInv, OneCopyByName, NameOf
  <1> QED
    BY <1>3, <1>4, <1>5, <1>6, <1>7, <1>8, <1>9, <1>10, <1>11, <1>12 DEF IInv

LEMMA StepIInv == IInv /\ [Next]_vars => IInv'
  <1> SUFFICES ASSUME IInv, [Next]_vars PROVE IInv'
    OBVIOUS
  <1>0. TypeOK
    BY DEF IInv
  <1>1. ASSUME NEW f \in Scripts, EvalFile(f) PROVE IInv'
    <2>1. /\ frames = <<>> /\ calls < MaxRequests /\ calls' = calls + 1
          /\ frames' = <<Frame(NoName, <<f>>)>> /\ load_stack' = load_stack /\ f \in Present
          /\ UNCHANGED <<requests, loaded, file, deps, asked, next_mod>>
      BY <1>1 DEF EvalFile
    <2>2. calls' \in 0 .. MaxRequests
      BY <1>0, <2>1, Types, LoaderAssumption
    <2>3. <<f>> \in Seq(Files) /\ NoName \in Names \union {NoName}
      BY <2>1, Constants
    <2> QED
      BY <2>1, <2>2, <2>3, OutermostKeeps
  <1>2. ASSUME NEW n \in Names, Import(n) PROVE IInv'
    <2>1. /\ frames = <<>> /\ calls < MaxRequests /\ calls' = calls + 1 /\ Find(n) = NoMod
          /\ frames' = <<Frame(n, Candidates[n])>> /\ load_stack' = Append(load_stack, n)
          /\ UNCHANGED <<requests, loaded, file, deps, asked, next_mod>>
      BY <1>2 DEF Import
    <2>2. calls' \in 0 .. MaxRequests
      BY <1>0, <2>1, Types, LoaderAssumption
    <2>3. \A m \in Live : NameOf(m) # n
      BY <1>0, <2>1, FindFacts
    <2>4. Candidates[n] \in Seq(Files) /\ n # NoName
      BY Constants
    <2> QED
      BY <2>1, <2>2, <2>3, <2>4, OutermostKeeps
  <1>3. ASSUME Load PROVE IInv'
    BY <1>3, CompileKeeps, SkipFileKeeps, RequireLoadedKeeps, RequireNewKeeps, RefuseKeeps,
       FinishKeeps, GiveUpKeeps DEF Load
  <1>4. CASE UNCHANGED vars
    BY <1>4, UnchangedKeeps
  <1> QED
    BY <1>1, <1>2, <1>3, <1>4, RestartKeeps DEF Next, Rest

\* Types, a load stack that is the chain of loads in progress, modules that belong to
\* one compilation each, and what they refer to: all of it in every reachable state.
THEOREM Invariant == Spec => []IInv
  BY InitIInv, StepIInv, PTL DEF Spec

\* The types, and a load stack that names exactly the loads in progress
\* (qjsp_module_loader): no failure leaves a name behind.
THEOREM LoadsWellFormed == Spec => []WellFormed
  <1>1. IInv => WellFormed
    BY DEF IInv, WellFormed
  <1> QED
    BY <1>1, Invariant, PTL

\* A request is called circular only if its name is being loaded in another case or from
\* a file of another name, and of the copies of a module one at most was loaded by its own
\* name (qjsp_module_loader, js_find_loaded_module): whatever the candidates are.
THEOREM OnlyAliasesRepeat == Spec => []AliasesOnly
  <1>1. ASSUME IInv PROVE CircularIsAliased
    <2> SUFFICES ASSUME frames # <<>>, Top.mod # NoMod, ~AtEnd, Find(Request) = NoMod,
                        InProgress(Request)
                 PROVE  \E k \in Loads : /\ Fold[frames[k].name] = Fold[Request]
                                         /\ \/ frames[k].name # Request
                                            \/ /\ frames[k].mod # NoMod
                                               /\ NameOf(frames[k].mod) # Request
      BY DEF CircularIsAliased
    <2>1. TypeOK /\ LoadStackIsChain /\ Old /\ Held
      BY <1>1 DEF IInv
    <2>2. Request \in Names /\ Top = frames[1] /\ DOMAIN frames = 1 .. Len(frames)
          /\ Len(frames) \in Nat
      BY <2>1, TextFacts, TopFacts
    <2>3. PICK i \in DOMAIN load_stack : Fold[load_stack[i]] = Fold[Request]
      BY DEF InProgress, ToSet
    <2>4. /\ load_stack \in Seq(Names) /\ DOMAIN load_stack = 1 .. Len(load_stack)
          /\ Len(load_stack) \in Nat
      BY <2>1, Types
    <2>5. PICK k : k = Len(load_stack) + 1 - i
      OBVIOUS
    <2>6. k \in DOMAIN load_stack /\ Len(load_stack) + 1 - k = i
      BY <2>4, <2>5
    <2>7. k \in Loads /\ k \in DOMAIN frames /\ Fold[frames[k].name] = Fold[Request]
      BY <2>1, <2>3, <2>6 DEF LoadStackIsChain, Loads
    <2>8. frames[k].mod # NoMod
      <3>1. CASE k = 1
        BY <2>2, <3>1
      <3>2. CASE k # 1
        <4>1. k \in 2 .. Len(frames)
          BY <2>2, <2>7, <3>2
        <4> QED
          BY <2>1, <4>1 DEF LoadStackIsChain
      <3> QED
        BY <3>1, <3>2
    <2>9. NameOf(frames[k].mod) # Request
      <3>1. frames[k].mod \in Live
        BY <2>1, <2>7, <2>8 DEF Held
      <3> QED
        BY <2>1, <2>2, <3>1, FindFacts
    <2> QED
      BY <2>7, <2>8, <2>9
  <1>2. IInv => AliasesOnly
    BY <1>1 DEF IInv, AliasesOnly
  <1> QED
    BY <1>2, Invariant, PTL

\* When nothing is being loaded, what is on the list is complete; and who refers to a
\* module that was freed is in a cycle with it (js_resolve_module, js_free_module_def).
THEOREM OnlyCyclesAreLeft == Spec => []ListIsComplete
  <1>1. ASSUME IInv PROVE CompleteWhenIdle
    BY <1>1 DEF IInv, Counted, CompleteWhenIdle
  <1>2. ASSUME IInv PROVE FreedOnlyInCycle
    <2>1. Tied
      BY <1>2 DEF IInv
    <2>2. \A f : Leads(f) = LeadsIn(requests, f)
      BY DEF Leads, LeadsIn, FilesOf, FilesIn
    <2> QED
      BY <2>1, <2>2 DEF Tied, FreedOnlyInCycle
  <1>3. IInv => ListIsComplete
    BY <1>1, <1>2 DEF ListIsComplete
  <1> QED
    BY <1>3, Invariant, PTL
=============================================================================
