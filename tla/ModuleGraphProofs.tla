------------------------- MODULE ModuleGraphProofs -------------------------
(***************************************************************************)
(* Theorems about ModuleGraph: the two searches keep their stack, every    *)
(* module runs once, and completed modules set others free in turn.        *)
(***************************************************************************)
EXTENDS ModuleGraph, DataLemmas, TLAPS

FrameSet == [m : Modules, i : Nat \ {0}]
OnStack  == ToSet(stack)
Framed   == {frames[k].m : k \in DOMAIN frames}

(***************************************************************************)
(* The invariant of the searches.                                          *)
(***************************************************************************)
\* The types, by the groups of variables.  That pending_async_dependencies never
\* falls below zero needs more than types; it is a part of Counted.
GraphTypes  == req \in [Modules -> Seq(Modules)] /\ req \in Graphs
               /\ has_tla \in Awaiting /\ broken \in Unresolvable
StatusTypes == status \in [Modules -> Statuses]
SearchTypes == /\ dfs_index \in [Modules -> Nat] /\ dfs_ancestor_index \in [Modules -> Nat]
               /\ frames \in Seq(FrameSet) /\ stack \in Seq(Modules) /\ index \in Nat
AsyncTypes  == /\ pending_async_dependencies \in [Modules -> Int]
               /\ async_evaluation \in [Modules -> BOOLEAN]
               /\ timestamp \in [Modules -> Nat] /\ next_timestamp \in Nat
               /\ async_parent_modules \in [Modules -> Seq(Modules)]
ResultTypes == /\ cycle_root \in [Modules -> Modules \union {NoModule}]
               /\ eval_has_exception \in [Modules -> BOOLEAN]
               /\ promise \in [Modules -> {"none", "pending", "fulfilled", "rejected"}]
PlaceTypes  == /\ phase \in {"idle", "link", "evaluate", "inner", "gather", "exec"}
               /\ entry \in Modules \union {NoModule} /\ imports \in 0 .. MaxImports
JobTypes    == /\ work \in Seq(Modules) /\ exec_list \in SUBSET Modules
               /\ jobs \in Seq([m : Modules, ok : BOOLEAN])
BodyTypes   == /\ body \in [Modules -> {"none", "awaiting", "returned", "threw"}]
               /\ started \in Seq(Modules) /\ late \in SUBSET Modules

Typed == /\ GraphTypes /\ StatusTypes /\ SearchTypes /\ AsyncTypes
         /\ ResultTypes /\ PlaceTypes /\ JobTypes /\ BodyTypes

\* A search has the module it was called for at the bottom of its recursion and of
\* its stack.
Rooted ==
    /\ frames = <<>> => stack = <<>> /\ index = 0
    /\ frames # <<>> => /\ stack # <<>> /\ entry \in Modules /\ dfs_index[entry] = 0
                        /\ frames[Len(frames)].m = entry /\ stack[Len(stack)] = entry

\* The stack is in the order in which the modules were entered, and so is the
\* recursion, which is on the stack.
Ordered ==
    /\ \A j, k \in DOMAIN stack : j < k => dfs_index[stack[k]] < dfs_index[stack[j]]
    /\ \A m \in OnStack : dfs_index[m] < index /\ dfs_ancestor_index[m] <= dfs_index[m]
    /\ \A k \in DOMAIN frames : frames[k].m \in OnStack
    /\ \A j, k \in DOMAIN frames :
          j < k => dfs_index[frames[k].m] < dfs_index[frames[j].m]

\* Whoever is in the recursion is at the request for the one it was entered for.
Nested ==
    \A k \in DOMAIN frames :
        /\ frames[k].i <= Len(req[frames[k].m]) + 1
        /\ k > 1 => /\ frames[k].i <= Len(req[frames[k].m])
                    /\ req[frames[k].m][frames[k].i] = frames[k - 1].m

Shape == Rooted /\ Ordered /\ Nested

\* What the engine is doing when.
Phases ==
    /\ frames # <<>> <=> phase \in {"link", "inner"}
    /\ phase \in {"link", "evaluate", "inner"} => entry \in Modules
    /\ phase \notin {"gather", "exec"} => work = <<>> /\ exec_list = {}

\* The status of what is on the stack says which search it is.
Kinds ==
    \A m \in Modules :
        /\ status[m] \in {"linking", "evaluating"} => m \in OnStack
        /\ m \in OnStack => status[m] = IF phase = "link" THEN "linking" ELSE "evaluating"

SearchInv == Typed /\ Shape /\ Phases /\ Kinds

(***************************************************************************)
(* The operators of the searches.                                          *)
(***************************************************************************)
LEMMA Constants ==
    /\ NoModule \notin Modules /\ Graphs \subseteq [Modules -> Seq(Modules)]
    /\ \A A \in Awaiting : A \subseteq Modules
    /\ MaxImports \in Nat
  BY GraphAssumption

\* The innermost frame and what becomes of it.
LEMMA TopFacts ==
    ASSUME GraphTypes, SearchTypes, frames # <<>>
    PROVE  /\ Top \in FrameSet /\ Top = frames[1] /\ Top.m \in Modules /\ Top.i \in Nat \ {0}
           /\ Len(frames) \in Nat \ {0} /\ DOMAIN frames = 1 .. Len(frames)
           /\ Len(req[Top.m]) \in Nat
           /\ AtEnd <=> Top.i > Len(req[Top.m])
           /\ ~AtEnd => Top.i \in 1 .. Len(req[Top.m]) /\ Request \in Modules
                        /\ Request = req[Top.m][Top.i] /\ Request \in ToSet(req[Top.m])
  <1>1. /\ Top = frames[1] /\ Len(frames) \in Nat \ {0} /\ DOMAIN frames = 1 .. Len(frames)
        /\ frames \in Seq(FrameSet) /\ frames[1] \in FrameSet
    BY DEF Top, SearchTypes
  <1>2. Top \in FrameSet /\ Top.m \in Modules /\ Top.i \in Nat \ {0}
    BY <1>1 DEF FrameSet
  <1>3. req[Top.m] \in Seq(Modules)
    BY <1>2 DEF GraphTypes
  <1>4. Len(req[Top.m]) \in Nat /\ DOMAIN req[Top.m] = 1 .. Len(req[Top.m])
    BY <1>3
  <1>5. AtEnd <=> Top.i > Len(req[Top.m])
    BY DEF AtEnd
  <1>6. ASSUME ~AtEnd
        PROVE  Top.i \in 1 .. Len(req[Top.m]) /\ Request \in Modules
               /\ Request = req[Top.m][Top.i] /\ Request \in ToSet(req[Top.m])
    <2>1. Top.i \in 1 .. Len(req[Top.m])
      BY <1>2, <1>4, <1>5, <1>6
    <2>2. Request = req[Top.m][Top.i]
      BY DEF Request
    <2> QED
      BY <1>3, <1>4, <2>1, <2>2 DEF ToSet
  <1> QED
    BY <1>1, <1>2, <1>4, <1>5, <1>6

LEMMA AdvanceFacts ==
    ASSUME GraphTypes, SearchTypes, frames # <<>>
    PROVE  /\ Advance \in Seq(FrameSet) /\ Advance # <<>> /\ DOMAIN Advance = DOMAIN frames
           /\ Len(Advance) = Len(frames)
           /\ Advance[1] = [m |-> Top.m, i |-> Top.i + 1]
           /\ \A k \in 2 .. Len(frames) : Advance[k] = frames[k]
           /\ \A k \in DOMAIN frames : Advance[k].m = frames[k].m
  <1> DEFINE e == [Top EXCEPT !.i = @ + 1]
  <1>1. /\ Top \in FrameSet /\ Top = frames[1] /\ Top.m \in Modules /\ Top.i \in Nat \ {0}
        /\ Len(frames) \in Nat \ {0} /\ DOMAIN frames = 1 .. Len(frames)
    BY TopFacts
  <1>2. e = [m |-> Top.m, i |-> Top.i + 1] /\ e \in FrameSet /\ e.m = Top.m
    BY <1>1 DEF FrameSet
  <1> HIDE DEF e
  <1>3. Advance = <<e>> \o Tail(frames)
    BY DEF Advance, e
  <1>4. /\ Advance \in Seq(FrameSet) /\ Advance # <<>> /\ DOMAIN Advance = DOMAIN frames
        /\ Advance[1] = e
        /\ \A k \in 2 .. Len(frames) : Advance[k] = frames[k]
    BY <1>2, <1>3, HeadReplaced DEF SearchTypes
  <1>5. Len(Advance) = Len(frames)
    BY <1>1, <1>4
  <1>6. ASSUME NEW k \in DOMAIN frames PROVE Advance[k].m = frames[k].m
    <2>1. CASE k = 1
      BY <1>1, <1>2, <1>4, <2>1
    <2>2. CASE k # 1
      BY <1>1, <1>4, <2>2
    <2> QED
      BY <2>1, <2>2
  <1> QED
    BY <1>2, <1>4, <1>5, <1>6

\* What the root of a component takes off the stack: what was entered since.
LEMMA ComponentFacts ==
    ASSUME SearchTypes, Ordered, NEW t \in OnStack
    PROVE  /\ Component(t) = {x \in OnStack : dfs_index[t] <= dfs_index[x]}
           /\ StackBelow(t) \in Seq(Modules)
           /\ \E n \in 1 .. Len(stack) :
                 /\ stack[n] = t
                 /\ Len(StackBelow(t)) = Len(stack) - n
                 /\ DOMAIN StackBelow(t) = 1 .. Len(stack) - n
                 /\ \A k \in 1 .. Len(stack) - n : StackBelow(t)[k] = stack[n + k]
           /\ ToSet(StackBelow(t)) = {x \in OnStack : dfs_index[x] < dfs_index[t]}
  <1>0. PICK n : n = Place(stack, t)
    OBVIOUS
  <1>1. stack \in Seq(Modules) /\ Len(stack) \in Nat /\ DOMAIN stack = 1 .. Len(stack)
    BY DEF SearchTypes
  <1>2. n \in 1 .. Len(stack) /\ stack[n] = t
    BY <1>0, <1>1, PlaceFacts DEF OnStack
  <1>3. \A k \in 1 .. Len(stack) : stack[k] \in Modules /\ stack[k] \in OnStack
    BY <1>1 DEF OnStack, ToSet
  <1>4. \A k \in 1 .. Len(stack) : dfs_index[stack[k]] \in Nat
    BY <1>3 DEF SearchTypes
  <1>5. \A j, k \in 1 .. Len(stack) : j < k => dfs_index[stack[k]] < dfs_index[stack[j]]
    BY <1>1 DEF Ordered
  <1>6. \A k \in 1 .. Len(stack) : k <= n <=> dfs_index[t] <= dfs_index[stack[k]]
    <2> SUFFICES ASSUME NEW k \in 1 .. Len(stack)
                 PROVE  k <= n <=> dfs_index[t] <= dfs_index[stack[k]]
      OBVIOUS
    <2>1. k < n => dfs_index[t] < dfs_index[stack[k]]
      BY <1>2, <1>5
    <2>2. n < k => dfs_index[stack[k]] < dfs_index[t]
      BY <1>2, <1>5
    <2>3. dfs_index[t] \in Nat /\ dfs_index[stack[k]] \in Nat /\ k \in Nat /\ n \in Nat
      BY <1>1, <1>2, <1>4
    <2>4. k = n => stack[k] = t
      BY <1>2
    <2> QED
      BY <2>1, <2>2, <2>3, <2>4
  <1>7. Component(t) = {stack[k] : k \in 1 .. n}
    BY <1>0 DEF Component, Place
  <1>8. Component(t) = {x \in OnStack : dfs_index[t] <= dfs_index[x]}
    <2>1. ASSUME NEW x \in Component(t) PROVE x \in OnStack /\ dfs_index[t] <= dfs_index[x]
      <3>1. PICK k \in 1 .. n : x = stack[k]
        BY <1>7
      <3>2. k \in 1 .. Len(stack) /\ k <= n
        BY <1>1, <1>2
      <3> QED
        BY <1>3, <1>6, <3>1, <3>2
    <2>2. ASSUME NEW x \in OnStack, dfs_index[t] <= dfs_index[x] PROVE x \in Component(t)
      <3>1. PICK k \in 1 .. Len(stack) : x = stack[k]
        BY <1>1 DEF OnStack, ToSet
      <3>2. k \in 1 .. n
        BY <1>1, <1>2, <1>6, <2>2, <3>1
      <3> QED
        BY <1>7, <3>1, <3>2
    <2> QED
      BY <2>1, <2>2
  <1>9. StackBelow(t) = SubSeq(stack, n + 1, Len(stack))
    BY <1>0 DEF StackBelow, Place
  <1>10. n \in 0 .. Len(stack)
    BY <1>1, <1>2
  <1>11. /\ StackBelow(t) \in Seq(Modules)
         /\ Len(StackBelow(t)) = Len(stack) - n /\ DOMAIN StackBelow(t) = 1 .. Len(stack) - n
         /\ \A k \in 1 .. Len(stack) - n : StackBelow(t)[k] = stack[n + k]
    <2>1. /\ SubSeq(stack, n + 1, Len(stack)) \in Seq(Modules)
          /\ Len(SubSeq(stack, n + 1, Len(stack))) = Len(stack) - n
          /\ DOMAIN SubSeq(stack, n + 1, Len(stack)) = 1 .. Len(stack) - n
          /\ \A k \in 1 .. Len(stack) - n : SubSeq(stack, n + 1, Len(stack))[k] = stack[n + k]
      BY <1>1, <1>10, FrontDropped
    <2> QED
      BY <1>9, <2>1
  <1>12. ToSet(StackBelow(t)) = {x \in OnStack : dfs_index[x] < dfs_index[t]}
    <2>1. ASSUME NEW x \in ToSet(StackBelow(t)) PROVE x \in OnStack /\ dfs_index[x] < dfs_index[t]
      <3>1. PICK k \in 1 .. Len(stack) - n : x = StackBelow(t)[k]
        BY <1>11 DEF ToSet
      <3>2. x = stack[n + k] /\ n + k \in 1 .. Len(stack) /\ n < n + k
        BY <1>1, <1>2, <1>11, <3>1
      <3>3. dfs_index[stack[n + k]] < dfs_index[stack[n]]
        BY <1>2, <1>5, <3>2
      <3> QED
        BY <1>2, <1>3, <3>2, <3>3
    <2>2. ASSUME NEW x \in OnStack, dfs_index[x] < dfs_index[t] PROVE x \in ToSet(StackBelow(t))
      <3>1. PICK j \in 1 .. Len(stack) : x = stack[j]
        BY <1>1 DEF OnStack, ToSet
      <3>2. ~(dfs_index[t] <= dfs_index[stack[j]])
        <4>1. dfs_index[t] \in Nat /\ dfs_index[stack[j]] \in Nat
          BY <1>2, <1>4
        <4> QED
          BY <2>2, <3>1, <4>1
      <3>3. ~(j <= n)
        BY <1>6, <3>2
      <3>4. j - n \in 1 .. Len(stack) - n /\ n + (j - n) = j
        BY <1>1, <1>2, <3>3
      <3>5. StackBelow(t)[j - n] = x
        BY <1>11, <3>1, <3>4
      <3> QED
        BY <1>11, <3>4, <3>5 DEF ToSet
    <2> QED
      BY <2>1, <2>2
  <1> QED
    BY <1>2, <1>8, <1>11, <1>12

(***************************************************************************)
(* The steps of the searches keep their shape.                             *)
(***************************************************************************)
\* A module is entered: for import() or for the request that the module on top is at.
LEMMA EnterShape ==
    ASSUME GraphTypes, SearchTypes, Shape, NEW m \in Modules, m \notin OnStack,
           NEW s, Enter(m, s), req' = req,
           \/ frames = <<>> /\ entry' = m
           \/ frames # <<>> /\ ~AtEnd /\ Request = m /\ entry' = entry
    PROVE  SearchTypes' /\ Shape' /\ OnStack' = OnStack \union {m}
           /\ Framed' = Framed \union {m} /\ frames' # <<>>
  <1> DEFINE f == [m |-> m, i |-> 1]
  <1>1. /\ stack' = <<m>> \o stack /\ frames' = <<f>> \o frames /\ index' = index + 1
        /\ dfs_index' = [dfs_index EXCEPT ![m] = index]
        /\ dfs_ancestor_index' = [dfs_ancestor_index EXCEPT ![m] = index]
    BY DEF Enter
  <1>2. f \in FrameSet /\ f.m = m /\ f.i = 1
    BY DEF FrameSet
  <1>3. /\ stack \in Seq(Modules) /\ frames \in Seq(FrameSet) /\ index \in Nat
        /\ dfs_index \in [Modules -> Nat] /\ dfs_ancestor_index \in [Modules -> Nat]
    BY DEF SearchTypes
  <1> HIDE DEF f
  <1>4. /\ stack' \in Seq(Modules) /\ stack' # <<>> /\ Len(stack) \in Nat
        /\ DOMAIN stack' = 1 .. Len(stack) + 1 /\ Len(stack') = Len(stack) + 1
        /\ DOMAIN stack = 1 .. Len(stack) /\ stack'[1] = m
        /\ \A k \in 2 .. Len(stack) + 1 : stack'[k] = stack[k - 1]
    BY <1>1, <1>3, HeadAdded
  <1>5. /\ frames' \in Seq(FrameSet) /\ frames' # <<>> /\ Len(frames) \in Nat
        /\ DOMAIN frames' = 1 .. Len(frames) + 1 /\ Len(frames') = Len(frames) + 1
        /\ DOMAIN frames = 1 .. Len(frames) /\ frames'[1] = f
        /\ \A k \in 2 .. Len(frames) + 1 : frames'[k] = frames[k - 1]
    BY <1>1, <1>2, <1>3, HeadAdded
  <1>6. /\ \A k \in 1 .. Len(stack) : stack[k] \in OnStack /\ stack[k] \in Modules /\ stack[k] # m
        /\ OnStack \subseteq Modules
        /\ \A x \in OnStack : \E k \in 1 .. Len(stack) : x = stack[k]
    <2>1. \A k \in 1 .. Len(stack) : stack[k] \in OnStack
      BY <1>4 DEF OnStack, ToSet
    <2>2. \A x \in OnStack : \E k \in 1 .. Len(stack) : x = stack[k]
      BY <1>4 DEF OnStack, ToSet
    <2>3. \A k \in 1 .. Len(stack) : stack[k] \in Modules
      BY <1>3
    <2> QED
      BY <2>1, <2>2, <2>3
  <1>7. /\ dfs_index' \in [Modules -> Nat] /\ dfs_ancestor_index' \in [Modules -> Nat]
        /\ index' \in Nat
        /\ dfs_index'[m] = index /\ dfs_ancestor_index'[m] = index
        /\ \A x \in Modules \ {m} : dfs_index'[x] = dfs_index[x]
                                    /\ dfs_ancestor_index'[x] = dfs_ancestor_index[x]
    BY <1>1, <1>3
  <1>8. SearchTypes'
    BY <1>4, <1>5, <1>7 DEF SearchTypes
  <1>9. OnStack' = OnStack \union {m}
    <2>1. ASSUME NEW x \in OnStack' PROVE x \in OnStack \union {m}
      <3>1. PICK k \in 1 .. Len(stack) + 1 : x = stack'[k]
        BY <1>4 DEF OnStack, ToSet
      <3>2. CASE k = 1
        BY <1>4, <3>1, <3>2
      <3>3. CASE k # 1
        <4>1. x = stack[k - 1] /\ k - 1 \in 1 .. Len(stack)
          BY <1>4, <3>1, <3>3
        <4> QED
          BY <1>6, <4>1
      <3> QED
        BY <3>2, <3>3
    <2>2. ASSUME NEW x \in OnStack PROVE x \in OnStack'
      <3>1. PICK k \in 1 .. Len(stack) : x = stack[k]
        BY <1>6
      <3>2. k + 1 \in 2 .. Len(stack) + 1 /\ k + 1 \in DOMAIN stack' /\ (k + 1) - 1 = k
        BY <1>4
      <3>3. stack'[k + 1] = x
        BY <1>4, <3>1, <3>2
      <3> QED
        BY <3>2, <3>3 DEF OnStack, ToSet
    <2>3. m \in OnStack'
      <3>1. 1 \in DOMAIN stack'
        BY <1>4
      <3> QED
        BY <1>4, <3>1 DEF OnStack, ToSet
    <2> QED
      BY <2>1, <2>2, <2>3
  <1>10. /\ \A k \in 1 .. Len(frames) : frames[k].m \in OnStack /\ frames[k].m # m
         /\ frames'[1].m = m /\ frames'[1].i = 1
    BY <1>2, <1>5 DEF Shape, Ordered
  <1>11. \A x \in OnStack : dfs_index'[x] = dfs_index[x] /\ dfs_index[x] < index
              /\ dfs_ancestor_index'[x] = dfs_ancestor_index[x] /\ dfs_index[x] \in Nat
              /\ dfs_ancestor_index[x] <= dfs_index[x] /\ dfs_ancestor_index[x] \in Nat
    BY <1>3, <1>6, <1>7 DEF Shape, Ordered
  <1>12. Rooted'
    <2>1. CASE frames = <<>>
      <3>1. stack = <<>> /\ index = 0 /\ entry' = m
        BY <2>1 DEF Shape, Rooted
      <3>2. Len(frames) = 0 /\ Len(stack) = 0
        BY <2>1, <3>1
      <3>3. Len(frames') = 1 /\ Len(stack') = 1
        BY <1>4, <1>5, <3>2
      <3> QED
        BY <1>4, <1>5, <1>7, <1>10, <3>1, <3>3 DEF Rooted
    <2>2. CASE frames # <<>>
      <3>1. /\ stack # <<>> /\ entry \in Modules /\ dfs_index[entry] = 0
            /\ frames[Len(frames)].m = entry /\ stack[Len(stack)] = entry /\ entry' = entry
        BY <2>2 DEF Shape, Rooted
      <3>2. Len(frames) # 0 /\ Len(stack) # 0
        BY <1>3, <2>2, <3>1
      <3>3. /\ Len(frames) + 1 \in 2 .. Len(frames) + 1 /\ (Len(frames) + 1) - 1 = Len(frames)
            /\ Len(stack) + 1 \in 2 .. Len(stack) + 1 /\ (Len(stack) + 1) - 1 = Len(stack)
            /\ Len(stack) \in 1 .. Len(stack)
        BY <1>4, <1>5, <3>2
      <3>4. frames'[Len(frames')].m = entry /\ stack'[Len(stack')] = entry
        BY <1>4, <1>5, <3>1, <3>3
      <3>5. entry \in OnStack /\ dfs_index'[entry] = 0
        BY <1>6, <1>11, <3>1, <3>3
      <3> QED
        BY <1>4, <1>5, <3>1, <3>4, <3>5 DEF Rooted
    <2> QED
      BY <2>1, <2>2
  <1>13. Ordered'
    <2>1. ASSUME NEW j \in DOMAIN stack', NEW k \in DOMAIN stack', j < k
          PROVE  dfs_index'[stack'[k]] < dfs_index'[stack'[j]]
      <3>1. k \in 2 .. Len(stack) + 1 /\ k - 1 \in 1 .. Len(stack) /\ stack'[k] = stack[k - 1]
        BY <1>4, <2>1
      <3>2. stack[k - 1] \in OnStack /\ dfs_index'[stack'[k]] = dfs_index[stack[k - 1]]
        BY <1>6, <1>11, <3>1
      <3>3. CASE j = 1
        BY <1>4, <1>7, <1>11, <3>2, <3>3
      <3>4. CASE j # 1
        <4>1. j \in 2 .. Len(stack) + 1 /\ j - 1 \in 1 .. Len(stack) /\ stack'[j] = stack[j - 1]
              /\ j - 1 < k - 1
          BY <1>4, <2>1, <3>4
        <4>2. stack[j - 1] \in OnStack /\ dfs_index'[stack'[j]] = dfs_index[stack[j - 1]]
          BY <1>6, <1>11, <4>1
        <4>3. dfs_index[stack[k - 1]] < dfs_index[stack[j - 1]]
          BY <1>4, <3>1, <4>1 DEF Shape, Ordered
        <4> QED
          BY <3>2, <4>2, <4>3
      <3> QED
        BY <3>3, <3>4
    <2>2. ASSUME NEW x \in OnStack'
          PROVE  dfs_index'[x] < index' /\ dfs_ancestor_index'[x] <= dfs_index'[x]
      <3>1. CASE x = m
        BY <1>1, <1>3, <1>7, <3>1
      <3>2. CASE x # m
        BY <1>1, <1>3, <1>9, <1>11, <3>2
      <3> QED
        BY <3>1, <3>2
    <2>3. ASSUME NEW k \in DOMAIN frames' PROVE frames'[k].m \in OnStack'
      <3>1. CASE k = 1
        BY <1>9, <1>10, <3>1
      <3>2. CASE k # 1
        <4>1. k \in 2 .. Len(frames) + 1 /\ k - 1 \in 1 .. Len(frames)
          BY <1>5, <3>2
        <4> QED
          BY <1>5, <1>9, <1>10, <4>1
      <3> QED
        BY <3>1, <3>2
    <2>4. ASSUME NEW j \in DOMAIN frames', NEW k \in DOMAIN frames', j < k
          PROVE  dfs_index'[frames'[k].m] < dfs_index'[frames'[j].m]
      <3>1. k \in 2 .. Len(frames) + 1 /\ k - 1 \in 1 .. Len(frames) /\ frames'[k] = frames[k - 1]
        BY <1>5, <2>4
      <3>2. frames[k - 1].m \in OnStack
            /\ dfs_index'[frames'[k].m] = dfs_index[frames[k - 1].m]
        BY <1>10, <1>11, <3>1
      <3>3. CASE j = 1
        BY <1>7, <1>10, <1>11, <3>2, <3>3
      <3>4. CASE j # 1
        <4>1. /\ j \in 2 .. Len(frames) + 1 /\ j - 1 \in 1 .. Len(frames)
              /\ frames'[j] = frames[j - 1] /\ j - 1 < k - 1
          BY <1>5, <2>4, <3>4
        <4>2. frames[j - 1].m \in OnStack
              /\ dfs_index'[frames'[j].m] = dfs_index[frames[j - 1].m]
          BY <1>10, <1>11, <4>1
        <4>3. dfs_index[frames[k - 1].m] < dfs_index[frames[j - 1].m]
          BY <1>5, <3>1, <4>1 DEF Shape, Ordered
        <4> QED
          BY <3>2, <4>2, <4>3
      <3> QED
        BY <3>3, <3>4
    <2> QED
      BY <2>1, <2>2, <2>3, <2>4 DEF Ordered
  <1>14. Nested'
    <2> SUFFICES ASSUME NEW k \in DOMAIN frames'
                 PROVE  /\ frames'[k].i <= Len(req[frames'[k].m]) + 1
                        /\ k > 1 => /\ frames'[k].i <= Len(req[frames'[k].m])
                                    /\ req[frames'[k].m][frames'[k].i] = frames'[k - 1].m
      BY DEF Nested
    <2>1. CASE k = 1
      <3>1. Len(req[m]) \in Nat
        BY DEF GraphTypes
      <3> QED
        BY <1>10, <2>1, <3>1
    <2>2. CASE k = 2
      <3>1. 2 \in 2 .. Len(frames) + 1 /\ Len(frames) >= 1
        BY <1>5, <2>2
      <3>2. frames # <<>> /\ ~AtEnd /\ Request = m
        BY <1>3, <3>1
      <3>3. Top = frames[1] /\ Top.i \in 1 .. Len(req[Top.m]) /\ Request = req[Top.m][Top.i]
            /\ Len(req[Top.m]) \in Nat
        BY <3>2, TopFacts
      <3>4. frames'[2] = frames[1]
        BY <1>5, <3>1
      <3> QED
        BY <1>10, <2>2, <3>2, <3>3, <3>4
    <2>3. CASE k > 2
      <3>1. /\ k \in 2 .. Len(frames) + 1 /\ k - 1 \in 2 .. Len(frames) + 1 /\ k - 1 > 1
            /\ k - 1 \in DOMAIN frames /\ k > 1
        BY <1>5, <2>3
      <3>2. frames'[k] = frames[k - 1] /\ frames'[k - 1] = frames[(k - 1) - 1]
        BY <1>5, <3>1
      <3>3. /\ frames[k - 1].i <= Len(req[frames[k - 1].m]) + 1
            /\ frames[k - 1].i <= Len(req[frames[k - 1].m])
            /\ req[frames[k - 1].m][frames[k - 1].i] = frames[(k - 1) - 1].m
        BY <3>1 DEF Shape, Nested
      <3> QED
        BY <3>2, <3>3
    <2>4. k = 1 \/ k = 2 \/ k > 2
      BY <1>5
    <2> QED
      BY <2>1, <2>2, <2>3, <2>4
  <1>15. Framed' = Framed \union {m}
    <2>1. ASSUME NEW x \in Framed' PROVE x \in Framed \union {m}
      <3>1. PICK k \in 1 .. Len(frames) + 1 : x = frames'[k].m
        BY <1>5 DEF Framed
      <3>2. CASE k = 1
        BY <1>10, <3>1, <3>2
      <3>3. CASE k # 1
        <4>1. k \in 2 .. Len(frames) + 1 /\ k - 1 \in DOMAIN frames
          BY <1>5, <3>3
        <4>2. x = frames[k - 1].m
          BY <1>5, <3>1, <4>1
        <4> QED
          BY <4>1, <4>2 DEF Framed
      <3> QED
        BY <3>2, <3>3
    <2>2. ASSUME NEW x \in Framed PROVE x \in Framed'
      <3>1. PICK k \in 1 .. Len(frames) : x = frames[k].m
        BY <1>5 DEF Framed
      <3>2. k + 1 \in 2 .. Len(frames) + 1 /\ (k + 1) - 1 = k /\ k + 1 \in DOMAIN frames'
        BY <1>5
      <3>3. frames'[k + 1].m = x
        BY <1>5, <3>1, <3>2
      <3> QED
        BY <3>2, <3>3 DEF Framed
    <2>3. m \in Framed'
      <3>1. 1 \in DOMAIN frames'
        BY <1>5
      <3> QED
        BY <1>10, <3>1 DEF Framed
    <2> QED
      BY <2>1, <2>2, <2>3
  <1> QED
    BY <1>5, <1>8, <1>9, <1>12, <1>13, <1>14, <1>15 DEF Shape

\* A request of the module on top has been visited.
LEMMA VisitShape ==
    ASSUME GraphTypes, SearchTypes, Shape, frames # <<>>, ~AtEnd,
           frames' = Advance, UNCHANGED <<req, entry, stack, dfs_index, index>>,
           dfs_ancestor_index' \in [Modules -> Nat],
           \A x \in Modules : dfs_ancestor_index'[x] <= dfs_ancestor_index[x]
    PROVE  SearchTypes' /\ Shape' /\ OnStack' = OnStack /\ Framed' = Framed /\ frames' # <<>>
  <1>1. /\ frames' \in Seq(FrameSet) /\ frames' # <<>> /\ DOMAIN frames' = DOMAIN frames
        /\ Len(frames') = Len(frames)
        /\ frames'[1] = [m |-> Top.m, i |-> Top.i + 1]
        /\ \A k \in 2 .. Len(frames) : frames'[k] = frames[k]
        /\ \A k \in DOMAIN frames : frames'[k].m = frames[k].m
    BY AdvanceFacts
  <1>2. /\ Top = frames[1] /\ Top.i \in 1 .. Len(req[Top.m]) /\ Len(req[Top.m]) \in Nat
        /\ DOMAIN frames = 1 .. Len(frames) /\ Len(frames) \in Nat \ {0}
    BY TopFacts
  <1>3. SearchTypes'
    BY <1>1 DEF SearchTypes
  <1>4. OnStack' = OnStack
    BY DEF OnStack
  <1>5. Framed' = Framed
    BY <1>1 DEF Framed
  <1>6. Rooted'
    <2>1. Len(frames) \in DOMAIN frames
      BY <1>2
    <2>2. frames'[Len(frames')].m = frames[Len(frames)].m
      BY <1>1, <2>1
    <2> QED
      BY <1>1, <2>2 DEF Shape, Rooted
  <1>7. Ordered'
    <2>1. ASSUME NEW x \in OnStack' PROVE dfs_index'[x] < index' /\ dfs_ancestor_index'[x] <= dfs_index'[x]
      <3>1. x \in Modules /\ x \in OnStack
        BY <1>4 DEF OnStack, ToSet, SearchTypes
      <3>2. /\ dfs_ancestor_index'[x] \in Nat /\ dfs_ancestor_index[x] \in Nat
            /\ dfs_index[x] \in Nat /\ dfs_ancestor_index'[x] <= dfs_ancestor_index[x]
        BY <3>1 DEF SearchTypes
      <3>3. dfs_index[x] < index /\ dfs_ancestor_index[x] <= dfs_index[x]
        BY <3>1 DEF Shape, Ordered
      <3> QED
        BY <3>2, <3>3
    <2> QED
      BY <1>1, <1>4, <2>1 DEF Shape, Ordered
  <1>8. Nested'
    <2> SUFFICES ASSUME NEW k \in DOMAIN frames
                 PROVE  /\ frames'[k].i <= Len(req[frames'[k].m]) + 1
                        /\ k > 1 => /\ frames'[k].i <= Len(req[frames'[k].m])
                                    /\ req[frames'[k].m][frames'[k].i] = frames'[k - 1].m
      BY <1>1 DEF Nested
    <2>1. CASE k = 1
      BY <1>1, <1>2, <2>1
    <2>2. CASE k # 1
      <3>1. k \in 2 .. Len(frames) /\ k - 1 \in DOMAIN frames /\ k > 1
        BY <1>2, <2>2
      <3>2. frames'[k] = frames[k] /\ frames'[k - 1].m = frames[k - 1].m
        BY <1>1, <3>1
      <3> QED
        BY <3>1, <3>2 DEF Shape, Nested
    <2> QED
      BY <2>1, <2>2
  <1> QED
    BY <1>1, <1>3, <1>4, <1>5, <1>6, <1>7, <1>8 DEF Shape

\* The module on top is left; the root of a component takes it off the stack.
LEMMA LeaveShape ==
    ASSUME GraphTypes, SearchTypes, Shape, frames # <<>>,
           frames' = Tail(frames), UNCHANGED <<req, dfs_index, dfs_ancestor_index>>,
           IsRoot(Top.m) => stack' = StackBelow(Top.m),
           ~IsRoot(Top.m) => stack' = stack,
           Tail(frames) # <<>> => index' = index /\ entry' = entry,
           Tail(frames) = <<>> => index' = 0
    PROVE  /\ SearchTypes' /\ Shape' /\ Top.m \in OnStack /\ Framed' = Framed \ {Top.m}
           /\ IsRoot(Top.m) => OnStack' = OnStack \ Component(Top.m)
           /\ ~IsRoot(Top.m) => OnStack' = OnStack
           /\ Tail(frames) = <<>> => /\ OnStack' = {} /\ IsRoot(Top.m) /\ Top.m = entry
                                     /\ Component(Top.m) = OnStack
           /\ \A f \in Framed : dfs_index[f] <= dfs_index[Top.m]
           /\ \A x \in Component(Top.m) : x \in OnStack /\ dfs_index[Top.m] <= dfs_index[x]
           /\ \A x \in OnStack \ Component(Top.m) : dfs_index[x] < dfs_index[Top.m]
  <1> DEFINE t == Top.m
  <1>1. /\ Top = frames[1] /\ t \in Modules
        /\ DOMAIN frames = 1 .. Len(frames) /\ Len(frames) \in Nat \ {0}
    BY TopFacts
  <1>2. /\ frames' \in Seq(FrameSet) /\ DOMAIN frames' = 1 .. Len(frames) - 1
        /\ Len(frames') = Len(frames) - 1
        /\ frames' = <<>> <=> Len(frames) = 1
        /\ \A k \in 1 .. Len(frames) - 1 : frames'[k] = frames[k + 1]
    BY HeadDropped DEF SearchTypes
  <1>3. /\ \A k \in DOMAIN frames : frames[k].m \in OnStack
        /\ \A j, k \in DOMAIN frames : j < k => dfs_index[frames[k].m] < dfs_index[frames[j].m]
        /\ \A m \in OnStack : dfs_index[m] < index /\ dfs_ancestor_index[m] <= dfs_index[m]
    BY DEF Shape, Ordered
  <1>4. t \in OnStack
    BY <1>1, <1>3
  <1> HIDE DEF t
  <1>5. /\ Component(t) = {x \in OnStack : dfs_index[t] <= dfs_index[x]}
        /\ StackBelow(t) \in Seq(Modules)
        /\ ToSet(StackBelow(t)) = {x \in OnStack : dfs_index[x] < dfs_index[t]}
    BY <1>4, ComponentFacts DEF Shape
  <1>6. PICK n \in 1 .. Len(stack) :
                 /\ stack[n] = t
                 /\ Len(StackBelow(t)) = Len(stack) - n
                 /\ DOMAIN StackBelow(t) = 1 .. Len(stack) - n
                 /\ \A k \in 1 .. Len(stack) - n : StackBelow(t)[k] = stack[n + k]
    BY <1>4, ComponentFacts DEF Shape
  <1>7. /\ stack \in Seq(Modules) /\ Len(stack) \in Nat /\ DOMAIN stack = 1 .. Len(stack)
        /\ index \in Nat
        /\ dfs_index \in [Modules -> Nat] /\ dfs_ancestor_index \in [Modules -> Nat]
    BY DEF SearchTypes
  <1>8. OnStack \subseteq Modules
    BY <1>7 DEF OnStack, ToSet
  <1>9. \A x \in OnStack : dfs_index[x] \in Nat /\ dfs_ancestor_index[x] \in Nat
    BY <1>7, <1>8
  <1>10. IsRoot(t) <=> dfs_index[t] = dfs_ancestor_index[t]
    BY DEF IsRoot
  <1>11. /\ stack # <<>> /\ entry \in Modules /\ dfs_index[entry] = 0
         /\ frames[Len(frames)].m = entry /\ stack[Len(stack)] = entry
    BY DEF Shape, Rooted
  <1>12. /\ \A f \in Framed : dfs_index[f] <= dfs_index[t] /\ (f # t => dfs_index[f] < dfs_index[t])
         /\ \A k \in 2 .. Len(frames) : frames[k].m # t /\ dfs_index[frames[k].m] < dfs_index[t]
    <2>1. ASSUME NEW k \in 2 .. Len(frames) PROVE dfs_index[frames[k].m] < dfs_index[t]
      <3>1. 1 \in DOMAIN frames /\ k \in DOMAIN frames /\ 1 < k
        BY <1>1, <2>1
      <3> QED
        BY <1>1, <1>3, <3>1 DEF t
    <2>2. ASSUME NEW k \in 2 .. Len(frames) PROVE frames[k].m # t
      BY <1>4, <1>9, <2>1
    <2>3. ASSUME NEW f \in Framed
          PROVE  dfs_index[f] <= dfs_index[t] /\ (f # t => dfs_index[f] < dfs_index[t])
      <3>1. PICK k \in 1 .. Len(frames) : f = frames[k].m
        BY <1>1 DEF Framed
      <3>2. CASE k = 1
        <4>1. f = t
          BY <1>1, <3>1, <3>2 DEF t
        <4> QED
          BY <1>4, <1>9, <4>1
      <3>3. CASE k # 1
        <4>1. k \in 2 .. Len(frames)
          BY <1>1, <3>3
        <4>2. dfs_index[f] < dfs_index[t] /\ f \in OnStack
          BY <1>1, <1>3, <2>1, <3>1, <4>1
        <4> QED
          BY <1>4, <1>9, <4>2
      <3> QED
        BY <3>2, <3>3
    <2> QED
      BY <2>1, <2>2, <2>3
  <1>13. Framed' = Framed \ {t}
    <2>1. ASSUME NEW x \in Framed' PROVE x \in Framed \ {t}
      <3>1. PICK k \in 1 .. Len(frames) - 1 : x = frames'[k].m
        BY <1>2 DEF Framed
      <3>2. x = frames[k + 1].m /\ k + 1 \in 2 .. Len(frames) /\ k + 1 \in DOMAIN frames
        BY <1>1, <1>2, <3>1
      <3> QED
        BY <1>12, <3>2 DEF Framed
    <2>2. ASSUME NEW x \in Framed, x # t PROVE x \in Framed'
      <3>1. PICK k \in 1 .. Len(frames) : x = frames[k].m
        BY <1>1 DEF Framed
      <3>2. k # 1
        BY <1>1, <2>2, <3>1 DEF t
      <3>3. k - 1 \in 1 .. Len(frames) - 1 /\ (k - 1) + 1 = k
        BY <1>1, <3>2
      <3>4. frames'[k - 1].m = x
        BY <1>2, <3>1, <3>3
      <3> QED
        BY <1>2, <3>3, <3>4 DEF Framed
    <2> QED
      BY <2>1, <2>2
  <1>14. ASSUME Tail(frames) = <<>>
         PROVE  t = entry /\ IsRoot(t) /\ Component(t) = OnStack /\ stack' = <<>> /\ OnStack' = {}
    <2>1. Len(frames) = 1
      BY <1>2, <1>14
    <2>2. t = entry
      BY <1>1, <1>11, <2>1 DEF t
    <2>3. dfs_index[t] = 0 /\ dfs_ancestor_index[t] <= 0 /\ dfs_ancestor_index[t] \in Nat
      BY <1>3, <1>4, <1>9, <1>11, <2>2
    <2>4. IsRoot(t)
      BY <1>10, <2>3
    <2>5. Component(t) = OnStack
      BY <1>5, <1>9, <2>3
    <2>6. ToSet(StackBelow(t)) = {}
      BY <1>5, <1>9, <2>3
    <2>7. StackBelow(t) = <<>>
      <3>1. ASSUME StackBelow(t) # <<>> PROVE FALSE
        <4>1. 1 \in DOMAIN StackBelow(t)
          BY <1>5, <3>1
        <4> QED
          BY <2>6, <4>1 DEF ToSet
      <3> QED
        BY <3>1
    <2>8. stack' = <<>>
      BY <2>4, <2>7 DEF t
    <2>9. OnStack' = {}
      BY <2>8 DEF OnStack, ToSet
    <2> QED
      BY <2>2, <2>4, <2>5, <2>8, <2>9
  <1>15. /\ stack' \in Seq(Modules)
         /\ IsRoot(t) => OnStack' = OnStack \ Component(t)
         /\ ~IsRoot(t) => OnStack' = OnStack
    <2>1. CASE IsRoot(t)
      <3>1. stack' = StackBelow(t)
        BY <2>1 DEF t
      <3>2. OnStack' = ToSet(StackBelow(t))
        BY <3>1 DEF OnStack
      <3>3. OnStack' = OnStack \ Component(t)
        BY <1>4, <1>5, <1>9, <3>2
      <3> QED
        BY <1>5, <2>1, <3>1, <3>3
    <2>2. CASE ~IsRoot(t)
      <3>1. stack' = stack
        BY <2>2 DEF t
      <3> QED
        BY <1>7, <2>2, <3>1 DEF OnStack
    <2> QED
      BY <2>1, <2>2
  <1>16. index' \in Nat
    BY <1>7
  <1>17. SearchTypes'
    BY <1>2, <1>7, <1>15, <1>16 DEF SearchTypes
  <1>18. OnStack' \subseteq OnStack
    BY <1>15
  <1>19. ASSUME NEW k \in 2 .. Len(frames) PROVE frames[k].m \in OnStack'
    <2>1. frames[k].m \in OnStack /\ dfs_index[frames[k].m] < dfs_index[t] /\ k \in DOMAIN frames
      BY <1>1, <1>3, <1>12
    <2>2. frames[k].m \notin Component(t)
      BY <1>4, <1>5, <1>9, <2>1
    <2> QED
      BY <1>15, <2>1, <2>2
  <1>20. Rooted'
    <2>1. CASE Tail(frames) = <<>>
      BY <1>14, <2>1 DEF Rooted
    <2>2. CASE Tail(frames) # <<>>
      <3>1. /\ frames' # <<>> /\ index' = index /\ entry' = entry /\ Len(frames) # 1
        BY <1>2, <2>2
      <3>2. /\ Len(frames) - 1 \in 1 .. Len(frames) - 1 /\ (Len(frames) - 1) + 1 = Len(frames)
            /\ Len(frames) \in 2 .. Len(frames)
        BY <1>1, <3>1
      <3>3. frames'[Len(frames')].m = entry /\ entry \in OnStack'
        BY <1>2, <1>11, <1>19, <3>2
      <3>4. stack' # <<>>
        BY <3>3 DEF OnStack, ToSet
      <3>5. stack'[Len(stack')] = entry
        <4>1. CASE ~IsRoot(t)
          BY <1>11, <4>1 DEF t
        <4>2. CASE IsRoot(t)
          <5>1. stack' = StackBelow(t)
            BY <4>2 DEF t
          <5>2. Len(stack') = Len(stack) - n /\ Len(stack') # 0
            BY <1>5, <1>6, <3>4, <5>1
          <5>3. Len(stack) - n \in 1 .. Len(stack) - n /\ n + (Len(stack) - n) = Len(stack)
            BY <1>6, <1>7, <5>2
          <5> QED
            BY <1>6, <1>11, <5>1, <5>2, <5>3
        <4> QED
          BY <4>1, <4>2
      <3> QED
        BY <1>11, <3>1, <3>3, <3>4, <3>5 DEF Rooted
    <2> QED
      BY <2>1, <2>2
  <1>21. Ordered'
    <2>1. \A j, k \in DOMAIN stack' : j < k => dfs_index'[stack'[k]] < dfs_index'[stack'[j]]
      <3>1. CASE ~IsRoot(t)
        BY <3>1 DEF t, Shape, Ordered
      <3>2. CASE IsRoot(t)
        <4> SUFFICES ASSUME NEW j \in DOMAIN stack', NEW k \in DOMAIN stack', j < k
                     PROVE  dfs_index[stack'[k]] < dfs_index[stack'[j]]
          OBVIOUS
        <4>1. stack' = StackBelow(t)
          BY <3>2 DEF t
        <4>2. /\ j \in 1 .. Len(stack) - n /\ k \in 1 .. Len(stack) - n
              /\ stack'[j] = stack[n + j] /\ stack'[k] = stack[n + k]
          BY <1>6, <4>1
        <4>3. n + j \in DOMAIN stack /\ n + k \in DOMAIN stack /\ n + j < n + k
          <5>1. PICK l \in Nat : l = Len(stack)
            BY <1>7
          <5>2. n \in 1 .. l /\ j \in 1 .. l - n /\ k \in 1 .. l - n /\ j < k
            BY <4>2, <5>1
          <5>3. n + j \in 1 .. l /\ n + k \in 1 .. l /\ n + j < n + k
            BY <5>2
          <5> QED
            BY <1>7, <5>1, <5>3
        <4> QED
          BY <4>2, <4>3 DEF Shape, Ordered
      <3> QED
        BY <3>1, <3>2
    <2>2. ASSUME NEW x \in OnStack'
          PROVE  dfs_index'[x] < index' /\ dfs_ancestor_index'[x] <= dfs_index'[x]
      <3>1. Tail(frames) # <<>>
        BY <1>14
      <3> QED
        BY <1>3, <1>18, <3>1
    <2>3. ASSUME NEW k \in DOMAIN frames' PROVE frames'[k].m \in OnStack'
      <3>1. k \in 1 .. Len(frames) - 1 /\ k + 1 \in 2 .. Len(frames)
        BY <1>1, <1>2
      <3> QED
        BY <1>2, <1>19, <3>1
    <2>4. ASSUME NEW j \in DOMAIN frames', NEW k \in DOMAIN frames', j < k
          PROVE  dfs_index'[frames'[k].m] < dfs_index'[frames'[j].m]
      <3>1. /\ j \in 1 .. Len(frames) - 1 /\ k \in 1 .. Len(frames) - 1
            /\ j + 1 \in DOMAIN frames /\ k + 1 \in DOMAIN frames /\ j + 1 < k + 1
        BY <1>1, <1>2, <2>4
      <3>2. frames'[j] = frames[j + 1] /\ frames'[k] = frames[k + 1]
        BY <1>2, <3>1
      <3> QED
        BY <1>3, <3>1, <3>2
    <2> QED
      BY <2>1, <2>2, <2>3, <2>4 DEF Ordered
  <1>22. Nested'
    <2> SUFFICES ASSUME NEW k \in DOMAIN frames'
                 PROVE  /\ frames'[k].i <= Len(req[frames'[k].m]) + 1
                        /\ k > 1 => /\ frames'[k].i <= Len(req[frames'[k].m])
                                    /\ req[frames'[k].m][frames'[k].i] = frames'[k - 1].m
      BY DEF Nested
    <2>1. k \in 1 .. Len(frames) - 1 /\ k + 1 \in DOMAIN frames /\ k + 1 > 1 /\ (k + 1) - 1 = k
      BY <1>1, <1>2
    <2>2. frames'[k] = frames[k + 1]
      BY <1>2, <2>1
    <2>3. /\ frames[k + 1].i <= Len(req[frames[k + 1].m]) + 1
          /\ frames[k + 1].i <= Len(req[frames[k + 1].m])
          /\ req[frames[k + 1].m][frames[k + 1].i] = frames[(k + 1) - 1].m
      BY <2>1 DEF Shape, Nested
    <2>4. ASSUME k > 1 PROVE frames'[k - 1] = frames[k]
      <3>1. k - 1 \in 1 .. Len(frames) - 1 /\ (k - 1) + 1 = k
        BY <2>1, <2>4
      <3> QED
        BY <1>2, <3>1
    <2> QED
      BY <2>1, <2>2, <2>3, <2>4
  <1>23. /\ \A x \in Component(t) : x \in OnStack /\ dfs_index[t] <= dfs_index[x]
         /\ \A x \in OnStack \ Component(t) : dfs_index[x] < dfs_index[t]
    BY <1>4, <1>5, <1>9
  <1> QED
    BY <1>4, <1>12, <1>13, <1>14, <1>15, <1>17, <1>20, <1>21, <1>22, <1>23 DEF Shape, t

\* A search is given up.
LEMMA EmptyShape ==
    ASSUME GraphTypes, SearchTypes, frames' = <<>>, stack' = <<>>, index' = 0,
           UNCHANGED <<req, dfs_index, dfs_ancestor_index>>
    PROVE  SearchTypes' /\ Shape' /\ OnStack' = {} /\ Framed' = {}
  <1>1. DOMAIN frames' = {} /\ DOMAIN stack' = {}
    OBVIOUS
  <1>2. OnStack' = {} /\ Framed' = {}
    BY <1>1 DEF OnStack, Framed, ToSet
  <1>3. Shape'
    BY <1>1, <1>2 DEF Shape, Rooted, Ordered, Nested
  <1>4. SearchTypes'
    BY DEF SearchTypes
  <1> QED
    BY <1>2, <1>3, <1>4

\* A step without a search.
LEMMA SameShape ==
    ASSUME SearchTypes, Shape, UNCHANGED <<req, searchVars>>,
           entry' = entry \/ frames = <<>>
    PROVE  SearchTypes' /\ Shape' /\ OnStack' = OnStack /\ Framed' = Framed
  <1>1. UNCHANGED <<dfs_index, dfs_ancestor_index, frames, stack, index>>
    BY DEF searchVars
  <1>2. OnStack' = OnStack /\ Framed' = Framed
    BY <1>1 DEF OnStack, Framed
  <1>3. SearchTypes'
    BY <1>1 DEF SearchTypes
  <1>4. Rooted'
    BY <1>1 DEF Shape, Rooted
  <1>5. Ordered'
    BY <1>1, <1>2 DEF Shape, Ordered
  <1>6. Nested'
    BY <1>1 DEF Shape, Nested
  <1> QED
    BY <1>2, <1>3, <1>4, <1>5, <1>6 DEF Shape

(***************************************************************************)
(* Every step keeps the invariant of the searches.                         *)
(***************************************************************************)
LEMMA GroupsKept ==
    /\ GraphTypes  /\ UNCHANGED graphVars => GraphTypes'
    /\ StatusTypes /\ UNCHANGED status => StatusTypes'
    /\ SearchTypes /\ UNCHANGED searchVars => SearchTypes'
    /\ AsyncTypes  /\ UNCHANGED asyncVars => AsyncTypes'
    /\ ResultTypes /\ UNCHANGED resultVars => ResultTypes'
    /\ PlaceTypes  /\ UNCHANGED <<phase, entry, imports>> => PlaceTypes'
    /\ JobTypes    /\ UNCHANGED jobVars => JobTypes'
    /\ BodyTypes   /\ UNCHANGED bodyVars => BodyTypes'
  <1>1. GraphTypes /\ UNCHANGED graphVars => GraphTypes'
    BY DEF GraphTypes, graphVars
  <1>2. StatusTypes /\ UNCHANGED status => StatusTypes'
    BY DEF StatusTypes
  <1>3. SearchTypes /\ UNCHANGED searchVars => SearchTypes'
    BY DEF SearchTypes, searchVars
  <1>4. AsyncTypes /\ UNCHANGED asyncVars => AsyncTypes'
    BY DEF AsyncTypes, asyncVars
  <1>5. ResultTypes /\ UNCHANGED resultVars => ResultTypes'
    BY DEF ResultTypes, resultVars
  <1>6. PlaceTypes /\ UNCHANGED <<phase, entry, imports>> => PlaceTypes'
    BY DEF PlaceTypes
  <1>7. JobTypes /\ UNCHANGED jobVars => JobTypes'
    BY DEF JobTypes, jobVars
  <1>8. BodyTypes /\ UNCHANGED bodyVars => BodyTypes'
    BY DEF BodyTypes, bodyVars
  <1> QED
    BY <1>1, <1>2, <1>3, <1>4, <1>5, <1>6, <1>7, <1>8

\* A step between two searches: no module begins one.
LEMMA QuietStep ==
    ASSUME SearchInv, frames = <<>>, UNCHANGED <<req, searchVars>>,
           Typed', Phases', phase' # "link", phase' # "inner",
           \A m \in Modules : status'[m] = status[m] \/ status'[m] = "evaluated"
    PROVE  SearchInv' /\ OnStack = {} /\ OnStack' = {} /\ Framed = {} /\ Framed' = {}
  <1>1. SearchTypes /\ Shape
    BY DEF SearchInv, Typed
  <1>2. Shape' /\ OnStack' = OnStack /\ Framed' = Framed
    BY <1>1, SameShape
  <1>3. stack = <<>> /\ OnStack = {} /\ Framed = {}
    <2>1. stack = <<>>
      BY <1>1 DEF Shape, Rooted
    <2>2. DOMAIN stack = {} /\ DOMAIN frames = {}
      BY <2>1
    <2> QED
      BY <2>1, <2>2 DEF OnStack, Framed, ToSet
  <1>4. Kinds'
    BY <1>2, <1>3 DEF Kinds, SearchInv
  <1> QED
    BY <1>2, <1>3, <1>4 DEF SearchInv

\* LowAncestor is the smaller of the two numbers.
LEMMA LowAncestorFacts ==
    ASSUME SearchTypes, NEW m \in Modules, NEW d \in Modules
    PROVE  /\ LowAncestor(m, d) \in {dfs_ancestor_index[m], dfs_ancestor_index[d]}
           /\ LowAncestor(m, d) \in Nat
           /\ LowAncestor(m, d) <= dfs_ancestor_index[m]
           /\ LowAncestor(m, d) <= dfs_ancestor_index[d]
  <1>1. dfs_ancestor_index[m] \in Nat /\ dfs_ancestor_index[d] \in Nat
    BY DEF SearchTypes
  <1> DEFINE T == {dfs_ancestor_index[m], dfs_ancestor_index[d]}
  <1>2. T \subseteq Nat /\ T # {}
    BY <1>1
  <1>3. Min(T) \in T /\ \A y \in T : Min(T) <= y
    <2> HIDE DEF T
    <2> QED
      BY <1>2, LeastChosen
  <1>4. LowAncestor(m, d) = Min(T)
    BY DEF LowAncestor
  <1> QED
    BY <1>2, <1>3, <1>4

\* Between two searches.
LEMMA NoSearch ==
    ASSUME SearchInv, phase \notin {"link", "inner"}
    PROVE  /\ frames = <<>> /\ stack = <<>> /\ index = 0 /\ OnStack = {} /\ Framed = {}
           /\ \A m \in Modules : status[m] \notin {"linking", "evaluating"}
  <1>1. frames = <<>>
    BY DEF SearchInv, Phases
  <1>2. stack = <<>> /\ index = 0
    BY <1>1 DEF SearchInv, Shape, Rooted
  <1>3. DOMAIN frames = {} /\ DOMAIN stack = {}
    BY <1>1, <1>2
  <1>4. OnStack = {} /\ Framed = {}
    BY <1>3 DEF OnStack, Framed, ToSet
  <1> QED
    BY <1>1, <1>2, <1>4 DEF SearchInv, Kinds

LEMMA ImportSearch ==
    ASSUME SearchInv, NEW m \in Modules, Import(m) PROVE SearchInv'
  <1>1. /\ phase = "idle" /\ imports < MaxImports /\ imports' = imports + 1 /\ entry' = m
        /\ UNCHANGED <<graphVars, asyncVars, resultVars, jobVars, bodyVars>>
    BY DEF Import
  <1>2. frames = <<>> /\ stack = <<>> /\ OnStack = {} /\ work = <<>> /\ exec_list = {}
    BY <1>1, NoSearch DEF SearchInv, Phases
  <1>3. UNCHANGED <<work, exec_list, req>>
    BY <1>1 DEF jobVars, graphVars
  <1>4. imports' \in 0 .. MaxImports
    BY <1>1, Constants DEF SearchInv, Typed, PlaceTypes
  <1>5. GraphTypes' /\ AsyncTypes' /\ ResultTypes' /\ JobTypes' /\ BodyTypes'
    BY <1>1, GroupsKept DEF SearchInv, Typed
  <1>6. CASE status[m] = "unlinked"
    <2>1. phase' = "link" /\ Enter(m, "linking")
      BY <1>6 DEF Import
    <2>2. SearchTypes' /\ Shape' /\ OnStack' = {m} /\ frames' # <<>>
      BY <1>1, <1>2, <1>3, <2>1, EnterShape DEF SearchInv, Typed
    <2>3. status' = [status EXCEPT ![m] = "linking"]
      BY <2>1 DEF Enter
    <2>4. StatusTypes'
      BY <2>3 DEF StatusTypes, SearchInv, Typed, Statuses
    <2>5. PlaceTypes' /\ Phases'
      BY <1>1, <1>2, <1>3, <1>4, <2>1, <2>2 DEF PlaceTypes, Phases
    <2>6. Kinds'
      BY <1>2, <2>1, <2>2, <2>3 DEF Kinds, SearchInv, Typed, StatusTypes
    <2> QED
      BY <1>5, <2>2, <2>4, <2>5, <2>6 DEF SearchInv, Typed
  <1>7. CASE status[m] # "unlinked"
    <2>1. phase' = "evaluate" /\ UNCHANGED <<status, searchVars>>
      BY <1>7 DEF Import
    <2>2. PlaceTypes'
      BY <1>1, <1>4, <2>1 DEF PlaceTypes
    <2>3. Typed'
      BY <1>5, <2>1, <2>2, GroupsKept DEF SearchInv, Typed
    <2>4. Phases'
      BY <1>1, <1>2, <1>3, <2>1 DEF Phases, searchVars
    <2> QED
      BY <1>2, <1>3, <2>1, <2>3, <2>4, QuietStep
  <1> QED
    BY <1>6, <1>7

LEMMA LinkEnterSearch == ASSUME SearchInv, LinkEnter PROVE SearchInv'
  <1>1. /\ phase = "link" /\ frames # <<>> /\ ~AtEnd /\ status[Request] = "unlinked"
        /\ Enter(Request, "linking")
        /\ UNCHANGED <<graphVars, asyncVars, resultVars, phase, entry, jobVars, bodyVars, imports>>
    BY DEF LinkEnter
  <1>2. GraphTypes /\ SearchTypes /\ Shape
    BY DEF SearchInv, Typed
  <1>3. PICK r \in Modules : r = Request
    BY <1>1, <1>2, TopFacts
  <1>4. r \notin OnStack
    BY <1>1, <1>3 DEF SearchInv, Kinds
  <1>5. SearchTypes' /\ Shape' /\ OnStack' = OnStack \union {r} /\ frames' # <<>>
    BY <1>1, <1>2, <1>3, <1>4, EnterShape DEF graphVars
  <1>6. status' = [status EXCEPT ![r] = "linking"]
    BY <1>1, <1>3 DEF Enter
  <1>7. Typed'
    <2>1. StatusTypes'
      BY <1>6 DEF StatusTypes, SearchInv, Typed, Statuses
    <2> QED
      BY <1>1, <1>5, <2>1, GroupsKept DEF SearchInv, Typed
  <1>8. Phases'
    BY <1>1, <1>5 DEF Phases, SearchInv, jobVars
  <1>9. Kinds'
    BY <1>1, <1>5, <1>6 DEF Kinds, SearchInv, Typed, StatusTypes
  <1> QED
    BY <1>5, <1>7, <1>8, <1>9 DEF SearchInv

LEMMA LinkVisitedSearch == ASSUME SearchInv, LinkVisited PROVE SearchInv'
  <1>1. /\ phase = "link" /\ frames # <<>> /\ ~AtEnd /\ frames' = Advance
        /\ UNCHANGED <<graphVars, status, dfs_index, stack, index, asyncVars,
                       resultVars, phase, entry, jobVars, bodyVars, imports>>
        /\ dfs_ancestor_index' =
               IF status[Request] = "linking"
               THEN [dfs_ancestor_index EXCEPT ![Top.m] = LowAncestor(Top.m, Request)]
               ELSE dfs_ancestor_index
    BY DEF LinkVisited
  <1>2. GraphTypes /\ SearchTypes /\ Shape
    BY DEF SearchInv, Typed
  <1>3. Request \in Modules /\ Top.m \in Modules
    BY <1>1, <1>2, TopFacts
  <1>4. /\ dfs_ancestor_index' \in [Modules -> Nat]
        /\ \A x \in Modules : dfs_ancestor_index'[x] <= dfs_ancestor_index[x]
    <2>1. /\ LowAncestor(Top.m, Request) \in Nat
          /\ LowAncestor(Top.m, Request) <= dfs_ancestor_index[Top.m]
      BY <1>2, <1>3, LowAncestorFacts
    <2>2. dfs_ancestor_index \in [Modules -> Nat]
      BY <1>2 DEF SearchTypes
    <2> QED
      BY <1>1, <1>3, <2>1, <2>2
  <1>5. SearchTypes' /\ Shape' /\ OnStack' = OnStack /\ frames' # <<>>
    BY <1>1, <1>2, <1>4, VisitShape DEF graphVars
  <1>6. Typed'
    BY <1>1, <1>5, GroupsKept DEF SearchInv, Typed
  <1>7. Phases'
    BY <1>1, <1>5 DEF Phases, SearchInv, jobVars
  <1>8. Kinds'
    BY <1>1, <1>5 DEF Kinds, SearchInv
  <1> QED
    BY <1>5, <1>6, <1>7, <1>8 DEF SearchInv

LEMMA LinkDoneSearch == ASSUME SearchInv, LinkDone PROVE SearchInv'
  <1>1. /\ phase = "link" /\ frames # <<>> /\ AtEnd
        /\ frames' = Tail(frames)
        /\ index' = (IF Tail(frames) = <<>> THEN 0 ELSE index)
        /\ phase' = (IF Tail(frames) = <<>> THEN "evaluate" ELSE "link")
        /\ UNCHANGED <<graphVars, dfs_index, dfs_ancestor_index, asyncVars,
                       resultVars, entry, jobVars, bodyVars, imports>>
    BY DEF LinkDone
  <1>2. /\ IsRoot(Top.m) => /\ stack' = StackBelow(Top.m)
                            /\ status' = [m \in Modules |->
                                   IF m \in Component(Top.m) THEN "linked" ELSE status[m]]
        /\ ~IsRoot(Top.m) => stack' = stack /\ status' = status
    BY DEF LinkDone
  <1>3. GraphTypes /\ SearchTypes /\ Shape
    BY DEF SearchInv, Typed
  <1>4. /\ SearchTypes' /\ Shape'
        /\ IsRoot(Top.m) => OnStack' = OnStack \ Component(Top.m)
        /\ ~IsRoot(Top.m) => OnStack' = OnStack
        /\ Tail(frames) = <<>> => OnStack' = {}
        /\ \A x \in Component(Top.m) : x \in OnStack
    BY <1>1, <1>2, <1>3, LeaveShape DEF graphVars
  <1>5. Typed'
    <2>1. StatusTypes'
      BY <1>2 DEF StatusTypes, SearchInv, Typed, Statuses
    <2>2. PlaceTypes'
      BY <1>1 DEF PlaceTypes, SearchInv, Typed
    <2> QED
      BY <1>1, <1>4, <2>1, <2>2, GroupsKept DEF SearchInv, Typed
  <1>6. Phases'
    BY <1>1 DEF Phases, SearchInv, jobVars
  <1>7. Kinds'
    <2> SUFFICES ASSUME NEW m \in Modules
                 PROVE  /\ status'[m] \in {"linking", "evaluating"} => m \in OnStack'
                        /\ m \in OnStack' => status'[m] = IF phase' = "link" THEN "linking" ELSE "evaluating"
      BY DEF Kinds
    <2>1. /\ status[m] \in {"linking", "evaluating"} => m \in OnStack
          /\ m \in OnStack => status[m] = "linking"
      BY <1>1 DEF SearchInv, Kinds
    <2>2. OnStack' # {} => phase' = "link"
      BY <1>1, <1>4
    <2>3. CASE IsRoot(Top.m)
      BY <1>2, <1>4, <2>1, <2>2, <2>3
    <2>4. CASE ~IsRoot(Top.m)
      BY <1>2, <1>4, <2>1, <2>2, <2>4
    <2> QED
      BY <2>3, <2>4
  <1> QED
    BY <1>4, <1>5, <1>6, <1>7 DEF SearchInv

LEMMA LinkFailSearch == ASSUME SearchInv, LinkFail PROVE SearchInv'
  <1>1. /\ phase = "link" /\ frames' = <<>> /\ stack' = <<>> /\ index' = 0
        /\ phase' = "idle" /\ entry' = NoModule
        /\ status' = [m \in Modules |-> IF Unlinked(m) THEN "unlinked" ELSE status[m]]
        /\ UNCHANGED <<graphVars, dfs_index, dfs_ancestor_index, asyncVars,
                       resultVars, jobVars, bodyVars, imports>>
    BY DEF LinkFail
  <1>2. GraphTypes /\ SearchTypes /\ Shape
    BY DEF SearchInv, Typed
  <1>3. SearchTypes' /\ Shape' /\ OnStack' = {}
    BY <1>1, <1>2, EmptyShape DEF graphVars
  <1>4. Typed'
    <2>1. StatusTypes'
      BY <1>1 DEF StatusTypes, SearchInv, Typed, Statuses
    <2>2. PlaceTypes'
      BY <1>1 DEF PlaceTypes, SearchInv, Typed
    <2> QED
      BY <1>1, <1>3, <2>1, <2>2, GroupsKept DEF SearchInv, Typed
  <1>5. Phases'
    BY <1>1 DEF Phases, SearchInv, jobVars
  <1>6. Kinds'
    <2> SUFFICES ASSUME NEW m \in Modules PROVE status'[m] \notin {"linking", "evaluating"}
      BY <1>3 DEF Kinds
    <2>1. Unlinked(m) <=> m \in OnStack
      BY DEF Unlinked, OnStack
    <2>2. m \notin OnStack => status[m] \notin {"linking", "evaluating"}
      BY DEF SearchInv, Kinds
    <2> QED
      BY <1>1, <2>1, <2>2
  <1> QED
    BY <1>3, <1>4, <1>5, <1>6 DEF SearchInv

LEMMA EvaluateAgainSearch == ASSUME SearchInv, EvaluateAgain PROVE SearchInv'
  <1>1. /\ phase = "evaluate" /\ phase' = "idle" /\ entry' = NoModule
        /\ UNCHANGED <<graphVars, status, searchVars, asyncVars, resultVars,
                       jobVars, bodyVars, imports>>
    BY DEF EvaluateAgain
  <1>2. PlaceTypes'
    BY <1>1 DEF PlaceTypes, SearchInv, Typed
  <1>3. Typed'
    BY <1>1, <1>2, GroupsKept DEF SearchInv, Typed
  <1>4. frames = <<>>
    BY <1>1, NoSearch
  <1>5. Phases'
    BY <1>1, <1>4 DEF Phases, SearchInv, jobVars, searchVars
  <1> QED
    BY <1>1, <1>3, <1>4, <1>5, QuietStep DEF graphVars

LEMMA EvaluateKnownSearch == ASSUME SearchInv, EvaluateKnown PROVE SearchInv'
  <1> DEFINE m == PromiseHolder(entry)
  <1>1. /\ phase = "evaluate" /\ phase' = "idle" /\ entry' = NoModule
        /\ promise' = [promise EXCEPT ![m] =
                         IF eval_has_exception[m] THEN "rejected"
                         ELSE IF async_evaluation[m] THEN "pending" ELSE "fulfilled"]
        /\ late' = late \union ({m} \intersect EndedAsync)
        /\ UNCHANGED <<graphVars, status, searchVars, asyncVars, cycle_root,
                       eval_has_exception, jobVars, body, started, imports>>
    BY DEF EvaluateKnown
  <1> HIDE DEF m
  <1>2. PlaceTypes'
    BY <1>1 DEF PlaceTypes, SearchInv, Typed
  <1>3. ResultTypes'
    BY <1>1 DEF ResultTypes, SearchInv, Typed
  <1>4. BodyTypes'
    BY <1>1 DEF BodyTypes, SearchInv, Typed, EndedAsync
  <1>5. Typed'
    BY <1>1, <1>2, <1>3, <1>4, GroupsKept DEF SearchInv, Typed
  <1>6. frames = <<>>
    BY <1>1, NoSearch
  <1>7. Phases'
    BY <1>1, <1>6 DEF Phases, SearchInv, jobVars, searchVars
  <1> QED
    BY <1>1, <1>5, <1>6, <1>7, QuietStep DEF graphVars

\* js_evaluate_module and js_inner_module_evaluation enter a module that is linked.
LEMMA EvaluateNewSearch ==
    ASSUME SearchInv, EvaluateNew
    PROVE  /\ SearchInv' /\ entry \in Modules /\ OnStack' = {entry} /\ Framed' = {entry}
           /\ status' = [status EXCEPT ![entry] = "evaluating"]
           /\ dfs_index' = [dfs_index EXCEPT ![entry] = index]
           /\ dfs_ancestor_index' = [dfs_ancestor_index EXCEPT ![entry] = index]
  <1>1. /\ phase = "evaluate" /\ phase' = "inner" /\ frames = <<>> /\ status[entry] = "linked"
        /\ promise' = [promise EXCEPT ![entry] = "pending"]
        /\ pending_async_dependencies' = [pending_async_dependencies EXCEPT ![entry] = 0]
        /\ Enter(entry, "evaluating")
        /\ UNCHANGED <<graphVars, async_evaluation, timestamp, async_parent_modules,
                       next_timestamp, cycle_root, eval_has_exception, entry,
                       jobVars, bodyVars, imports>>
    BY DEF EvaluateNew
  <1>2. GraphTypes /\ SearchTypes /\ Shape /\ entry \in Modules
    BY <1>1 DEF SearchInv, Typed, Phases
  <1>3. OnStack = {} /\ Framed = {}
    BY <1>1, NoSearch
  <1>4. SearchTypes' /\ Shape' /\ OnStack' = {entry} /\ Framed' = {entry} /\ frames' # <<>>
    BY <1>1, <1>2, <1>3, EnterShape DEF graphVars
  <1>5. /\ status' = [status EXCEPT ![entry] = "evaluating"]
        /\ dfs_index' = [dfs_index EXCEPT ![entry] = index]
        /\ dfs_ancestor_index' = [dfs_ancestor_index EXCEPT ![entry] = index]
    BY <1>1 DEF Enter
  <1>6. Typed'
    <2>1. StatusTypes'
      BY <1>5 DEF StatusTypes, SearchInv, Typed, Statuses
    <2>2. PlaceTypes'
      BY <1>1 DEF PlaceTypes, SearchInv, Typed
    <2>3. AsyncTypes'
      <3>1. AsyncTypes /\ 0 \in Int
        BY DEF SearchInv, Typed
      <3>2. pending_async_dependencies' \in [Modules -> Int]
        BY <1>1, <3>1 DEF AsyncTypes
      <3> QED
        BY <1>1, <3>1, <3>2 DEF AsyncTypes
    <2>4. ResultTypes'
      BY <1>1 DEF ResultTypes, SearchInv, Typed
    <2> QED
      BY <1>1, <1>4, <2>1, <2>2, <2>3, <2>4, GroupsKept DEF SearchInv, Typed
  <1>7. Phases'
    BY <1>1, <1>2, <1>4 DEF Phases, SearchInv, jobVars
  <1>8. Kinds'
    <2> SUFFICES ASSUME NEW m \in Modules
                 PROVE  /\ status'[m] \in {"linking", "evaluating"} => m = entry
                        /\ m = entry => status'[m] = "evaluating"
      BY <1>1, <1>4 DEF Kinds
    <2>1. status[m] \notin {"linking", "evaluating"}
      BY <1>1, NoSearch
    <2> QED
      BY <1>2, <1>5, <2>1 DEF SearchInv, Typed, StatusTypes
  <1> QED
    BY <1>2, <1>4, <1>5, <1>6, <1>7, <1>8 DEF SearchInv

LEMMA InnerEnterSearch ==
    ASSUME SearchInv, InnerEnter
    PROVE  /\ SearchInv' /\ Request \in Modules \ OnStack /\ OnStack' = OnStack \union {Request}
           /\ Framed' = Framed \union {Request}
           /\ status' = [status EXCEPT ![Request] = "evaluating"]
           /\ dfs_index' = [dfs_index EXCEPT ![Request] = index]
           /\ dfs_ancestor_index' = [dfs_ancestor_index EXCEPT ![Request] = index]
  <1>1. /\ phase = "inner" /\ ~AtEnd /\ status[Request] = "linked"
        /\ pending_async_dependencies' =
               [pending_async_dependencies EXCEPT ![Request] = 0]
        /\ Enter(Request, "evaluating")
        /\ UNCHANGED <<graphVars, async_evaluation, timestamp, async_parent_modules,
                       next_timestamp, resultVars, phase, entry, jobVars, bodyVars, imports>>
    BY DEF InnerEnter
  <1>2. GraphTypes /\ SearchTypes /\ Shape /\ frames # <<>>
    BY <1>1 DEF SearchInv, Typed, Phases
  <1>3. PICK r \in Modules : r = Request
    BY <1>1, <1>2, TopFacts
  <1>4. r \notin OnStack
    BY <1>1, <1>3 DEF SearchInv, Kinds
  <1>5. SearchTypes' /\ Shape' /\ OnStack' = OnStack \union {r} /\ Framed' = Framed \union {r}
        /\ frames' # <<>>
    BY <1>1, <1>2, <1>3, <1>4, EnterShape DEF graphVars
  <1>6. /\ status' = [status EXCEPT ![r] = "evaluating"]
        /\ dfs_index' = [dfs_index EXCEPT ![r] = index]
        /\ dfs_ancestor_index' = [dfs_ancestor_index EXCEPT ![r] = index]
    BY <1>1, <1>3 DEF Enter
  <1>7. Typed'
    <2>1. StatusTypes'
      BY <1>6 DEF StatusTypes, SearchInv, Typed, Statuses
    <2>2. AsyncTypes'
      <3>1. AsyncTypes /\ 0 \in Int
        BY DEF SearchInv, Typed
      <3>2. pending_async_dependencies' \in [Modules -> Int]
        BY <1>1, <3>1 DEF AsyncTypes
      <3> QED
        BY <1>1, <3>1, <3>2 DEF AsyncTypes
    <2> QED
      BY <1>1, <1>5, <2>1, <2>2, GroupsKept DEF SearchInv, Typed
  <1>8. Phases'
    BY <1>1, <1>5 DEF Phases, SearchInv, jobVars
  <1>9. Kinds'
    BY <1>1, <1>5, <1>6 DEF Kinds, SearchInv, Typed, StatusTypes
  <1> QED
    BY <1>3, <1>4, <1>5, <1>6, <1>7, <1>8, <1>9 DEF SearchInv

LEMMA InnerVisitedSearch ==
    ASSUME SearchInv, InnerVisited
    PROVE  /\ SearchInv' /\ OnStack' = OnStack /\ Framed' = Framed
           /\ Request \in Modules /\ Top.m \in Modules
           /\ \A x \in Modules : dfs_ancestor_index'[x] <= dfs_ancestor_index[x]
           /\ \A x \in Modules \ {Top.m} : dfs_ancestor_index'[x] = dfs_ancestor_index[x]
           /\ status[Request] = "evaluating"
                => dfs_ancestor_index'[Top.m] <= dfs_ancestor_index[Request]
  <1>1. /\ phase = "inner" /\ ~AtEnd /\ frames' = Advance
        /\ UNCHANGED <<graphVars, status, dfs_index, stack, index, async_evaluation,
                       timestamp, next_timestamp, resultVars, phase, entry, jobVars,
                       body, started, imports>>
        /\ dfs_ancestor_index' =
               IF status[Request] = "evaluating"
               THEN [dfs_ancestor_index EXCEPT ![Top.m] = LowAncestor(Top.m, Request)]
               ELSE dfs_ancestor_index
    BY DEF InnerVisited
  <1>2. GraphTypes /\ SearchTypes /\ Shape /\ frames # <<>>
    BY <1>1 DEF SearchInv, Typed, Phases
  <1>3. Request \in Modules /\ Top.m \in Modules
    BY <1>1, <1>2, TopFacts
  <1>4. /\ dfs_ancestor_index' \in [Modules -> Nat]
        /\ \A x \in Modules : dfs_ancestor_index'[x] <= dfs_ancestor_index[x]
        /\ \A x \in Modules \ {Top.m} : dfs_ancestor_index'[x] = dfs_ancestor_index[x]
        /\ status[Request] = "evaluating"
                => dfs_ancestor_index'[Top.m] <= dfs_ancestor_index[Request]
    <2>1. /\ LowAncestor(Top.m, Request) \in Nat
          /\ LowAncestor(Top.m, Request) <= dfs_ancestor_index[Top.m]
          /\ LowAncestor(Top.m, Request) <= dfs_ancestor_index[Request]
      BY <1>2, <1>3, LowAncestorFacts
    <2>2. dfs_ancestor_index \in [Modules -> Nat]
      BY <1>2 DEF SearchTypes
    <2> QED
      BY <1>1, <1>3, <2>1, <2>2
  <1>5. SearchTypes' /\ Shape' /\ OnStack' = OnStack /\ Framed' = Framed /\ frames' # <<>>
    BY <1>1, <1>2, <1>4, VisitShape DEF graphVars
  <1>6. AsyncTypes'
    <2>1. CASE IsWaitedFor(Awaited)
      <3>1. /\ pending_async_dependencies' =
                   [pending_async_dependencies EXCEPT ![Top.m] = @ + 1]
            /\ async_parent_modules' =
                   [async_parent_modules EXCEPT ![Awaited] = Append(@, Top.m)]
        BY <2>1 DEF InnerVisited
      <3>2. pending_async_dependencies' \in [Modules -> Int]
        <4>1. /\ pending_async_dependencies \in [Modules -> Int]
              /\ pending_async_dependencies[Top.m] \in Int
          BY <1>3 DEF AsyncTypes, SearchInv, Typed
        <4>2. PICK v \in Int : v = pending_async_dependencies[Top.m] + 1
          BY <4>1
        <4>3. pending_async_dependencies' = [pending_async_dependencies EXCEPT ![Top.m] = v]
          BY <3>1, <4>2
        <4> QED
          BY <4>1, <4>3
      <3>3. async_parent_modules' \in [Modules -> Seq(Modules)]
        <4>1. async_parent_modules \in [Modules -> Seq(Modules)]
          BY DEF AsyncTypes, SearchInv, Typed
        <4>2. CASE Awaited \in Modules
          <5>1. PICK l \in Seq(Modules) : l = Append(async_parent_modules[Awaited], Top.m)
            <6>1. async_parent_modules[Awaited] \in Seq(Modules)
              BY <4>1, <4>2
            <6> QED
              BY <1>3, <6>1, AppendFacts
          <5>2. async_parent_modules' = [async_parent_modules EXCEPT ![Awaited] = l]
            BY <3>1, <5>1
          <5> QED
            BY <4>1, <5>1, <5>2
        <4>3. CASE Awaited \notin Modules
          BY <3>1, <4>1, <4>3
        <4> QED
          BY <4>2, <4>3
      <3> QED
        BY <1>1, <3>2, <3>3 DEF AsyncTypes, SearchInv, Typed
    <2>2. CASE ~IsWaitedFor(Awaited)
      BY <1>1, <2>2 DEF InnerVisited, AsyncTypes, SearchInv, Typed
    <2> QED
      BY <2>1, <2>2
  <1>7. BodyTypes'
    <2>1. late' \in SUBSET Modules
      BY <1>3 DEF InnerVisited, BodyTypes, SearchInv, Typed
    <2> QED
      BY <1>1, <2>1 DEF BodyTypes, SearchInv, Typed
  <1>8. Typed'
    BY <1>1, <1>5, <1>6, <1>7, GroupsKept DEF SearchInv, Typed
  <1>9. Phases'
    BY <1>1, <1>5 DEF Phases, SearchInv, jobVars
  <1>10. Kinds'
    BY <1>1, <1>5 DEF Kinds, SearchInv
  <1> QED
    BY <1>3, <1>4, <1>5, <1>8, <1>9, <1>10 DEF SearchInv

\* js_evaluate_module after a failure: nothing is left on the stack.
LEMMA FailStackSearch ==
    ASSUME SearchInv, phase = "inner", FailStack, BodyTypes',
           UNCHANGED <<graphVars, asyncVars, jobVars, imports>>
    PROVE  SearchInv' /\ OnStack' = {} /\ Framed' = {} /\ entry \in Modules
  <1>1. /\ status' = [m \in Modules |-> IF m \in OnStack THEN "evaluated" ELSE status[m]]
        /\ eval_has_exception' = [m \in Modules |-> eval_has_exception[m] \/ m \in OnStack]
        /\ cycle_root' = [m \in Modules |-> IF m \in OnStack THEN entry ELSE cycle_root[m]]
        /\ promise' = [promise EXCEPT ![entry] = "rejected"]
        /\ frames' = <<>> /\ stack' = <<>> /\ index' = 0
        /\ phase' = "idle" /\ entry' = NoModule
        /\ UNCHANGED <<dfs_index, dfs_ancestor_index>>
    BY DEF FailStack, OnStack
  <1>2. GraphTypes /\ SearchTypes /\ Shape /\ entry \in Modules
    BY DEF SearchInv, Typed, Phases
  <1>3. SearchTypes' /\ Shape' /\ OnStack' = {} /\ Framed' = {}
    BY <1>1, <1>2, EmptyShape DEF graphVars
  <1>4. Typed'
    <2>1. StatusTypes'
      BY <1>1 DEF StatusTypes, SearchInv, Typed, Statuses
    <2>2. PlaceTypes'
      BY <1>1 DEF PlaceTypes, SearchInv, Typed
    <2>3. ResultTypes'
      <3>1. \A m \in Modules : eval_has_exception[m] \in BOOLEAN /\ cycle_root[m] \in Modules \union {NoModule}
        BY DEF ResultTypes, SearchInv, Typed
      <3>2. eval_has_exception' \in [Modules -> BOOLEAN]
        BY <1>1, <3>1
      <3>3. cycle_root' \in [Modules -> Modules \union {NoModule}]
        BY <1>1, <1>2, <3>1
      <3>4. promise' \in [Modules -> {"none", "pending", "fulfilled", "rejected"}]
        BY <1>1 DEF ResultTypes, SearchInv, Typed
      <3> QED
        BY <3>2, <3>3, <3>4 DEF ResultTypes
    <2> QED
      BY <1>3, <2>1, <2>2, <2>3, GroupsKept DEF SearchInv, Typed
  <1>5. Phases'
    BY <1>1 DEF Phases, SearchInv, jobVars
  <1>6. Kinds'
    <2> SUFFICES ASSUME NEW m \in Modules PROVE status'[m] \notin {"linking", "evaluating"}
      BY <1>3 DEF Kinds
    <2> QED
      BY <1>1 DEF SearchInv, Kinds
  <1> QED
    BY <1>2, <1>3, <1>4, <1>5, <1>6 DEF SearchInv

LEMMA RunTypes ==
    ASSUME BodyTypes, NEW m \in Modules, NEW o \in {"awaiting", "returned", "threw"}, Run(m, o)
    PROVE  BodyTypes'
  <1>1. body' = [body EXCEPT ![m] = o] /\ started' = Append(started, m) /\ late' = late
    BY DEF Run
  <1>2. started' \in Seq(Modules)
    BY <1>1 DEF BodyTypes
  <1> QED
    BY <1>1, <1>2 DEF BodyTypes

LEMMA InnerFailSearch ==
    ASSUME SearchInv, InnerFail
    PROVE  SearchInv' /\ OnStack' = {} /\ Framed' = {} /\ entry \in Modules
  <1>1. phase = "inner" /\ FailStack
        /\ UNCHANGED <<graphVars, asyncVars, jobVars, bodyVars, imports>>
    BY DEF InnerFail
  <1>2. BodyTypes'
    BY <1>1, GroupsKept DEF SearchInv, Typed
  <1> QED
    BY <1>1, <1>2, FailStackSearch

LEMMA InnerThrowsSearch ==
    ASSUME SearchInv, InnerThrows
    PROVE  SearchInv' /\ OnStack' = {} /\ Framed' = {} /\ entry \in Modules /\ Top.m \in Modules
  <1>1. phase = "inner" /\ FailStack /\ Run(Top.m, "threw")
        /\ UNCHANGED <<graphVars, asyncVars, jobVars, imports>>
    BY DEF InnerThrows
  <1>2. Top.m \in Modules
    BY <1>1, TopFacts DEF SearchInv, Typed, Phases
  <1>3. BodyTypes'
    BY <1>1, <1>2, RunTypes DEF SearchInv, Typed
  <1> QED
    BY <1>1, <1>2, <1>3, FailStackSearch

LEMMA InnerDoneSearch ==
    ASSUME SearchInv, InnerDone
    PROVE  /\ SearchInv' /\ Top.m \in OnStack /\ Top.m \in Modules /\ Framed' = Framed \ {Top.m}
           /\ IsRoot(Top.m) => OnStack' = OnStack \ Component(Top.m)
           /\ ~IsRoot(Top.m) => OnStack' = OnStack
           /\ Tail(frames) = <<>> => /\ OnStack' = {} /\ IsRoot(Top.m) /\ Top.m = entry
                                     /\ Component(Top.m) = OnStack
           /\ \A f \in Framed : dfs_index[f] <= dfs_index[Top.m]
           /\ \A x \in Component(Top.m) : x \in OnStack /\ dfs_index[Top.m] <= dfs_index[x]
           /\ \A x \in OnStack \ Component(Top.m) : dfs_index[x] < dfs_index[Top.m]
  <1> DEFINE t == Top.m
             isAsync == Waits(t) \/ t \in has_tla
             asyncNow == [async_evaluation EXCEPT ![t] = @ \/ isAsync]
  <1>1. /\ phase = "inner" /\ AtEnd
        /\ async_evaluation' = asyncNow
        /\ timestamp' = (IF isAsync THEN [timestamp EXCEPT ![t] = next_timestamp] ELSE timestamp)
        /\ next_timestamp' = (IF isAsync THEN next_timestamp + 1 ELSE next_timestamp)
        /\ Waits(t) => UNCHANGED bodyVars
        /\ ~Waits(t) => Run(t, IF t \in has_tla THEN "awaiting" ELSE "returned")
        /\ frames' = Tail(frames)
        /\ UNCHANGED <<graphVars, dfs_index, dfs_ancestor_index,
                       pending_async_dependencies, async_parent_modules,
                       eval_has_exception, jobVars, imports>>
    BY DEF InnerDone
  <1>2. /\ IsRoot(t) => /\ status' = [x \in Modules |->
                                IF x \notin Component(t) THEN status[x]
                                ELSE IF asyncNow[x] THEN "evaluating_async"
                                ELSE "evaluated"]
                        /\ cycle_root' = [x \in Modules |->
                                    IF x \in Component(t) THEN t ELSE cycle_root[x]]
                        /\ stack' = StackBelow(t)
        /\ ~IsRoot(t) => UNCHANGED <<status, cycle_root, stack>>
    BY DEF InnerDone
  <1>3. /\ Tail(frames) = <<>> =>
               /\ promise' = [promise EXCEPT ![entry] =
                                 IF asyncNow[entry] THEN @ ELSE "fulfilled"]
               /\ phase' = "idle" /\ entry' = NoModule /\ index' = 0
        /\ Tail(frames) # <<>> => UNCHANGED <<promise, phase, entry, index>>
    BY DEF InnerDone
  <1>4. GraphTypes /\ SearchTypes /\ Shape /\ frames # <<>>
    BY <1>1 DEF SearchInv, Typed, Phases
  <1>5. t \in Modules
    BY <1>4, TopFacts
  <1> HIDE DEF asyncNow
  <1>6. /\ SearchTypes' /\ Shape' /\ Top.m \in OnStack /\ Framed' = Framed \ {Top.m}
        /\ IsRoot(Top.m) => OnStack' = OnStack \ Component(Top.m)
        /\ ~IsRoot(Top.m) => OnStack' = OnStack
        /\ Tail(frames) = <<>> => /\ OnStack' = {} /\ IsRoot(Top.m) /\ Top.m = entry
                                  /\ Component(Top.m) = OnStack
        /\ \A f \in Framed : dfs_index[f] <= dfs_index[Top.m]
        /\ \A x \in Component(Top.m) : x \in OnStack /\ dfs_index[Top.m] <= dfs_index[x]
        /\ \A x \in OnStack \ Component(Top.m) : dfs_index[x] < dfs_index[Top.m]
    BY <1>1, <1>2, <1>3, <1>4, LeaveShape DEF graphVars
  <1>7. Typed'
    <2>1. StatusTypes'
      BY <1>2 DEF StatusTypes, SearchInv, Typed, Statuses
    <2>2. PlaceTypes'
      BY <1>1, <1>3 DEF PlaceTypes, SearchInv, Typed
    <2>3. AsyncTypes'
      <3>1. asyncNow \in [Modules -> BOOLEAN]
        <4>1. async_evaluation \in [Modules -> BOOLEAN]
          BY DEF AsyncTypes, SearchInv, Typed
        <4>2. PICK v \in BOOLEAN : v = (async_evaluation[t] \/ isAsync)
          OBVIOUS
        <4>3. asyncNow = [async_evaluation EXCEPT ![t] = v]
          BY <4>2 DEF asyncNow
        <4> QED
          BY <4>1, <4>3
      <3>2. timestamp' \in [Modules -> Nat] /\ next_timestamp' \in Nat
        <4>1. timestamp \in [Modules -> Nat] /\ next_timestamp \in Nat /\ next_timestamp + 1 \in Nat
          BY DEF AsyncTypes, SearchInv, Typed
        <4> HIDE DEF isAsync
        <4>2. CASE isAsync
          BY <1>1, <4>1, <4>2
        <4>3. CASE ~isAsync
          BY <1>1, <4>1, <4>3
        <4> QED
          BY <4>2, <4>3
      <3> QED
        BY <1>1, <3>1, <3>2 DEF AsyncTypes, SearchInv, Typed
    <2>4. ResultTypes'
      <3>1. cycle_root' \in [Modules -> Modules \union {NoModule}]
        BY <1>2, <1>5 DEF ResultTypes, SearchInv, Typed
      <3>2. promise' \in [Modules -> {"none", "pending", "fulfilled", "rejected"}]
        BY <1>3 DEF ResultTypes, SearchInv, Typed
      <3> QED
        BY <1>1, <3>1, <3>2 DEF ResultTypes, SearchInv, Typed
    <2>5. BodyTypes'
      <3>1. BodyTypes
        BY DEF SearchInv, Typed
      <3>2. CASE Waits(t)
        BY <1>1, <3>1, <3>2, GroupsKept
      <3>3. CASE ~Waits(t)
        <4>1. PICK o \in {"awaiting", "returned", "threw"} : Run(t, o)
          BY <1>1, <3>3
        <4> QED
          BY <1>5, <3>1, <4>1, RunTypes
      <3> QED
        BY <3>2, <3>3
    <2> QED
      BY <1>1, <1>6, <2>1, <2>2, <2>3, <2>4, <2>5, GroupsKept DEF SearchInv, Typed
  <1>8. Phases'
    BY <1>1, <1>3 DEF Phases, SearchInv, jobVars
  <1>9. Kinds'
    <2> SUFFICES ASSUME NEW m \in Modules
                 PROVE  /\ status'[m] \in {"linking", "evaluating"} => m \in OnStack'
                        /\ m \in OnStack' => status'[m] = IF phase' = "link" THEN "linking" ELSE "evaluating"
      BY DEF Kinds
    <2>1. /\ status[m] \in {"linking", "evaluating"} => m \in OnStack
          /\ m \in OnStack => status[m] = "evaluating"
      BY <1>1 DEF SearchInv, Kinds
    <2>2. phase' # "link"
      BY <1>1, <1>3
    <2>3. CASE IsRoot(t)
      BY <1>2, <1>6, <2>1, <2>2, <2>3
    <2>4. CASE ~IsRoot(t)
      BY <1>2, <1>6, <2>1, <2>2, <2>4
    <2> QED
      BY <2>3, <2>4
  <1> QED
    BY <1>5, <1>6, <1>7, <1>8, <1>9 DEF SearchInv

\* The reaction to be run next.
LEMMA JobFacts ==
    ASSUME JobTypes, jobs # <<>>
    PROVE  /\ Head(jobs) \in [m : Modules, ok : BOOLEAN]
           /\ Head(jobs).m \in Modules /\ Head(jobs).ok \in BOOLEAN
           /\ Tail(jobs) \in Seq([m : Modules, ok : BOOLEAN])
           /\ Head(jobs) = jobs[1] /\ 1 \in DOMAIN jobs
           /\ DOMAIN Tail(jobs) = 1 .. Len(jobs) - 1 /\ DOMAIN jobs = 1 .. Len(jobs)
           /\ Len(jobs) \in Nat \ {0}
           /\ \A k \in 1 .. Len(jobs) - 1 : Tail(jobs)[k] = jobs[k + 1]
  <1>1. jobs \in Seq([m : Modules, ok : BOOLEAN])
    BY DEF JobTypes
  <1>2. /\ Tail(jobs) \in Seq([m : Modules, ok : BOOLEAN])
        /\ DOMAIN Tail(jobs) = 1 .. Len(jobs) - 1 /\ DOMAIN jobs = 1 .. Len(jobs)
        /\ Len(jobs) \in Nat \ {0} /\ Head(jobs) = jobs[1]
        /\ \A k \in 1 .. Len(jobs) - 1 : Tail(jobs)[k] = jobs[k + 1]
    BY <1>1, HeadDropped
  <1>3. 1 \in DOMAIN jobs
    BY <1>2
  <1>4. Head(jobs) \in [m : Modules, ok : BOOLEAN]
    <2> DEFINE J == [m : Modules, ok : BOOLEAN]
    <2>1. jobs \in Seq(J)
      BY <1>1
    <2> HIDE DEF J
    <2>2. jobs[1] \in J
      BY <1>3, <2>1
    <2> QED
      BY <1>2, <2>2 DEF J
  <1> QED
    BY <1>2, <1>3, <1>4

\* exec_list is sorted: what is taken first has the least timestamp.
LEMMA NextFacts ==
    ASSUME AsyncTypes, exec_list \subseteq Modules, exec_list # {}
    PROVE  /\ NextToRun \in exec_list /\ NextToRun \in Modules
           /\ \A x \in exec_list : timestamp[NextToRun] <= timestamp[x]
  <1> DEFINE T == {timestamp[x] : x \in exec_list}
             P(m) == m \in exec_list /\ \A x \in exec_list : timestamp[m] <= timestamp[x]
  <1>1. T \subseteq Nat /\ T # {}
    BY DEF AsyncTypes
  <1>2. PICK n \in T : \A y \in T : n <= y
    <2> HIDE DEF T
    <2> QED
      BY <1>1, LeastExists
  <1>3. PICK n0 : P(n0)
    BY <1>2
  <1>4. NextToRun = CHOOSE m : P(m)
    BY DEF NextToRun
  <1>5. P(CHOOSE z : P(z))
    <2> HIDE DEF P
    <2> QED
      BY <1>3
  <1> QED
    BY <1>4, <1>5

\* The places of a module in a list, counted.
LEMMA OccursFacts ==
    ASSUME NEW s \in Seq(Modules), NEW x
    PROVE  /\ Occurs(x, s) \in Nat
           /\ IsFiniteSet({k \in DOMAIN s : s[k] = x})
           /\ x \in ToSet(s) => Occurs(x, s) > 0
  <1>1. Entries(s, {x}) = {k \in DOMAIN s : s[k] = x}
    BY DEF Entries
  <1>2. Occurs(x, s) = Cardinality(Entries(s, {x}))
    BY <1>1 DEF Occurs
  <1>3. IsFiniteSet(Entries(s, {x})) /\ Cardinality(Entries(s, {x})) \in Nat
    BY EntriesFinite
  <1>4. ASSUME x \in ToSet(s) PROVE Occurs(x, s) > 0
    <2>1. Entries(s, {x}) # {}
      BY <1>1, <1>4 DEF ToSet
    <2>2. Cardinality(Entries(s, {x})) # 0
      BY <1>3, <2>1, FS_EmptySet
    <2> QED
      BY <1>2, <1>3, <2>2
  <1> QED
    BY <1>1, <1>2, <1>3, <1>4

\* The parents that a completed module sets free, listed.
LEMMA FreedListed ==
    ASSUME AsyncTypes, NEW m \in Modules, NEW F, F \subseteq OpenParents(m)
    PROVE  /\ F \subseteq Modules
           /\ SetToSeq(Onward(F)) \in Seq(Modules)
           /\ ToSet(SetToSeq(Onward(F))) = F \ has_tla
           /\ IsInjective(SetToSeq(Onward(F)))
  <1> DEFINE s == async_parent_modules[m]
  <1>1. s \in Seq(Modules)
    BY DEF AsyncTypes
  <1>2. ToSet(s) \subseteq Modules
    BY <1>1, ListElements
  <1>3. IsFiniteSet(ToSet(s))
    <2> HIDE DEF s
    <2>1. IsFiniteSet(1 .. Len(s)) /\ DOMAIN s = 1 .. Len(s)
      BY <1>1, FS_Interval
    <2> DEFINE f == [k \in 1 .. Len(s) |-> s[k]]
    <2>2. f \in Surjection(1 .. Len(s), ToSet(s))
      BY <2>1 DEF Surjection, ToSet
    <2> HIDE DEF f
    <2> QED
      BY <2>1, <2>2, FS_Surjection
  <1>4. Onward(F) \in SUBSET ToSet(s) /\ F \subseteq ToSet(s) /\ Onward(F) = F \ has_tla
    BY DEF OpenParents, Onward
  <1>5. IsFiniteSet(Onward(F))
    <2> HIDE DEF s
    <2> QED
      BY <1>3, <1>4, FS_Subset
  <1>6. /\ SetToSeq(Onward(F)) \in Seq(Onward(F)) /\ ToSet(SetToSeq(Onward(F))) = Onward(F)
        /\ IsInjective(SetToSeq(Onward(F)))
    BY <1>5, SetListed
  <1>7. SetToSeq(Onward(F)) \in Seq(Modules)
    <2>1. Onward(F) \subseteq Modules
      BY <1>2, <1>4
    <2> QED
      BY <1>6, <2>1
  <1> QED
    BY <1>2, <1>4, <1>6, <1>7

LEMMA BodySettlesSearch ==
    ASSUME SearchInv, NEW m \in Modules, NEW ok \in BOOLEAN, BodySettles(m, ok)
    PROVE  SearchInv'
  <1>1. /\ phase = "idle" /\ phase' = phase
        /\ body' = [body EXCEPT ![m] = IF ok THEN "returned" ELSE "threw"]
        /\ jobs' = Append(jobs, [m |-> m, ok |-> ok])
        /\ UNCHANGED <<graphVars, status, searchVars, asyncVars, resultVars,
                       entry, work, exec_list, started, late, imports>>
    BY DEF BodySettles
  <1>2. JobTypes'
    <2>1. [m |-> m, ok |-> ok] \in [m : Modules, ok : BOOLEAN]
      OBVIOUS
    <2>2. jobs' \in Seq([m : Modules, ok : BOOLEAN])
      BY <1>1, <2>1, AppendFacts DEF SearchInv, Typed, JobTypes
    <2> QED
      BY <1>1, <2>2 DEF SearchInv, Typed, JobTypes
  <1>3. BodyTypes'
    BY <1>1 DEF BodyTypes, SearchInv, Typed
  <1>4. Typed'
    BY <1>1, <1>2, <1>3, GroupsKept DEF SearchInv, Typed
  <1>5. frames = <<>>
    BY <1>1, NoSearch
  <1>6. Phases'
    BY <1>1, <1>5 DEF Phases, SearchInv, searchVars
  <1> QED
    BY <1>1, <1>4, <1>5, <1>6, QuietStep DEF graphVars

LEMMA LateReactionSearch == ASSUME SearchInv, LateReaction PROVE SearchInv'
  <1>1. /\ phase = "idle" /\ jobs # <<>> /\ phase' = phase /\ jobs' = Tail(jobs)
        /\ UNCHANGED <<graphVars, status, searchVars, asyncVars, resultVars,
                       entry, work, exec_list, bodyVars, imports>>
    BY DEF LateReaction
  <1>2. JobTypes'
    BY <1>1, JobFacts DEF SearchInv, Typed, JobTypes
  <1>3. Typed'
    BY <1>1, <1>2, GroupsKept DEF SearchInv, Typed
  <1>4. frames = <<>>
    BY <1>1, NoSearch
  <1>5. Phases'
    BY <1>1, <1>4 DEF Phases, SearchInv, searchVars
  <1> QED
    BY <1>1, <1>3, <1>4, <1>5, QuietStep DEF graphVars

LEMMA EvaluatedTypes ==
    ASSUME StatusTypes, ResultTypes, NEW m \in Modules, Evaluated(m),
           UNCHANGED <<cycle_root, eval_has_exception>>
    PROVE  /\ StatusTypes' /\ ResultTypes'
           /\ \A x \in Modules : status'[x] = IF x = m THEN "evaluated" ELSE status[x]
  <1>1. /\ status' = [status EXCEPT ![m] = "evaluated"]
        /\ promise' = [promise EXCEPT ![m] = IF @ = "none" THEN @ ELSE "fulfilled"]
    BY DEF Evaluated
  <1>2. StatusTypes'
    BY <1>1 DEF StatusTypes, Statuses
  <1>3. ResultTypes'
    <2>1. promise' \in [Modules -> {"none", "pending", "fulfilled", "rejected"}]
      BY <1>1 DEF ResultTypes
    <2> QED
      BY <2>1 DEF ResultTypes
  <1> QED
    BY <1>1, <1>2, <1>3 DEF StatusTypes

LEMMA FulfilledSearch == ASSUME SearchInv, Fulfilled PROVE SearchInv'
  <1>1. PICK m : m = Head(jobs).m
    OBVIOUS
  <1>2. /\ phase = "idle" /\ jobs # <<>>
        /\ async_evaluation' = [async_evaluation EXCEPT ![m] = FALSE]
        /\ Evaluated(m)
        /\ jobs' = Tail(jobs) /\ work' = <<m>> /\ phase' = "gather"
        /\ UNCHANGED <<graphVars, searchVars, pending_async_dependencies, timestamp,
                       async_parent_modules, next_timestamp, cycle_root,
                       eval_has_exception, entry, exec_list, bodyVars, imports>>
    BY <1>1 DEF Fulfilled
  <1>3. m \in Modules /\ Tail(jobs) \in Seq([m : Modules, ok : BOOLEAN])
    BY <1>1, <1>2, JobFacts DEF SearchInv, Typed
  <1>4. StatusTypes' /\ ResultTypes'
        /\ \A x \in Modules : status'[x] = IF x = m THEN "evaluated" ELSE status[x]
    BY <1>2, <1>3, EvaluatedTypes DEF SearchInv, Typed
  <1>5. Typed'
    <2>1. JobTypes'
      BY <1>2, <1>3 DEF SearchInv, Typed, JobTypes
    <2>2. PlaceTypes'
      BY <1>2 DEF PlaceTypes, SearchInv, Typed
    <2>3. AsyncTypes'
      BY <1>2 DEF AsyncTypes, SearchInv, Typed
    <2> QED
      BY <1>2, <1>4, <2>1, <2>2, <2>3, GroupsKept DEF SearchInv, Typed
  <1>6. frames = <<>>
    BY <1>2, NoSearch
  <1>7. Phases'
    BY <1>2, <1>6 DEF Phases, SearchInv, searchVars
  <1> QED
    BY <1>2, <1>4, <1>5, <1>6, <1>7, QuietStep DEF graphVars

LEMMA GatherSearch == ASSUME SearchInv, Gather PROVE SearchInv'
  <1>1. PICK m : m = Head(work)
    OBVIOUS
  <1>2. PICK F : F = {p \in OpenParents(m) : Left(p, m) = 0}
    OBVIOUS
  <1>3. /\ phase = "gather" /\ work # <<>> /\ phase' = phase
        /\ pending_async_dependencies' =
               [p \in Modules |-> IF p \in OpenParents(m) THEN Left(p, m)
                                  ELSE pending_async_dependencies[p]]
        /\ exec_list' = exec_list \union F
        /\ work' = Tail(work) \o SetToSeq(Onward(F))
        /\ UNCHANGED <<graphVars, status, searchVars, async_evaluation, timestamp,
                       async_parent_modules, next_timestamp, resultVars,
                       entry, jobs, bodyVars, imports>>
    BY <1>1, <1>2 DEF Gather
  <1>4. m \in Modules /\ Tail(work) \in Seq(Modules)
    BY <1>1, <1>3 DEF SearchInv, Typed, JobTypes
  <1>5. F \subseteq Modules /\ SetToSeq(Onward(F)) \in Seq(Modules)
    BY <1>2, <1>4, FreedListed DEF SearchInv, Typed
  <1>6. Typed'
    <2>1. work' \in Seq(Modules)
      BY <1>3, <1>4, <1>5
    <2>2. JobTypes'
      BY <1>3, <1>5, <2>1 DEF SearchInv, Typed, JobTypes
    <2>3. pending_async_dependencies' \in [Modules -> Int]
      <3>1. pending_async_dependencies \in [Modules -> Int]
            /\ async_parent_modules[m] \in Seq(Modules)
        BY <1>4 DEF SearchInv, Typed, AsyncTypes
      <3>2. ASSUME NEW p \in Modules PROVE Left(p, m) \in Int
        <4>1. Occurs(p, async_parent_modules[m]) \in Nat
          BY <3>1, OccursFacts
        <4> QED
          BY <3>1, <4>1 DEF Left
      <3> QED
        BY <1>3, <3>1, <3>2
    <2>4. AsyncTypes'
      BY <1>3, <2>3 DEF SearchInv, Typed, AsyncTypes
    <2>5. PlaceTypes'
      BY <1>3 DEF SearchInv, Typed, PlaceTypes
    <2> QED
      BY <1>3, <2>2, <2>4, <2>5, GroupsKept DEF SearchInv, Typed
  <1>7. frames = <<>>
    BY <1>3, NoSearch
  <1>8. Phases'
    BY <1>3, <1>7 DEF Phases, SearchInv, searchVars
  <1> QED
    BY <1>3, <1>6, <1>7, <1>8, QuietStep DEF graphVars

LEMMA GatherDoneSearch == ASSUME SearchInv, GatherDone PROVE SearchInv'
  <1>1. /\ phase = "gather" /\ work = <<>> /\ phase' = "exec"
        /\ UNCHANGED <<graphVars, status, searchVars, asyncVars, resultVars, entry,
                       jobVars, bodyVars, imports>>
    BY DEF GatherDone
  <1>2. PlaceTypes'
    BY <1>1 DEF SearchInv, Typed, PlaceTypes
  <1>3. Typed'
    BY <1>1, <1>2, GroupsKept DEF SearchInv, Typed
  <1>4. frames = <<>>
    BY <1>1, NoSearch
  <1>5. Phases'
    BY <1>1, <1>4 DEF Phases, SearchInv, searchVars
  <1> QED
    BY <1>1, <1>3, <1>4, <1>5, QuietStep DEF graphVars

LEMMA ExecSkipSearch == ASSUME SearchInv, ExecSkip PROVE SearchInv'
  <1>1. /\ phase = "exec" /\ phase' = phase /\ exec_list' = exec_list \ {NextToRun}
        /\ UNCHANGED <<graphVars, status, searchVars, asyncVars, resultVars,
                       entry, work, jobs, bodyVars, imports>>
    BY DEF ExecSkip
  <1>2. JobTypes'
    BY <1>1 DEF SearchInv, Typed, JobTypes
  <1>3. Typed'
    BY <1>1, <1>2, GroupsKept DEF SearchInv, Typed
  <1>4. frames = <<>>
    BY <1>1, NoSearch
  <1>5. Phases'
    BY <1>1, <1>4 DEF Phases, SearchInv, searchVars
  <1> QED
    BY <1>1, <1>3, <1>4, <1>5, QuietStep DEF graphVars

LEMMA ExecAsyncSearch == ASSUME SearchInv, ExecAsync PROVE SearchInv'
  <1>1. /\ phase = "exec" /\ phase' = phase /\ exec_list' = exec_list \ {NextToRun}
        /\ exec_list # {} /\ Run(NextToRun, "awaiting")
        /\ UNCHANGED <<graphVars, status, searchVars, asyncVars, resultVars,
                       entry, work, jobs, imports>>
    BY DEF ExecAsync
  <1>2. JobTypes'
    BY <1>1 DEF SearchInv, Typed, JobTypes
  <1>3. NextToRun \in Modules
    BY <1>1, NextFacts DEF SearchInv, Typed, JobTypes
  <1>4. BodyTypes'
    BY <1>1, <1>3, RunTypes DEF SearchInv, Typed
  <1>5. Typed'
    BY <1>1, <1>2, <1>4, GroupsKept DEF SearchInv, Typed
  <1>6. frames = <<>>
    BY <1>1, NoSearch
  <1>7. Phases'
    BY <1>1, <1>6 DEF Phases, SearchInv, searchVars
  <1> QED
    BY <1>1, <1>5, <1>6, <1>7, QuietStep DEF graphVars

LEMMA ExecSyncSearch == ASSUME SearchInv, NEW ok \in BOOLEAN, ExecSync(ok) PROVE SearchInv'
  <1>1. /\ phase = "exec" /\ phase' = phase /\ exec_list' = exec_list \ {NextToRun}
        /\ exec_list # {} /\ Run(NextToRun, IF ok THEN "returned" ELSE "threw")
        /\ ok => Evaluated(NextToRun) /\ UNCHANGED work
        /\ ~ok => work' = <<NextToRun>> /\ UNCHANGED <<status, promise>>
        /\ UNCHANGED <<graphVars, searchVars, asyncVars, cycle_root,
                       eval_has_exception, entry, jobs, imports>>
    BY DEF ExecSync
  <1>2. PICK n \in Modules : n = NextToRun
    BY <1>1, NextFacts DEF SearchInv, Typed, JobTypes
  <1>3. JobTypes'
    <2>1. work' \in Seq(Modules)
      <3>1. work \in Seq(Modules) /\ <<n>> \in Seq(Modules)
        BY DEF SearchInv, Typed, JobTypes
      <3> QED
        BY <1>1, <1>2, <3>1
    <2> QED
      BY <1>1, <2>1 DEF SearchInv, Typed, JobTypes
  <1>4. BodyTypes'
    <2>1. PICK o \in {"awaiting", "returned", "threw"} : Run(n, o)
      BY <1>1, <1>2
    <2> QED
      BY <2>1, RunTypes DEF SearchInv, Typed
  <1>5. /\ StatusTypes' /\ ResultTypes'
        /\ \A m \in Modules : status'[m] = status[m] \/ status'[m] = "evaluated"
    <2>1. CASE ok
      BY <1>1, <1>2, <2>1, EvaluatedTypes DEF SearchInv, Typed
    <2>2. CASE ~ok
      BY <1>1, <2>2, GroupsKept DEF SearchInv, Typed, resultVars
    <2> QED
      BY <2>1, <2>2
  <1>6. Typed'
    BY <1>1, <1>3, <1>4, <1>5, GroupsKept DEF SearchInv, Typed
  <1>7. frames = <<>>
    BY <1>1, NoSearch
  <1>8. Phases'
    BY <1>1, <1>7 DEF Phases, SearchInv, searchVars
  <1> QED
    BY <1>1, <1>5, <1>6, <1>7, <1>8, QuietStep DEF graphVars

LEMMA ExecDoneSearch == ASSUME SearchInv, ExecDone PROVE SearchInv'
  <1>1. /\ phase = "exec" /\ work = <<>> /\ exec_list = {} /\ phase' = "idle"
        /\ UNCHANGED <<graphVars, status, searchVars, asyncVars, resultVars, entry,
                       jobVars, bodyVars, imports>>
    BY DEF ExecDone
  <1>2. PlaceTypes'
    BY <1>1 DEF SearchInv, Typed, PlaceTypes
  <1>3. Typed'
    BY <1>1, <1>2, GroupsKept DEF SearchInv, Typed
  <1>4. frames = <<>>
    BY <1>1, NoSearch
  <1>5. Phases'
    BY <1>1, <1>4 DEF Phases, SearchInv, searchVars, jobVars
  <1> QED
    BY <1>1, <1>3, <1>4, <1>5, QuietStep DEF graphVars

LEMMA RejectedSearch == ASSUME SearchInv, Rejected PROVE SearchInv'
  <1>1. /\ phase = "idle" /\ jobs # <<>>
        /\ jobs' = Tail(jobs) /\ work' = <<Head(jobs).m>> /\ phase' = "exec"
        /\ UNCHANGED <<graphVars, status, searchVars, asyncVars, resultVars, entry,
                       exec_list, bodyVars, imports>>
    BY DEF Rejected
  <1>2. PICK m \in Modules : m = Head(jobs).m
    BY <1>1, JobFacts DEF SearchInv, Typed
  <1>3. JobTypes'
    <2>1. work' \in Seq(Modules)
      BY <1>1, <1>2
    <2> QED
      BY <1>1, <2>1, JobFacts DEF SearchInv, Typed, JobTypes
  <1>4. PlaceTypes'
    BY <1>1 DEF SearchInv, Typed, PlaceTypes
  <1>5. Typed'
    BY <1>1, <1>3, <1>4, GroupsKept DEF SearchInv, Typed
  <1>6. frames = <<>>
    BY <1>1, NoSearch
  <1>7. Phases'
    BY <1>1, <1>6 DEF Phases, SearchInv, searchVars
  <1> QED
    BY <1>1, <1>5, <1>6, <1>7, QuietStep DEF graphVars

LEMMA RejectSearch == ASSUME SearchInv, Reject PROVE SearchInv'
  <1>1. PICK m : m = Head(work)
    OBVIOUS
  <1>2. /\ phase = "exec" /\ work # <<>> /\ phase' = phase
        /\ UNCHANGED <<graphVars, searchVars, asyncVars, cycle_root, entry,
                       exec_list, jobs, bodyVars, imports>>
        /\ status[m] = "evaluated" =>
              work' = Tail(work) /\ UNCHANGED <<status, eval_has_exception, promise>>
        /\ status[m] # "evaluated" =>
              /\ eval_has_exception' = [eval_has_exception EXCEPT ![m] = TRUE]
              /\ status' = [status EXCEPT ![m] = "evaluated"]
              /\ promise' = [promise EXCEPT ![m] = IF @ = "none" THEN @ ELSE "rejected"]
              /\ work' = Blamed(m) \o Tail(work)
    BY <1>1 DEF Reject
  <1>3. m \in Modules /\ Tail(work) \in Seq(Modules) /\ Blamed(m) \in Seq(Modules)
    BY <1>1, <1>2 DEF SearchInv, Typed, JobTypes, AsyncTypes, Blamed
  <1>4. JobTypes'
    <2>1. work' \in Seq(Modules)
      <3>1. Blamed(m) \o Tail(work) \in Seq(Modules)
        BY <1>3
      <3>2. CASE status[m] = "evaluated"
        BY <1>2, <1>3, <3>2
      <3>3. CASE status[m] # "evaluated"
        BY <1>2, <3>1, <3>3
      <3> QED
        BY <3>2, <3>3
    <2> QED
      BY <1>2, <2>1 DEF SearchInv, Typed, JobTypes
  <1>5. ResultTypes'
    <2>1. CASE status[m] = "evaluated"
      BY <1>2, <2>1, GroupsKept DEF SearchInv, Typed, resultVars
    <2>2. CASE status[m] # "evaluated"
      <3>1. promise' \in [Modules -> {"none", "pending", "fulfilled", "rejected"}]
        BY <1>2, <2>2 DEF ResultTypes, SearchInv, Typed
      <3>2. eval_has_exception' \in [Modules -> BOOLEAN]
        BY <1>2, <2>2 DEF ResultTypes, SearchInv, Typed
      <3> QED
        BY <1>2, <3>1, <3>2 DEF ResultTypes, SearchInv, Typed
    <2> QED
      BY <2>1, <2>2
  <1>6. StatusTypes' /\ \A x \in Modules : status'[x] = status[x] \/ status'[x] = "evaluated"
    BY <1>2 DEF StatusTypes, SearchInv, Typed, Statuses
  <1>7. Typed'
    BY <1>2, <1>4, <1>5, <1>6, GroupsKept DEF SearchInv, Typed, PlaceTypes
  <1>8. frames = <<>>
    BY <1>2, NoSearch
  <1>9. Phases'
    BY <1>2, <1>8 DEF Phases, SearchInv, searchVars
  <1> QED
    BY <1>2, <1>6, <1>7, <1>8, <1>9, QuietStep DEF graphVars

LEMMA UnchangedSearch == ASSUME SearchInv, UNCHANGED vars PROVE SearchInv'
  <1>1. UNCHANGED <<graphVars, status, searchVars, asyncVars, resultVars, phase, entry,
                    jobVars, bodyVars, imports>>
    BY DEF vars
  <1>2. Typed'
    BY <1>1, GroupsKept DEF SearchInv, Typed
  <1>3. Shape' /\ OnStack' = OnStack
    BY <1>1, SameShape DEF SearchInv, Typed, graphVars
  <1>4. Phases'
    BY <1>1 DEF Phases, SearchInv, searchVars, jobVars
  <1>5. Kinds'
    BY <1>1, <1>3 DEF Kinds, SearchInv
  <1> QED
    BY <1>2, <1>3, <1>4, <1>5 DEF SearchInv

LEMMA InitSearch == Init => SearchInv
  <1> SUFFICES ASSUME Init PROVE SearchInv
    OBVIOUS
  <1>1. /\ req \in [Modules -> Seq(Modules)] /\ MaxImports \in Nat
    BY Constants DEF Init
  <1>2. Typed
    <2>1. GraphTypes /\ StatusTypes
      BY <1>1 DEF Init, GraphTypes, StatusTypes, Statuses
    <2>2. SearchTypes
      BY DEF Init, SearchTypes
    <2>3. AsyncTypes
      BY DEF Init, AsyncTypes
    <2>4. ResultTypes
      BY DEF Init, ResultTypes
    <2>5. PlaceTypes
      BY <1>1 DEF Init, PlaceTypes
    <2>6. JobTypes /\ BodyTypes
      BY DEF Init, JobTypes, BodyTypes
    <2> QED
      BY <2>1, <2>2, <2>3, <2>4, <2>5, <2>6 DEF Typed
  <1>3. frames = <<>> /\ stack = <<>> /\ index = 0 /\ OnStack = {} /\ DOMAIN frames = {} /\ DOMAIN stack = {}
    BY DEF Init, OnStack, ToSet
  <1>4. Shape
    BY <1>3 DEF Shape, Rooted, Ordered, Nested
  <1>5. Phases
    BY <1>3 DEF Init, Phases
  <1>6. Kinds
    BY <1>3 DEF Init, Kinds
  <1> QED
    BY <1>2, <1>4, <1>5, <1>6 DEF SearchInv

LEMMA StepSearch == SearchInv /\ [Next]_vars => SearchInv'
  <1> SUFFICES ASSUME SearchInv, [Next]_vars PROVE SearchInv'
    OBVIOUS
  <1>1. CASE \E m \in Modules : Import(m)
    BY <1>1, ImportSearch
  <1>2. CASE Link
    BY <1>2, LinkEnterSearch, LinkVisitedSearch, LinkDoneSearch, LinkFailSearch DEF Link
  <1>3. CASE Evaluate
    BY <1>3, EvaluateAgainSearch, EvaluateKnownSearch, EvaluateNewSearch, InnerEnterSearch,
       InnerVisitedSearch, InnerFailSearch, InnerDoneSearch, InnerThrowsSearch DEF Evaluate
  <1>4. CASE React
    BY <1>4, LateReactionSearch, FulfilledSearch, GatherSearch, GatherDoneSearch,
       ExecSkipSearch, ExecAsyncSearch, ExecSyncSearch, ExecDoneSearch, RejectedSearch,
       RejectSearch DEF React
  <1>5. CASE \E m \in Modules, ok \in BOOLEAN : BodySettles(m, ok)
    BY <1>5, BodySettlesSearch
  <1>6. CASE Rest
    BY <1>6, UnchangedSearch DEF Rest
  <1>7. CASE UNCHANGED vars
    BY <1>7, UnchangedSearch
  <1> QED
    BY <1>1, <1>2, <1>3, <1>4, <1>5, <1>6, <1>7 DEF Next

\* The invariant of the searches holds in every reachable state.
THEOREM SearchInvariant == Spec => []SearchInv
  BY InitSearch, StepSearch, PTL DEF Spec

LEMMA SearchedStack == SearchInv => SearchIsStack
  <1> SUFFICES ASSUME SearchInv PROVE SearchIsStack
    OBVIOUS
  <1>1. {m \in Modules : status[m] \in {"linking", "evaluating"}} = ToSet(stack)
    <2>1. ToSet(stack) \subseteq Modules
      BY DEF SearchInv, Typed, SearchTypes, ToSet
    <2> QED
      BY <2>1 DEF SearchInv, Kinds, OnStack
  <1>2. phase \in {"idle", "gather", "exec"} => stack = <<>>
    BY NoSearch
  <1> QED
    BY <1>1, <1>2 DEF SearchIsStack

\* The stack is what is in the middle of a search, and there is none between two jobs.
THEOREM StackIsSearch == Spec => []SearchIsStack
  BY SearchedStack, SearchInvariant, PTL

(***************************************************************************)
(* The invariant of asynchronous evaluation.                               *)
(***************************************************************************)
Pre   == {"unlinked", "linking", "linked"}
Going == {"evaluating", "evaluating_async"}

\* Every evaluated module has a root, which is its own root.
Roots ==
    \A m \in Modules : status[m] \in Finished =>
        /\ cycle_root[m] \in Modules /\ status[cycle_root[m]] \in Finished
        /\ cycle_root[cycle_root[m]] = cycle_root[m]

\* The modules that still count at their parents: completed but not gathered, under
\* evaluation, except those that will run at once, whose parents were counted down
\* together with them.
Owing(d) ==
    \/ phase = "gather" /\ d \in ToSet(work)
    \/ status[d] \in Going /\ (d \in has_tla \/ (body[d] = "none" /\ d \notin exec_list))

OwingSet == {d \in Modules : Owing(d)}

\* The entries for p in the lists of the modules of D.
EdgesTo(D, parents, p) ==
    {e \in D \X Nat : e[2] \in DOMAIN parents[e[1]] /\ parents[e[1]][e[2]] = p}

Owed(p) == EdgesTo(OwingSet, async_parent_modules, p)
Free(p) == \A d \in Modules : Owing(d) => p \notin ToSet(async_parent_modules[d])

\* The modules whose requesters cannot have run.
Blocks(d) == status[d] \in Going \/ (phase = "gather" /\ d \in ToSet(work))

\* What is not evaluated yet, or only entered, has not run and nobody waits for it.
Fresh ==
    \A m \in Modules : status[m] \in Pre \/ m \in Framed =>
        ~async_evaluation[m] /\ async_parent_modules[m] = <<>> /\ body[m] = "none"

\* What has failed is evaluated, and failed by a reaction or with its root.
FailedOnly ==
    \A m \in Modules : eval_has_exception[m] =>
        /\ status[m] = "evaluated"
        /\ async_evaluation[m] \/ eval_has_exception[cycle_root[m]]

\* A failure has reached those that waited, or is about to.
Spread ==
    \A m \in Modules : eval_has_exception[m] =>
        \A q \in ToSet(async_parent_modules[m]) :
            eval_has_exception[q] \/ (phase = "exec" /\ q \in ToSet(work))

\* Who waits is being evaluated or was, for an asynchronous evaluation.
Asked ==
    \A d \in Modules : \A q \in ToSet(async_parent_modules[d]) :
        /\ async_evaluation[d] \/ status[d] = "evaluated"
        /\ q \in Modules /\ status[q] \notin Pre

\* Who waits for a module on the stack is on the stack, in no smaller component.
StackParents ==
    \A d \in Modules : \A q \in ToSet(async_parent_modules[d]) :
        status[d] = "evaluating" =>
            status[q] = "evaluating" /\ dfs_ancestor_index[q] <= dfs_index[d]

\* Who waits has not run.
Waiting ==
    \A d \in Modules : \A q \in ToSet(async_parent_modules[d]) :
        Blocks(d) => body[q] = "none" /\ (status[q] \in Going \/ eval_has_exception[q])

\* Who waits entered the asynchronous evaluation later.
InOrder ==
    \A d \in Modules : \A q \in ToSet(async_parent_modules[d]) :
        Blocks(d) => timestamp[d] < timestamp[q] \/ q \in Framed \/ eval_has_exception[q]

\* What ran, and once.
Runs == /\ RunOnce
        /\ \A m \in Modules : body[m] # "none" <=> m \in ToSet(started)

\* How far the function of a module can have got.
Bodies ==
    \A m \in Modules :
        /\ body[m] = "awaiting" => m \in has_tla
        /\ status[m] = "evaluating_async" => async_evaluation[m]
        /\ status[m] = "evaluating" /\ m \notin Framed /\ ~async_evaluation[m]
              => body[m] = "returned"
        /\ async_evaluation[m] /\ m \notin has_tla /\ status[m] \in Going
              => body[m] = "none" \/ (phase = "exec" /\ m \in ToSet(work) /\ body[m] = "threw")
        /\ status[m] = "evaluated" /\ ~eval_has_exception[m] => body[m] = "returned"

\* Timestamps are given once.
Stamps ==
    /\ \A m \in Modules : async_evaluation[m] => timestamp[m] < next_timestamp
    /\ \A m, n \in Modules : async_evaluation[m] /\ async_evaluation[n] /\ m # n
                                => timestamp[m] # timestamp[n]

\* What is listed waits for nothing, and has not run.
Listed ==
    \A m \in exec_list :
        /\ body[m] = "none" /\ async_evaluation[m] /\ Free(m)
        /\ status[m] = "evaluating_async" \/ eval_has_exception[m]

\* Nobody waits for fewer modules than are still to be counted down.
Counted ==
    \A p \in Modules :
        /\ IsFiniteSet(Owed(p))
        /\ pending_async_dependencies[p] >= Cardinality(Owed(p))

\* A reaction is for a function that has ended as it says.
Ended ==
    \A k \in DOMAIN jobs :
        /\ jobs[k].m \in has_tla
        /\ body[jobs[k].m] = IF jobs[k].ok THEN "returned" ELSE "threw"

\* What is visited by gather_available_ancestors, and by the rejection.
Worked ==
    /\ phase = "gather" =>
          /\ IsInjective(work)
          /\ \A m \in ToSet(work) :
                /\ \/ m \in exec_list /\ m \notin has_tla
                   \/ status[m] = "evaluated" /\ body[m] = "returned"
                /\ ~eval_has_exception[m]
    /\ phase = "exec" =>
          \A m \in ToSet(work) : status[m] = "evaluating_async" \/ eval_has_exception[m]

\* q requested x, and the search went through q to x: what closes the component of x
\* comes after q, and q waits for x if x can be waited for.
Parent(x, q) ==
    /\ dfs_index[q] < dfs_index[x] /\ dfs_ancestor_index[q] <= dfs_ancestor_index[x]
    /\ \A f \in Framed : dfs_index[f] < dfs_index[x] => dfs_index[f] <= dfs_index[q]
    /\ async_evaluation[x] => q \in ToSet(async_parent_modules[x])

\* What has been left and is still on the stack has such a requester, or is the
\* request that the module on top is at.
Hanging ==
    phase = "inner" =>
        \A x \in OnStack \ Framed :
            \/ ~AtEnd /\ Request = x /\ dfs_index[Top.m] < dfs_index[x]
            \/ \E q \in OnStack : Parent(x, q)

\* In a component everybody who can be waited for is waited for, towards the root.
Chained ==
    \A p \in Modules :
        status[p] \in Finished /\ async_evaluation[p] /\ cycle_root[p] # p =>
            \/ eval_has_exception[cycle_root[p]]
            \/ \E q \in ToSet(async_parent_modules[p]) :
                  /\ cycle_root[q] = cycle_root[p] /\ status[q] \in Finished
                  /\ dfs_index[q] < dfs_index[p]

AsyncInv ==
    /\ Roots /\ Fresh /\ FailedOnly /\ Spread /\ Asked /\ StackParents /\ Waiting /\ InOrder
    /\ Runs /\ Bodies /\ Stamps /\ Listed /\ Counted /\ Ended /\ Worked /\ Hanging /\ Chained

(***************************************************************************)
(* Counting the entries for a module.                                      *)
(***************************************************************************)
LEMMA EdgesFewer ==
    ASSUME NEW D, NEW E, D \subseteq E, NEW f, NEW p, IsFiniteSet(EdgesTo(E, f, p))
    PROVE  /\ IsFiniteSet(EdgesTo(D, f, p))
           /\ Cardinality(EdgesTo(D, f, p)) <= Cardinality(EdgesTo(E, f, p))
           /\ Cardinality(EdgesTo(D, f, p)) \in Nat /\ Cardinality(EdgesTo(E, f, p)) \in Nat
  <1>1. EdgesTo(D, f, p) \in SUBSET EdgesTo(E, f, p)
    BY DEF EdgesTo
  <1>2. IsFiniteSet(EdgesTo(D, f, p)) /\ Cardinality(EdgesTo(D, f, p)) <= Cardinality(EdgesTo(E, f, p))
    BY <1>1, FS_Subset
  <1> QED
    BY <1>2, FS_CardinalityType

\* A list with one entry more.
LEMMA EdgesAppended ==
    ASSUME NEW D \in SUBSET Modules, NEW f \in [Modules -> Seq(Modules)], NEW p,
           NEW d \in Modules, NEW q \in Modules, IsFiniteSet(EdgesTo(D, f, p)),
           NEW g, g[d] = Append(f[d], q), \A x \in Modules \ {d} : g[x] = f[x]
    PROVE  /\ IsFiniteSet(EdgesTo(D, g, p))
           /\ p # q => Cardinality(EdgesTo(D, g, p)) <= Cardinality(EdgesTo(D, f, p))
           /\ Cardinality(EdgesTo(D, g, p)) \in Nat /\ Cardinality(EdgesTo(D, f, p)) \in Nat
           /\ Cardinality(EdgesTo(D, g, p)) <= Cardinality(EdgesTo(D, f, p)) + 1
  <1> DEFINE n == Len(f[d]) + 1
             A == EdgesTo(D, f, p)
             B == EdgesTo(D, g, p)
  <1>1. f[d] \in Seq(Modules) /\ Len(f[d]) \in Nat /\ DOMAIN f[d] = 1 .. Len(f[d])
    OBVIOUS
  <1>2. /\ DOMAIN g[d] = 1 .. n /\ \A i \in 1 .. n : g[d][i] = IF i = n THEN q ELSE f[d][i]
        /\ \A x \in Modules \ {d} : g[x] = f[x]
    <2>1. g[d] = Append(f[d], q) /\ \A x \in Modules \ {d} : g[x] = f[x]
      OBVIOUS
    <2>2. /\ DOMAIN Append(f[d], q) = 1 .. n
          /\ \A i \in DOMAIN Append(f[d], q) : Append(f[d], q)[i] = IF i = n THEN q ELSE f[d][i]
      BY <1>1, AppendFacts
    <2> QED
      BY <2>1, <2>2
  <1>3. B \subseteq A \union {<<d, n>>} /\ (p # q => B \subseteq A) /\ A \subseteq B
    <2>1. ASSUME NEW e \in B, e # <<d, n>> \/ p # q PROVE e \in A
      <3>1. /\ e \in D \X Nat /\ e[1] \in D /\ e[2] \in Nat
            /\ e[2] \in DOMAIN g[e[1]] /\ g[e[1]][e[2]] = p /\ e = <<e[1], e[2]>>
        BY DEF EdgesTo
      <3>2. CASE e[1] = d
        <4>1. e[2] \in 1 .. n /\ g[d][e[2]] = p
          BY <1>2, <3>1, <3>2
        <4>2. e[2] # n
          BY <1>2, <2>1, <3>1, <3>2, <4>1
        <4>3. e[2] \in 1 .. Len(f[d]) /\ g[d][e[2]] = f[d][e[2]]
          BY <1>1, <1>2, <4>1, <4>2
        <4> QED
          BY <1>1, <3>1, <3>2, <4>1, <4>3 DEF EdgesTo
      <3>3. CASE e[1] # d
        BY <1>2, <3>1, <3>3 DEF EdgesTo
      <3> QED
        BY <3>2, <3>3
    <2>2. ASSUME NEW e \in A PROVE e \in B
      <3>1. /\ e \in D \X Nat /\ e[1] \in D /\ e[2] \in Nat
            /\ e[2] \in DOMAIN f[e[1]] /\ f[e[1]][e[2]] = p
        BY DEF EdgesTo
      <3>2. CASE e[1] = d
        <4>1. e[2] \in 1 .. n /\ e[2] # n /\ f[d][e[2]] = p
          BY <1>1, <3>1, <3>2
        <4>2. g[d][e[2]] = p /\ e[2] \in DOMAIN g[d]
          BY <1>2, <4>1
        <4> QED
          BY <3>1, <3>2, <4>2 DEF EdgesTo
      <3>3. CASE e[1] # d
        BY <1>2, <3>1, <3>3 DEF EdgesTo
      <3> QED
        BY <3>2, <3>3
    <2> QED
      BY <2>1, <2>2
  <1> HIDE DEF A, B
  <1>4. IsFiniteSet(A) /\ Cardinality(A) \in Nat
    BY FS_CardinalityType DEF A
  <1>5. /\ IsFiniteSet(A \union {<<d, n>>})
        /\ Cardinality(A \union {<<d, n>>}) = IF <<d, n>> \in A THEN Cardinality(A) ELSE Cardinality(A) + 1
    BY <1>4, FS_AddElement
  <1>6. B \in SUBSET (A \union {<<d, n>>})
    BY <1>3
  <1>7. IsFiniteSet(B) /\ Cardinality(B) <= Cardinality(A \union {<<d, n>>})
    BY <1>5, <1>6, FS_Subset
  <1>8. Cardinality(B) \in Nat
    BY <1>7, FS_CardinalityType
  <1>9. Cardinality(B) <= Cardinality(A) + 1
    BY <1>4, <1>5, <1>7, <1>8
  <1>10. p # q => B = A
    BY <1>3
  <1> QED
    BY <1>4, <1>7, <1>8, <1>9, <1>10 DEF A, B

\* Without the entries of one of the modules.
LEMMA EdgesRemoved ==
    ASSUME NEW D \in SUBSET Modules, NEW f \in [Modules -> Seq(Modules)], NEW p,
           NEW d \in D, IsFiniteSet(EdgesTo(D, f, p))
    PROVE  /\ IsFiniteSet(EdgesTo(D \ {d}, f, p))
           /\ Cardinality(EdgesTo(D, f, p)) \in Nat /\ Cardinality(EdgesTo(D \ {d}, f, p)) \in Nat
           /\ Cardinality(EdgesTo(D \ {d}, f, p)) <= Cardinality(EdgesTo(D, f, p)) - Occurs(p, f[d])
  <1> DEFINE A == EdgesTo(D, f, p)
             B == EdgesTo(D \ {d}, f, p)
             K == {k \in DOMAIN f[d] : f[d][k] = p}
             C == EdgesTo({d}, f, p)
  <1>1. f[d] \in Seq(Modules) /\ DOMAIN f[d] = 1 .. Len(f[d]) /\ Len(f[d]) \in Nat
    OBVIOUS
  <1>2. IsFiniteSet(K) /\ Occurs(p, f[d]) = Cardinality(K) /\ Cardinality(K) \in Nat
    BY <1>1, OccursFacts, FS_CardinalityType DEF Occurs
  <1>3. C = {<<d, k>> : k \in K}
    <2>1. ASSUME NEW e \in C PROVE e \in {<<d, k>> : k \in K}
      <3>1. e \in {d} \X Nat /\ e[1] = d /\ e[2] \in DOMAIN f[e[1]] /\ f[e[1]][e[2]] = p /\ e = <<e[1], e[2]>>
        BY DEF EdgesTo
      <3> QED
        BY <3>1
    <2>2. ASSUME NEW k \in K PROVE <<d, k>> \in C
      <3>1. k \in Nat /\ k \in DOMAIN f[d] /\ f[d][k] = p
        BY <1>1
      <3> QED
        BY <3>1 DEF EdgesTo
    <2> QED
      BY <2>1, <2>2
  <1>4. A = B \union C /\ B \intersect C = {} /\ B \subseteq A
    <2>1. ASSUME NEW e \in A PROVE e \in B \union C
      <3>1. e \in D \X Nat /\ e[1] \in D /\ e[2] \in Nat /\ e = <<e[1], e[2]>>
            /\ e[2] \in DOMAIN f[e[1]] /\ f[e[1]][e[2]] = p
        BY DEF EdgesTo
      <3>2. CASE e[1] = d
        BY <3>1, <3>2 DEF EdgesTo
      <3>3. CASE e[1] # d
        BY <3>1, <3>3 DEF EdgesTo
      <3> QED
        BY <3>2, <3>3
    <2>2. B \subseteq A /\ C \subseteq A
      BY DEF EdgesTo
    <2>3. B \intersect C = {}
      BY DEF EdgesTo
    <2> QED
      BY <2>1, <2>2, <2>3
  <1> HIDE DEF A, B, C, K
  <1>5. IsFiniteSet(A) /\ Cardinality(A) \in Nat
    BY FS_CardinalityType DEF A
  <1>6. IsFiniteSet(B) /\ Cardinality(B) \in Nat /\ IsFiniteSet(C)
    <2>1. B \in SUBSET A /\ C \in SUBSET A
      BY <1>4
    <2> QED
      BY <1>5, <2>1, FS_Subset, FS_CardinalityType
  <1>7. Cardinality(A) = Cardinality(B) + Cardinality(C)
    <2>1. Cardinality(B \union C) = Cardinality(B) + Cardinality(C) - Cardinality(B \intersect C)
      BY <1>6, FS_Union
    <2>2. Cardinality(B \intersect C) = 0
      BY <1>4, FS_EmptySet
    <2>3. Cardinality(C) \in Nat
      BY <1>6, FS_CardinalityType
    <2> QED
      BY <1>4, <1>6, <2>1, <2>2, <2>3
  <1>8. Cardinality(C) = Cardinality(K)
    <2> DEFINE h == [k \in K |-> <<d, k>>]
    <2>1. h \in Bijection(K, C)
      <3>1. h \in [K -> C] /\ (\A i, j \in K : h[i] = h[j] => i = j) /\ \A e \in C : \E k \in K : h[k] = e
        BY <1>3
      <3> HIDE DEF h
      <3> QED
        BY <3>1 DEF Bijection, Injection, Surjection, IsInjective
    <2>2. ExistsBijection(K, C)
      BY <2>1 DEF ExistsBijection
    <2> QED
      BY <1>2, <2>2, FS_Bijection
  <1>9. Cardinality(B) <= Cardinality(A) - Cardinality(K)
    BY <1>2, <1>5, <1>6, <1>7, <1>8
  <1> QED
    BY <1>2, <1>5, <1>6, <1>9 DEF A, B

\* A module that waits for nothing is nobody's requester.
LEMMA NoEdges ==
    ASSUME NEW D \in SUBSET Modules, NEW f \in [Modules -> Seq(Modules)], NEW p
    PROVE  EdgesTo(D, f, p) = {} <=> \A d \in D : p \notin ToSet(f[d])
  <1>1. ASSUME NEW d \in D, p \in ToSet(f[d]) PROVE EdgesTo(D, f, p) # {}
    <2>1. PICK k \in DOMAIN f[d] : f[d][k] = p
      BY <1>1 DEF ToSet
    <2>2. f[d] \in Seq(Modules)
      OBVIOUS
    <2>3. k \in Nat
      BY <2>1, <2>2
    <2>4. <<d, k>> \in EdgesTo(D, f, p)
      BY <2>1, <2>3 DEF EdgesTo
    <2> QED
      BY <2>4
  <1>2. ASSUME NEW e \in EdgesTo(D, f, p) PROVE \E d \in D : p \in ToSet(f[d])
    <2>1. e \in D \X Nat /\ e[1] \in D /\ e[2] \in DOMAIN f[e[1]] /\ f[e[1]][e[2]] = p
      BY DEF EdgesTo
    <2> QED
      BY <2>1 DEF ToSet
  <1> QED
    BY <1>1, <1>2
(***************************************************************************)
(* What follows from the invariant.                                        *)
(***************************************************************************)
\* Who is on the stack, and when.
Searched ==
    /\ OnStack \subseteq Modules /\ Framed \subseteq OnStack
    /\ phase = "link" => \A m \in OnStack : status[m] = "linking"
    /\ phase = "inner" => \A m \in OnStack : status[m] = "evaluating"
    /\ phase \notin {"link", "inner"} => OnStack = {} /\ Framed = {}
    /\ \A m \in Modules : status[m] \in {"linking", "evaluating"} => m \in OnStack

LEMMA StackFacts == SearchInv => Searched
  <1> SUFFICES ASSUME SearchInv PROVE Searched
    OBVIOUS
  <1>1. OnStack \subseteq Modules
    BY ListElements DEF SearchInv, Typed, SearchTypes, OnStack
  <1>2. Framed \subseteq OnStack
    BY DEF SearchInv, Shape, Ordered, Framed
  <1> QED
    BY <1>1, <1>2, NoSearch DEF SearchInv, Kinds, Searched

LEMMA NextStackFacts == ASSUME SearchInv' PROVE Searched'
  <1>1. (SearchInv => Searched)'
    BY StackFacts, PTL
  <1> QED
    BY <1>1

\* A step of linking, or of an evaluation that does not begin, touches nothing that
\* asynchronous evaluation is about.
LEMMA LinkStep ==
    ASSUME SearchInv, SearchInv', AsyncInv,
           phase \in {"idle", "link", "evaluate"}, phase' \in {"idle", "link", "evaluate"},
           UNCHANGED <<has_tla, asyncVars, cycle_root, eval_has_exception, jobVars, body, started>>,
           \A m \in Modules : /\ status[m] \in Pre <=> status'[m] \in Pre
                              /\ status[m] \notin Pre => status'[m] = status[m]
                                                         /\ dfs_index'[m] = dfs_index[m]
    PROVE  AsyncInv'
  <1>1. /\ UNCHANGED <<pending_async_dependencies, async_evaluation, timestamp,
                       async_parent_modules, next_timestamp, work, exec_list, jobs>>
        /\ phase \notin {"inner", "gather", "exec"} /\ phase' \notin {"inner", "gather", "exec"}
    BY DEF asyncVars, jobVars
  <1>2. /\ \A m \in Modules : status[m] # "evaluating" /\ status'[m] # "evaluating"
        /\ \A m \in Framed' : m \in Modules /\ status[m] \in Pre
        /\ \A m \in Framed : m \in Modules /\ status[m] \in Pre
    <2>1. Searched /\ Searched'
      BY StackFacts, NextStackFacts
    <2> QED
      BY <1>1, <2>1 DEF Pre, Searched
  <1>3. AsyncTypes
    BY DEF SearchInv, Typed
  <1>4. \A m \in Modules : status'[m] = status[m] \/ (status[m] \in Pre /\ status'[m] \in Pre)
    OBVIOUS
  <1>5. Roots'
    <2>1. \A m \in Modules : status'[m] \in Finished => status[m] = status'[m]
      BY <1>4 DEF Finished, Pre
    <2>2. \A m \in Modules : status[m] \in Finished => status[m] = status'[m]
      BY <1>4 DEF Finished, Pre
    <2> QED
      BY <2>1, <2>2 DEF Roots, AsyncInv
  <1>6. Fresh'
    BY <1>1, <1>2, <1>4 DEF Fresh, AsyncInv
  <1>7. FailedOnly'
    BY <1>1, <1>4 DEF FailedOnly, AsyncInv, Pre
  <1>8. Spread'
    BY <1>1 DEF Spread, AsyncInv
  <1>9. Asked'
    BY <1>1, <1>4 DEF Asked, AsyncInv, Pre
  <1>10. StackParents'
    BY <1>2 DEF StackParents
  <1>11. \A d \in Modules : (Blocks(d)' => Blocks(d)) /\ (Owing(d)' <=> Owing(d))
    BY <1>1, <1>4 DEF Blocks, Owing, Going, Pre
  <1>12. Waiting'
    <2>1. \A m \in Modules : status[m] \in Going => status'[m] \in Going
      BY <1>4 DEF Going, Pre
    <2> QED
      BY <1>1, <1>11, <2>1 DEF Waiting, AsyncInv, Asked
  <1>13. InOrder'
    <2>1. \A d \in Modules : \A q \in ToSet(async_parent_modules[d]) : q \notin Framed
      BY <1>2 DEF Asked, AsyncInv
    <2> QED
      BY <1>1, <1>11, <2>1 DEF InOrder, AsyncInv
  <1>14. Runs'
    BY DEF Runs, RunOnce, AsyncInv
  <1>15. Bodies'
    <2>1. \A m \in Modules : status'[m] \in Going => status[m] = status'[m]
      BY <1>4 DEF Going, Pre
    <2>2. \A m \in Modules : status'[m] \notin Pre => status[m] = status'[m]
      BY <1>4
    <2> QED
      BY <1>1, <1>2, <2>1, <2>2 DEF Bodies, AsyncInv, Pre
  <1>16. Stamps'
    BY <1>1 DEF Stamps, AsyncInv
  <1>17. Listed'
    BY <1>1, <1>4, <1>11 DEF Listed, AsyncInv, Free, Pre, JobTypes, SearchInv, Typed
  <1>18. Counted'
    <2>1. OwingSet' = OwingSet
      BY <1>11 DEF OwingSet
    <2> QED
      BY <1>1, <2>1 DEF Counted, AsyncInv, Owed
  <1>19. Ended'
    BY <1>1 DEF Ended, AsyncInv
  <1>20. Worked'
    BY <1>1 DEF Worked
  <1>21. Hanging'
    BY <1>1 DEF Hanging
  <1>22. Chained'
    <2>1. \A m \in Modules : status'[m] \in Finished <=> status[m] \in Finished
      BY <1>4 DEF Finished, Pre
    <2>2. \A m \in Modules : status[m] \in Finished => dfs_index'[m] = dfs_index[m]
      BY DEF Finished, Pre
    <2> QED
      BY <1>1, <2>1, <2>2 DEF Chained, AsyncInv, Asked
  <1> QED
    BY <1>5, <1>6, <1>7, <1>8, <1>9, <1>10, <1>12, <1>13, <1>14, <1>15, <1>16, <1>17,
       <1>18, <1>19, <1>20, <1>21, <1>22 DEF AsyncInv

\* Linking, and evaluations that need not begin.
LEMMA ImportAsync == ASSUME SearchInv, SearchInv', AsyncInv, NEW m \in Modules, Import(m) PROVE AsyncInv'
  <1>1. /\ phase = "idle" /\ phase' \in {"link", "evaluate"}
        /\ UNCHANGED <<graphVars, asyncVars, resultVars, jobVars, bodyVars>>
    BY DEF Import
  <1>2. UNCHANGED <<has_tla, asyncVars, cycle_root, eval_has_exception, jobVars, body, started>>
    BY <1>1 DEF graphVars, resultVars, bodyVars
  <1>3. StatusTypes /\ SearchTypes
    BY DEF SearchInv, Typed
  <1>4. CASE status[m] = "unlinked"
    <2>1. Enter(m, "linking")
      BY <1>4 DEF Import
    <2>2. \A x \in Modules : x # m => status'[x] = status[x] /\ dfs_index'[x] = dfs_index[x]
      BY <1>3, <2>1 DEF Enter, StatusTypes, SearchTypes
    <2>3. status'[m] = "linking"
      BY <1>3, <2>1 DEF Enter, StatusTypes
    <2> QED
      BY <1>1, <1>2, <1>4, <2>2, <2>3, LinkStep DEF Pre
  <1>5. CASE status[m] # "unlinked"
    <2>1. status' = status /\ dfs_index' = dfs_index
      BY <1>5 DEF Import, searchVars
    <2> QED
      BY <1>1, <1>2, <2>1, LinkStep
  <1> QED
    BY <1>4, <1>5

LEMMA LinkAsync == ASSUME SearchInv, SearchInv', AsyncInv, Link PROVE AsyncInv'
  <1>1. /\ phase = "link" /\ frames # <<>> /\ phase' \in {"idle", "link", "evaluate"}
        /\ UNCHANGED <<graphVars, asyncVars, resultVars, jobVars, bodyVars>>
    BY DEF Link, LinkEnter, LinkVisited, LinkDone, LinkFail
  <1>2. UNCHANGED <<has_tla, asyncVars, cycle_root, eval_has_exception, jobVars, body, started>>
    BY <1>1 DEF graphVars, resultVars, bodyVars
  <1>3. StatusTypes /\ SearchTypes /\ GraphTypes /\ Shape
    BY DEF SearchInv, Typed
  <1>4. \A m \in OnStack : m \in Modules /\ status[m] = "linking"
    BY <1>1, StackFacts DEF Searched
  <1>5. CASE LinkEnter
    <2>1. ~AtEnd /\ status[Request] = "unlinked" /\ Enter(Request, "linking")
      BY <1>5 DEF LinkEnter
    <2>2. PICK r \in Modules : r = Request
      BY <1>1, <1>3, <2>1, TopFacts
    <2>3. \A x \in Modules : x # r => status'[x] = status[x] /\ dfs_index'[x] = dfs_index[x]
      BY <1>3, <2>1, <2>2 DEF Enter, StatusTypes, SearchTypes
    <2>4. status'[r] = "linking" /\ status[r] = "unlinked"
      BY <1>3, <2>1, <2>2 DEF Enter, StatusTypes
    <2> QED
      BY <1>1, <1>2, <2>3, <2>4, LinkStep DEF Pre
  <1>6. CASE LinkVisited
    <2>1. status' = status /\ dfs_index' = dfs_index
      BY <1>6 DEF LinkVisited
    <2> QED
      BY <1>1, <1>2, <2>1, LinkStep
  <1>7. CASE LinkDone
    <2>1. dfs_index' = dfs_index
      BY <1>7 DEF LinkDone
    <2>2. \A x \in Modules : status'[x] = status[x] \/ (x \in OnStack /\ status'[x] = "linked")
      <3>1. CASE IsRoot(Top.m)
        <4>1. status' = [m \in Modules |-> IF m \in Component(Top.m) THEN "linked" ELSE status[m]]
          BY <1>7, <3>1 DEF LinkDone
        <4>2. Top.m \in OnStack
          BY <1>1, <1>3, TopFacts DEF Shape, Ordered
        <4>3. Component(Top.m) \subseteq OnStack
          BY <1>3, <4>2, ComponentFacts DEF Shape
        <4> QED
          BY <4>1, <4>3
      <3>2. CASE ~IsRoot(Top.m)
        BY <1>7, <3>2 DEF LinkDone
      <3> QED
        BY <3>1, <3>2
    <2> QED
      BY <1>1, <1>2, <1>4, <2>1, <2>2, LinkStep DEF Pre
  <1>8. CASE LinkFail
    <2>1. dfs_index' = dfs_index
      BY <1>8 DEF LinkFail
    <2>2. \A x \in Modules : status'[x] = status[x] \/ (x \in OnStack /\ status'[x] = "unlinked")
      BY <1>8 DEF LinkFail, Unlinked, OnStack
    <2> QED
      BY <1>1, <1>2, <1>4, <2>1, <2>2, LinkStep DEF Pre
  <1> QED
    BY <1>5, <1>6, <1>7, <1>8 DEF Link

LEMMA EvaluateAgainAsync == ASSUME SearchInv, SearchInv', AsyncInv, EvaluateAgain PROVE AsyncInv'
  <1>1. /\ phase = "evaluate" /\ phase' = "idle" /\ status' = status /\ dfs_index' = dfs_index
        /\ UNCHANGED <<has_tla, asyncVars, cycle_root, eval_has_exception, jobVars, body, started>>
    BY DEF EvaluateAgain, graphVars, resultVars, bodyVars, searchVars
  <1> QED
    BY <1>1, LinkStep

LEMMA EvaluateKnownAsync == ASSUME SearchInv, SearchInv', AsyncInv, EvaluateKnown PROVE AsyncInv'
  <1>1. /\ phase = "evaluate" /\ phase' = "idle" /\ status' = status /\ dfs_index' = dfs_index
        /\ UNCHANGED <<has_tla, asyncVars, cycle_root, eval_has_exception, jobVars, body, started>>
    BY DEF EvaluateKnown, graphVars, resultVars, bodyVars, searchVars
  <1> QED
    BY <1>1, LinkStep

\* Entering a module of the search for evaluation: it is fresh.
LEMMA EnterStep ==
    ASSUME SearchInv, AsyncInv, NEW r \in Modules, status[r] = "linked",
           phase \in {"evaluate", "inner"}, phase' = "inner",
           status' = [status EXCEPT ![r] = "evaluating"],
           dfs_index' = [dfs_index EXCEPT ![r] = index],
           dfs_ancestor_index' = [dfs_ancestor_index EXCEPT ![r] = index],
           pending_async_dependencies' = [pending_async_dependencies EXCEPT ![r] = 0],
           Framed' = Framed \union {r}, Hanging',
           UNCHANGED <<has_tla, async_evaluation, timestamp, async_parent_modules, next_timestamp,
                       cycle_root, eval_has_exception, jobVars, body, started>>
    PROVE  AsyncInv'
  <1>1. StatusTypes /\ SearchTypes /\ AsyncTypes
    BY DEF SearchInv, Typed
  <1>2. /\ status'[r] = "evaluating" /\ pending_async_dependencies'[r] = 0
        /\ \A x \in Modules : x # r => /\ status'[x] = status[x] /\ dfs_index'[x] = dfs_index[x]
                                       /\ dfs_ancestor_index'[x] = dfs_ancestor_index[x]
                                       /\ pending_async_dependencies'[x] = pending_async_dependencies[x]
    BY <1>1 DEF StatusTypes, SearchTypes, AsyncTypes
  <1>3. UNCHANGED <<work, exec_list, jobs>> /\ exec_list = {}
    BY DEF jobVars, SearchInv, Phases
  <1>4. /\ async_parent_modules[r] = <<>> /\ ToSet(async_parent_modules[r]) = {}
        /\ ~async_evaluation[r] /\ body[r] = "none"
    <2>1. async_parent_modules[r] = <<>> /\ ~async_evaluation[r] /\ body[r] = "none"
      BY DEF AsyncInv, Fresh, Pre
    <2> QED
      BY <2>1 DEF ToSet
  <1>5. \A d \in Modules : \A q \in ToSet(async_parent_modules[d]) : q \in Modules /\ q # r
    BY DEF AsyncInv, Asked, Pre
  <1>6. Roots'
    <2>1. \A m \in Modules : status'[m] \in Finished <=> status[m] \in Finished
      BY <1>2 DEF Finished
    <2> QED
      BY <2>1 DEF Roots, AsyncInv
  <1>7. Fresh'
    BY <1>2, <1>4 DEF Fresh, AsyncInv, Pre
  <1>8. FailedOnly'
    BY <1>2 DEF FailedOnly, AsyncInv
  <1>9. Spread'
    BY DEF Spread, AsyncInv
  <1>10. Asked'
    BY <1>2, <1>5 DEF Asked, AsyncInv, Pre
  <1>11. StackParents'
    BY <1>2, <1>4, <1>5 DEF StackParents, AsyncInv
  <1>12. \A d \in Modules : d # r => (Blocks(d)' <=> Blocks(d)) /\ (Owing(d)' <=> Owing(d))
    BY <1>2, <1>3 DEF Blocks, Owing
  <1>13. Waiting'
    BY <1>2, <1>4, <1>5, <1>12 DEF Waiting, AsyncInv
  <1>14. InOrder'
    BY <1>4, <1>5, <1>12 DEF InOrder, AsyncInv
  <1>15. Runs'
    BY DEF Runs, RunOnce, AsyncInv
  <1>16. Bodies'
    BY <1>2, <1>3, <1>4 DEF Bodies, AsyncInv
  <1>17. Stamps'
    BY DEF Stamps, AsyncInv
  <1>18. Listed'
    BY <1>3 DEF Listed
  <1>19. Counted'
    <2> SUFFICES ASSUME NEW p \in Modules
                 PROVE  /\ IsFiniteSet(Owed(p)')
                        /\ pending_async_dependencies'[p] >= Cardinality(Owed(p)')
      BY DEF Counted
    <2>1. Owed(p)' = Owed(p)
      <3>1. DOMAIN async_parent_modules[r] = {}
        BY <1>4
      <3>2. /\ OwingSet \ {r} = OwingSet' \ {r}
        BY <1>12 DEF OwingSet
      <3> QED
        BY <3>1, <3>2 DEF Owed, EdgesTo
    <2>2. IsFiniteSet(Owed(p)) /\ pending_async_dependencies[p] >= Cardinality(Owed(p))
      BY DEF AsyncInv, Counted
    <2>3. CASE p # r
      BY <1>2, <2>1, <2>2, <2>3
    <2>4. CASE p = r
      <3>1. OwingSet \in SUBSET Modules
        BY DEF OwingSet
      <3>2. Owed(r) = {}
        BY <1>1, <1>5, <3>1, NoEdges DEF Owed, AsyncTypes
      <3>3. Cardinality(Owed(r)) = 0
        BY <3>2, FS_EmptySet
      <3> QED
        BY <1>2, <2>1, <2>2, <2>4, <3>3
    <2> QED
      BY <2>3, <2>4
  <1>20. Ended'
    BY <1>3 DEF Ended, AsyncInv
  <1>21. Worked'
    BY DEF Worked
  <1>22. Chained'
    <2>1. \A m \in Modules : status'[m] \in Finished <=> status[m] \in Finished
      BY <1>2 DEF Finished
    <2>2. status[r] \notin Finished
      BY DEF Finished
    <2> QED
      BY <1>2, <1>5, <2>1, <2>2 DEF Chained, AsyncInv
  <1> QED
    BY <1>6, <1>7, <1>8, <1>9, <1>10, <1>11, <1>13, <1>14, <1>15, <1>16, <1>17, <1>18,
       <1>19, <1>20, <1>21, <1>22 DEF AsyncInv

LEMMA EvaluateNewAsync == ASSUME SearchInv, AsyncInv, EvaluateNew PROVE AsyncInv'
  <1>1. /\ phase = "evaluate" /\ phase' = "inner" /\ status[entry] = "linked"
        /\ pending_async_dependencies' = [pending_async_dependencies EXCEPT ![entry] = 0]
        /\ UNCHANGED <<graphVars, async_evaluation, timestamp, async_parent_modules,
                       next_timestamp, cycle_root, eval_has_exception, jobVars, bodyVars>>
    BY DEF EvaluateNew
  <1>2. /\ entry \in Modules /\ OnStack' = {entry} /\ Framed' = {entry}
        /\ status' = [status EXCEPT ![entry] = "evaluating"]
        /\ dfs_index' = [dfs_index EXCEPT ![entry] = index]
        /\ dfs_ancestor_index' = [dfs_ancestor_index EXCEPT ![entry] = index]
    BY EvaluateNewSearch
  <1>3. Framed' = Framed \union {entry}
    BY <1>1, <1>2, NoSearch
  <1>4. Hanging'
    BY <1>2 DEF Hanging
  <1>5. UNCHANGED <<has_tla, body, started>>
    BY <1>1 DEF graphVars, bodyVars
  <1> QED
    BY <1>1, <1>2, <1>3, <1>4, <1>5, EnterStep

LEMMA InnerEnterAsync == ASSUME SearchInv, AsyncInv, InnerEnter PROVE AsyncInv'
  <1>1. /\ phase = "inner" /\ phase' = "inner" /\ ~AtEnd /\ status[Request] = "linked"
        /\ pending_async_dependencies' = [pending_async_dependencies EXCEPT ![Request] = 0]
        /\ UNCHANGED <<graphVars, async_evaluation, timestamp, async_parent_modules,
                       next_timestamp, resultVars, jobVars, bodyVars>>
    BY DEF InnerEnter
  <1>2. PICK r \in Modules : r = Request
    BY InnerEnterSearch
  <1>3. /\ r \notin OnStack /\ OnStack' = OnStack \union {r} /\ Framed' = Framed \union {r}
        /\ status' = [status EXCEPT ![r] = "evaluating"]
        /\ dfs_index' = [dfs_index EXCEPT ![r] = index]
        /\ dfs_ancestor_index' = [dfs_ancestor_index EXCEPT ![r] = index]
    BY <1>2, InnerEnterSearch
  <1>4. UNCHANGED <<has_tla, body, started, cycle_root, eval_has_exception>>
    BY <1>1 DEF graphVars, bodyVars, resultVars
  <1>5. Hanging'
    <2> SUFFICES ASSUME NEW x \in OnStack' \ Framed' PROVE \E q \in OnStack' : Parent(x, q)'
      BY DEF Hanging
    <2>1. x \in OnStack \ Framed /\ x # r
      BY <1>3
    <2>2. OnStack \subseteq Modules /\ Framed \subseteq OnStack
      BY StackFacts DEF Searched
    <2>3. PICK q \in OnStack : Parent(x, q)
      BY <1>1, <1>2, <1>3, <2>1 DEF AsyncInv, Hanging
    <2>4. /\ dfs_index'[r] = index /\ dfs_index[x] \in Nat /\ dfs_index[x] < index /\ index \in Nat
          /\ \A y \in OnStack : dfs_index'[y] = dfs_index[y] /\ dfs_ancestor_index'[y] = dfs_ancestor_index[y]
      BY <1>3, <2>1, <2>2 DEF SearchInv, Typed, SearchTypes, Shape, Ordered
    <2>5. ~(index < dfs_index[x])
      BY <2>4
    <2>6. Parent(x, q)'
      BY <1>1, <1>3, <2>1, <2>2, <2>3, <2>4, <2>5 DEF Parent
    <2> QED
      BY <1>3, <2>6
  <1> QED
    BY <1>1, <1>2, <1>3, <1>4, <1>5, EnterStep

\* The module on top was entered last.
LEMMA TopIsLast ==
    ASSUME SearchInv, frames # <<>>
    PROVE  Top.m \in Framed /\ \A f \in Framed : dfs_index[f] <= dfs_index[Top.m]
  <1>1. /\ Top = frames[1] /\ Len(frames) \in Nat \ {0} /\ DOMAIN frames = 1 .. Len(frames)
    BY TopFacts DEF SearchInv, Typed
  <1>2. Top.m \in Framed
    BY <1>1 DEF Framed
  <1>3. ASSUME NEW f \in Framed PROVE dfs_index[f] <= dfs_index[Top.m]
    <2>1. PICK k \in DOMAIN frames : f = frames[k].m
      BY DEF Framed
    <2>2. f \in Modules /\ dfs_index[f] \in Nat
      BY StackFacts DEF Searched, SearchInv, Typed, SearchTypes
    <2>3. CASE k = 1
      BY <1>1, <2>1, <2>2, <2>3
    <2>4. CASE k # 1
      <3>1. 1 \in DOMAIN frames /\ k \in DOMAIN frames /\ 1 < k
        BY <1>1, <2>1, <2>4
      <3>2. dfs_index[frames[k].m] < dfs_index[frames[1].m]
        BY <3>1 DEF SearchInv, Shape, Ordered
      <3>3. dfs_index[Top.m] \in Nat
        BY <1>2, StackFacts DEF Searched, SearchInv, Typed, SearchTypes
      <3> QED
        BY <1>1, <2>1, <2>2, <3>2, <3>3
    <2> QED
      BY <2>3, <2>4
  <1> QED
    BY <1>2, <1>3

LEMMA InnerVisitedAsync == ASSUME SearchInv, AsyncInv, InnerVisited PROVE AsyncInv'
  <1>1. /\ phase = "inner" /\ phase' = "inner" /\ ~AtEnd
        /\ status[Request] \in Finished \union {"evaluating"} /\ ~RequestFailed
        /\ UNCHANGED <<has_tla, status, dfs_index, async_evaluation, timestamp, next_timestamp,
                       cycle_root, eval_has_exception, work, exec_list, jobs, body, started>>
    BY DEF InnerVisited, graphVars, resultVars, jobVars
  <1>2. /\ StatusTypes /\ SearchTypes /\ AsyncTypes /\ ResultTypes /\ frames # <<>>
        /\ work = <<>> /\ exec_list = {}
    BY <1>1 DEF SearchInv, Typed, Phases
  <1>3. PICK r \in Modules : r = Request
    BY InnerVisitedSearch
  <1>4. PICK t \in Framed : t = Top.m
    BY <1>2, TopIsLast
  <1>5. /\ OnStack \subseteq Modules /\ Framed \subseteq OnStack
        /\ \A m \in OnStack : status[m] = "evaluating"
        /\ \A m \in Modules : status[m] = "evaluating" => m \in OnStack
        /\ \A f \in Framed : dfs_index[f] <= dfs_index[t]
    BY <1>1, <1>2, <1>4, StackFacts, TopIsLast DEF Searched
  <1>6. /\ OnStack' = OnStack /\ Framed' = Framed
        /\ \A x \in Modules : dfs_ancestor_index'[x] <= dfs_ancestor_index[x]
        /\ \A x \in Modules \ {t} : dfs_ancestor_index'[x] = dfs_ancestor_index[x]
        /\ status[r] = "evaluating" => dfs_ancestor_index'[t] <= dfs_ancestor_index[r]
        /\ dfs_ancestor_index' \in [Modules -> Nat]
    BY <1>3, <1>4, InnerVisitedSearch DEF SearchInv, Typed, SearchTypes
  <1>7. \E w \in Modules : /\ w = Awaited /\ ~eval_has_exception[w]
                           /\ status[w] = "evaluating" => w = r
                           /\ status[r] = "evaluating" => w = r
    <2>1. CASE status[r] = "evaluating"
      BY <1>3, <2>1 DEF Awaited, AsyncInv, FailedOnly
    <2>2. CASE status[r] \in Finished
      <3>1. Awaited = cycle_root[r] /\ ~eval_has_exception[Awaited]
        BY <1>1, <1>3, <2>2 DEF Awaited, RequestFailed, Finished
      <3>2. cycle_root[r] \in Modules /\ status[cycle_root[r]] \in Finished
        BY <2>2 DEF AsyncInv, Roots
      <3> QED
        BY <2>2, <3>1, <3>2 DEF Finished
    <2> QED
      BY <1>1, <1>3, <2>1, <2>2
  <1>8. PICK w \in Modules : /\ w = Awaited /\ ~eval_has_exception[w]
                             /\ status[w] = "evaluating" => w = r
                             /\ status[r] = "evaluating" => w = r
    BY <1>7
  <1>9. /\ t \in Modules /\ ~async_evaluation[t] /\ body[t] = "none" /\ status[t] = "evaluating"
    BY <1>5 DEF AsyncInv, Fresh
  <1>10. /\ async_parent_modules' \in [Modules -> Seq(Modules)]
         /\ \A d \in Modules : ToSet(async_parent_modules[d]) \subseteq ToSet(async_parent_modules'[d])
         /\ \A d \in Modules : \A q \in ToSet(async_parent_modules'[d]) :
               q \in ToSet(async_parent_modules[d]) \/ (async_evaluation[d] /\ d = w /\ q = t)
         /\ async_evaluation[w] => t \in ToSet(async_parent_modules'[w])
         /\ \A d \in Modules : ~async_evaluation[d] => async_parent_modules'[d] = async_parent_modules[d]
    <2>1. CASE async_evaluation[w]
      <3>1. async_parent_modules' = [async_parent_modules EXCEPT ![w] = Append(@, t)]
        BY <1>4, <1>8, <2>1 DEF InnerVisited, IsWaitedFor
      <3>2. async_parent_modules[w] \in Seq(Modules)
        BY <1>2 DEF AsyncTypes
      <3>3. /\ Append(async_parent_modules[w], t) \in Seq(Modules)
            /\ ToSet(Append(async_parent_modules[w], t)) = ToSet(async_parent_modules[w]) \union {t}
        BY <1>9, <3>2, AppendFacts, ListElements
      <3>4. /\ async_parent_modules'[w] = Append(async_parent_modules[w], t)
            /\ \A d \in Modules : d # w => async_parent_modules'[d] = async_parent_modules[d]
        BY <1>2, <3>1 DEF AsyncTypes
      <3>5. async_parent_modules' \in [Modules -> Seq(Modules)]
        BY <1>2, <3>1, <3>3 DEF AsyncTypes
      <3> QED
        BY <2>1, <3>3, <3>4, <3>5
    <2>2. CASE ~async_evaluation[w]
      <3>1. async_parent_modules' = async_parent_modules
        BY <1>8, <2>2 DEF InnerVisited, IsWaitedFor
      <3> QED
        BY <1>2, <2>2, <3>1 DEF AsyncTypes
    <2> QED
      BY <2>1, <2>2
  <1>11. Roots' /\ FailedOnly' /\ Runs' /\ Bodies' /\ Stamps' /\ Listed' /\ Ended' /\ Worked'
    <2>1. Roots' /\ FailedOnly'
      BY <1>1 DEF AsyncInv, Roots, FailedOnly
    <2>2. Runs' /\ Stamps' /\ Ended'
      BY <1>1 DEF AsyncInv, Runs, RunOnce, Stamps, Ended
    <2>3. Bodies'
      BY <1>1, <1>6 DEF AsyncInv, Bodies
    <2>4. Listed' /\ Worked'
      BY <1>1, <1>2 DEF Listed, Worked
    <2> QED
      BY <2>1, <2>2, <2>3, <2>4
  <1>12. Fresh'
    BY <1>1, <1>6, <1>10 DEF AsyncInv, Fresh
  <1>13. Spread'
    BY <1>1, <1>8, <1>10 DEF AsyncInv, Spread
  <1>14. Asked'
    BY <1>1, <1>9, <1>10 DEF AsyncInv, Asked, Pre
  <1>15. StackParents'
    <2> SUFFICES ASSUME NEW d \in Modules, NEW q \in ToSet(async_parent_modules'[d]),
                        status[d] = "evaluating"
                 PROVE  status[q] = "evaluating" /\ dfs_ancestor_index'[q] <= dfs_index[d]
      BY <1>1 DEF StackParents
    <2>1. /\ q \in Modules /\ dfs_ancestor_index'[q] \in Nat /\ dfs_ancestor_index[q] \in Nat
          /\ dfs_index[d] \in Nat /\ dfs_ancestor_index[d] \in Nat
          /\ dfs_ancestor_index'[q] <= dfs_ancestor_index[q]
      BY <1>2, <1>6, <1>9, <1>10 DEF AsyncInv, Asked, SearchTypes
    <2>2. CASE q \in ToSet(async_parent_modules[d])
      BY <2>1, <2>2 DEF AsyncInv, StackParents
    <2>3. CASE d = w /\ q = t
      <3>1. d = r /\ d \in OnStack /\ dfs_ancestor_index[d] <= dfs_index[d]
        BY <1>5, <1>8, <2>3 DEF SearchInv, Shape, Ordered
      <3>2. dfs_ancestor_index'[t] <= dfs_ancestor_index[d]
        BY <1>6, <3>1
      <3> QED
        BY <1>9, <2>1, <2>3, <3>1, <3>2
    <2> QED
      BY <1>10, <2>2, <2>3
  <1>16. \A d \in Modules : (Blocks(d)' <=> Blocks(d)) /\ (Owing(d)' <=> Owing(d))
    BY <1>1 DEF Blocks, Owing
  <1>17. Waiting'
    BY <1>1, <1>9, <1>10, <1>16 DEF AsyncInv, Waiting, Going
  <1>18. InOrder'
    BY <1>1, <1>6, <1>10, <1>16 DEF AsyncInv, InOrder
  <1>19. Counted'
    <2> SUFFICES ASSUME NEW p \in Modules
                 PROVE  /\ IsFiniteSet(Owed(p)')
                        /\ pending_async_dependencies'[p] >= Cardinality(Owed(p)')
      BY DEF Counted
    <2>1. OwingSet' = OwingSet /\ OwingSet \in SUBSET Modules
      BY <1>16 DEF OwingSet
    <2>2. IsFiniteSet(Owed(p)) /\ pending_async_dependencies[p] >= Cardinality(Owed(p))
      BY DEF AsyncInv, Counted
    <2>3. CASE async_evaluation[w]
      <3>1. /\ async_parent_modules' = [async_parent_modules EXCEPT ![w] = Append(@, t)]
            /\ pending_async_dependencies' = [pending_async_dependencies EXCEPT ![t] = @ + 1]
        BY <1>4, <1>8, <2>3 DEF InnerVisited, IsWaitedFor
      <3>2. /\ IsFiniteSet(EdgesTo(OwingSet, async_parent_modules', p))
            /\ p # t => Cardinality(EdgesTo(OwingSet, async_parent_modules', p))
                           <= Cardinality(EdgesTo(OwingSet, async_parent_modules, p))
            /\ Cardinality(EdgesTo(OwingSet, async_parent_modules', p)) \in Nat
            /\ Cardinality(EdgesTo(OwingSet, async_parent_modules, p)) \in Nat
            /\ Cardinality(EdgesTo(OwingSet, async_parent_modules', p))
                  <= Cardinality(EdgesTo(OwingSet, async_parent_modules, p)) + 1
        <4>1. IsFiniteSet(EdgesTo(OwingSet, async_parent_modules, p))
              /\ async_parent_modules \in [Modules -> Seq(Modules)]
          BY <1>2, <2>2 DEF Owed, AsyncTypes
        <4>2. /\ async_parent_modules'[w] = Append(async_parent_modules[w], t)
              /\ \A d \in Modules \ {w} : async_parent_modules'[d] = async_parent_modules[d]
          BY <3>1, <4>1
        <4>3. t \in Modules /\ OwingSet \in SUBSET Modules
          BY <1>9, <2>1
        <4>4. IsFiniteSet(EdgesTo(OwingSet, async_parent_modules', p))
          BY <4>1, <4>2, <4>3, EdgesAppended
        <4>5. p # t => Cardinality(EdgesTo(OwingSet, async_parent_modules', p))
                          <= Cardinality(EdgesTo(OwingSet, async_parent_modules, p))
          BY <4>1, <4>2, <4>3, EdgesAppended
        <4>6. Cardinality(EdgesTo(OwingSet, async_parent_modules', p))
                 <= Cardinality(EdgesTo(OwingSet, async_parent_modules, p)) + 1
          BY <4>1, <4>2, <4>3, EdgesAppended
        <4> QED
          BY <4>1, <4>4, <4>5, <4>6, FS_CardinalityType
      <3>3. /\ pending_async_dependencies[p] \in Int
            /\ pending_async_dependencies'[p] = IF p = t THEN pending_async_dependencies[p] + 1
                                                ELSE pending_async_dependencies[p]
        BY <1>2, <3>1 DEF AsyncTypes
      <3> QED
        BY <2>1, <2>2, <3>2, <3>3 DEF Owed
    <2>4. CASE ~async_evaluation[w]
      <3>1. UNCHANGED <<async_parent_modules, pending_async_dependencies>>
        BY <1>8, <2>4 DEF InnerVisited, IsWaitedFor
      <3> QED
        BY <2>1, <2>2, <3>1 DEF Owed
    <2> QED
      BY <2>3, <2>4
  <1>20. Hanging'
    <2> SUFFICES ASSUME NEW x \in OnStack \ Framed PROVE \E q \in OnStack : Parent(x, q)'
      BY <1>6 DEF Hanging
    <2>1. /\ x \in Modules /\ x # t /\ status[x] = "evaluating"
          /\ dfs_ancestor_index'[x] = dfs_ancestor_index[x] /\ dfs_ancestor_index[x] \in Nat
          /\ \A q \in OnStack : q \in Modules /\ dfs_ancestor_index'[q] \in Nat
                                /\ dfs_ancestor_index[q] \in Nat
                                /\ dfs_ancestor_index'[q] <= dfs_ancestor_index[q]
      BY <1>2, <1>5, <1>6 DEF SearchTypes
    <2>2. CASE Request = x /\ dfs_index[Top.m] < dfs_index[x]
      <3>1. x = r /\ w = r /\ dfs_index[t] < dfs_index[x] /\ dfs_ancestor_index'[t] <= dfs_ancestor_index'[x]
        BY <1>3, <1>4, <1>6, <1>8, <2>1, <2>2
      <3>2. Parent(x, t)'
        BY <1>1, <1>5, <1>6, <1>10, <3>1 DEF Parent
      <3> QED
        BY <1>5, <3>2
    <2>3. CASE \E q \in OnStack : Parent(x, q)
      <3>1. PICK q \in OnStack : Parent(x, q)
        BY <2>3
      <3>2. dfs_ancestor_index'[q] <= dfs_ancestor_index'[x]
        BY <2>1, <3>1 DEF Parent
      <3>3. Parent(x, q)'
        BY <1>1, <1>6, <1>10, <2>1, <3>1, <3>2 DEF Parent
      <3> QED
        BY <3>3
    <2> QED
      BY <1>1, <2>2, <2>3 DEF AsyncInv, Hanging
  <1>21. Chained'
    BY <1>1, <1>10 DEF AsyncInv, Chained
  <1> QED
    BY <1>11, <1>12, <1>13, <1>14, <1>15, <1>17, <1>18, <1>19, <1>20, <1>21 DEF AsyncInv

\* What is on the stack was entered at different times.
LEMMA StackDistinct ==
    ASSUME SearchInv, NEW x \in OnStack, NEW y \in OnStack, x # y
    PROVE  dfs_index[x] < dfs_index[y] \/ dfs_index[y] < dfs_index[x]
  <1>1. stack \in Seq(Modules) /\ DOMAIN stack = 1 .. Len(stack) /\ Len(stack) \in Nat
    BY DEF SearchInv, Typed, SearchTypes
  <1>2. PICK j \in DOMAIN stack : x = stack[j]
    BY <1>1 DEF OnStack, ToSet
  <1>3. PICK k \in DOMAIN stack : y = stack[k]
    BY <1>1 DEF OnStack, ToSet
  <1>4. j < k \/ k < j
    BY <1>1, <1>2, <1>3
  <1> QED
    BY <1>2, <1>3, <1>4 DEF SearchInv, Shape, Ordered

\* The requesters that a module has towards the one it is in the component of lead to
\* the module on top: nothing above it reaches further down than it does.
LEMMA LowestInComponent ==
    ASSUME SearchInv, Hanging, phase = "inner", AtEnd
    PROVE  \A x \in OnStack : dfs_index[Top.m] <= dfs_index[x]
                                 => dfs_ancestor_index[Top.m] <= dfs_ancestor_index[x]
  <1>1. frames # <<>>
    BY DEF SearchInv, Phases
  <1>2. PICK t \in Framed : t = Top.m
    BY <1>1, TopIsLast
  <1>3. \A f \in Framed : dfs_index[f] <= dfs_index[t]
    BY <1>1, <1>2, TopIsLast
  <1>4. /\ t \in OnStack /\ OnStack \subseteq Modules /\ Framed \subseteq OnStack
        /\ \A x \in OnStack : dfs_index[x] \in Nat /\ dfs_ancestor_index[x] \in Nat
    BY StackFacts DEF Searched, SearchInv, Typed, SearchTypes
  <1> DEFINE Bad == {x \in OnStack : /\ dfs_index[t] <= dfs_index[x]
                                     /\ dfs_ancestor_index[x] < dfs_ancestor_index[t]}
             T == {dfs_index[x] : x \in Bad}
  <1>5. SUFFICES ASSUME Bad # {} PROVE FALSE
    BY <1>2, <1>4
  <1>6. T \subseteq Nat /\ T # {}
    BY <1>4, <1>5
  <1>7. PICK n \in T : \A y \in T : n <= y
    <2> HIDE DEF T
    <2> QED
      BY <1>6, LeastExists
  <1>8. PICK x \in Bad : \A y \in Bad : dfs_index[x] <= dfs_index[y]
    BY <1>7
  <1>9. x # t /\ dfs_index[t] < dfs_index[x] /\ x \notin Framed
    <2>1. x # t
      BY <1>4, <1>8
    <2>2. dfs_index[t] < dfs_index[x]
      BY <1>4, <1>8, <2>1, StackDistinct
    <2> QED
      BY <1>3, <1>4, <1>8, <2>1, <2>2
  <1>10. PICK q \in OnStack : Parent(x, q)
    BY <1>8, <1>9 DEF Hanging
  <1>11. /\ dfs_index[q] < dfs_index[x] /\ dfs_ancestor_index[q] <= dfs_ancestor_index[x]
         /\ dfs_index[t] <= dfs_index[q]
    BY <1>9, <1>10 DEF Parent
  <1>12. q \in Bad
    BY <1>4, <1>8, <1>11
  <1> QED
    BY <1>4, <1>8, <1>11, <1>12

\* Nobody that a module waits for is still to complete when its count is down to zero.
LEMMA NoBlocker ==
    ASSUME SearchInv, AsyncInv, phase = "inner", NEW q \in Modules, ~Waits(q)
    PROVE  \A d \in Modules : Blocks(d) => q \notin ToSet(async_parent_modules[d])
  <1> SUFFICES ASSUME NEW d \in Modules, Blocks(d), q \in ToSet(async_parent_modules[d])
               PROVE  FALSE
    OBVIOUS
  <1>1. AsyncTypes /\ exec_list = {}
    BY DEF SearchInv, Typed, Phases
  <1>2. OwingSet \in SUBSET Modules
    BY DEF OwingSet
  <1>3. IsFiniteSet(Owed(q)) /\ pending_async_dependencies[q] >= Cardinality(Owed(q))
    BY DEF AsyncInv, Counted
  <1>4. Cardinality(Owed(q)) \in Nat /\ pending_async_dependencies[q] \in Int
    BY <1>1, <1>3, FS_CardinalityType DEF AsyncTypes
  <1>5. Cardinality(Owed(q)) = 0
    BY <1>3, <1>4 DEF Waits
  <1>6. Owed(q) = {}
    BY <1>3, <1>5, FS_EmptySet
  <1>7. d \notin OwingSet
    BY <1>1, <1>2, <1>6, NoEdges DEF Owed, AsyncTypes
  <1>8. status[d] \in Going /\ d \notin has_tla /\ body[d] # "none"
    BY <1>1, <1>7 DEF OwingSet, Owing, Blocks
  <1>9. async_evaluation[d]
    BY <1>8 DEF AsyncInv, Asked, Going
  <1> QED
    BY <1>8, <1>9 DEF AsyncInv, Bodies

\* Nobody waits for more.
LEMMA CountedStays ==
    ASSUME Counted, OwingSet' \subseteq OwingSet,
           UNCHANGED <<pending_async_dependencies, async_parent_modules>>, AsyncTypes
    PROVE  Counted'
  <1> SUFFICES ASSUME NEW p \in Modules
               PROVE  /\ IsFiniteSet(Owed(p)')
                      /\ pending_async_dependencies[p] >= Cardinality(Owed(p)')
    BY DEF Counted
  <1>1. IsFiniteSet(Owed(p)) /\ pending_async_dependencies[p] >= Cardinality(Owed(p))
        /\ pending_async_dependencies[p] \in Int
    BY DEF Counted, AsyncTypes
  <1>2. Owed(p)' = EdgesTo(OwingSet', async_parent_modules, p)
    BY DEF Owed
  <1>3. /\ IsFiniteSet(EdgesTo(OwingSet', async_parent_modules, p))
        /\ Cardinality(EdgesTo(OwingSet', async_parent_modules, p)) <= Cardinality(Owed(p))
        /\ Cardinality(EdgesTo(OwingSet', async_parent_modules, p)) \in Nat
        /\ Cardinality(Owed(p)) \in Nat
    BY <1>1, EdgesFewer DEF Owed
  <1> QED
    BY <1>1, <1>2, <1>3

\* A function is started that has not run.
LEMMA RunKeeps ==
    ASSUME BodyTypes, Runs, NEW m \in Modules, NEW o \in {"awaiting", "returned", "threw"},
           body[m] = "none", Run(m, o)
    PROVE  /\ Runs' /\ body'[m] = o
           /\ \A x \in Modules : x # m => body'[x] = body[x]
  <1>1. /\ body' = [body EXCEPT ![m] = o] /\ started' = Append(started, m)
        /\ started \in Seq(Modules) /\ DOMAIN started = 1 .. Len(started) /\ Len(started) \in Nat
    BY DEF Run, BodyTypes
  <1>2. body'[m] = o /\ \A x \in Modules : x # m => body'[x] = body[x]
    BY <1>1 DEF BodyTypes
  <1>3. ToSet(started') = ToSet(started) \union {m}
    BY <1>1, ListElements
  <1>4. /\ DOMAIN started' = 1 .. Len(started) + 1
        /\ \A i \in DOMAIN started' : started'[i] = IF i = Len(started) + 1 THEN m ELSE started[i]
    BY <1>1, AppendFacts
  <1>5. \A i \in DOMAIN started : started[i] # m
    BY DEF Runs, ToSet
  <1>6. RunOnce'
    <2> SUFFICES ASSUME NEW j \in DOMAIN started', NEW k \in DOMAIN started', started'[j] = started'[k]
                 PROVE  j = k
      BY DEF RunOnce
    <2>1. CASE j = Len(started) + 1 \/ k = Len(started) + 1
      BY <1>1, <1>4, <1>5, <2>1
    <2>2. CASE j # Len(started) + 1 /\ k # Len(started) + 1
      BY <1>1, <1>4, <2>2 DEF Runs, RunOnce
    <2> QED
      BY <2>1, <2>2
  <1> QED
    BY <1>2, <1>3, <1>6 DEF Runs

LEMMA JobElements ==
    ASSUME JobTypes PROVE \A k \in DOMAIN jobs : jobs[k].m \in Modules /\ jobs[k].ok \in BOOLEAN
  <1> DEFINE J == [m : Modules, ok : BOOLEAN]
  <1>1. \A x \in J : x.m \in Modules /\ x.ok \in BOOLEAN
    OBVIOUS
  <1>2. jobs \in Seq(J)
    BY DEF JobTypes
  <1> HIDE DEF J
  <1>3. \A k \in DOMAIN jobs : jobs[k] \in J
    BY <1>2
  <1> QED
    BY <1>1, <1>3

\* Everything on the stack fails, whoever waits for it is on the stack too.
LEMMA FailStackStep ==
    ASSUME SearchInv, AsyncInv, phase = "inner", FailStack, Runs', Framed' = {},
           UNCHANGED <<has_tla, asyncVars, jobVars>>,
           \A x \in Modules :
              \/ body'[x] = body[x]
              \/ /\ x \in OnStack /\ body'[x] = "threw" /\ body[x] = "none"
                 /\ \A d \in Modules : Blocks(d) => x \notin ToSet(async_parent_modules[d])
    PROVE  AsyncInv'
  <1>1. /\ UNCHANGED <<pending_async_dependencies, async_evaluation, timestamp,
                       async_parent_modules, next_timestamp, work, exec_list, jobs, dfs_index>>
        /\ phase' = "idle"
    BY DEF asyncVars, jobVars, FailStack
  <1>2. /\ StatusTypes /\ AsyncTypes /\ ResultTypes /\ frames # <<>> /\ work = <<>> /\ exec_list = {}
    BY DEF SearchInv, Typed, Phases
  <1>3. /\ OnStack \subseteq Modules /\ Framed \subseteq OnStack
        /\ \A m \in Modules : status[m] = "evaluating" <=> m \in OnStack
    BY StackFacts DEF Searched
  <1>4. entry \in OnStack
    <2>1. stack # <<>> /\ entry = stack[Len(stack)] /\ stack \in Seq(Modules)
      BY <1>2 DEF SearchInv, Shape, Rooted, Typed, SearchTypes
    <2>2. Len(stack) \in DOMAIN stack
      BY <2>1
    <2> QED
      BY <2>1, <2>2 DEF OnStack, ToSet
  <1>5. /\ \A m \in OnStack : /\ status'[m] = "evaluated" /\ eval_has_exception'[m]
                              /\ cycle_root'[m] = entry
        /\ \A m \in Modules \ OnStack : /\ status'[m] = status[m] /\ cycle_root'[m] = cycle_root[m]
                                        /\ eval_has_exception'[m] = eval_has_exception[m]
        /\ \A m \in Modules : eval_has_exception[m] => eval_has_exception'[m]
    BY <1>2, <1>3 DEF FailStack, OnStack, ResultTypes
  <1>6. \A d \in Modules : (Blocks(d)' => Blocks(d) /\ d \notin OnStack) /\ (Owing(d)' => Owing(d))
    <2> SUFFICES ASSUME NEW d \in Modules
                 PROVE  (Blocks(d)' => Blocks(d) /\ d \notin OnStack) /\ (Owing(d)' => Owing(d))
      OBVIOUS
    <2>1. CASE d \in OnStack
      BY <1>1, <1>5, <2>1 DEF Blocks, Owing, Going
    <2>2. CASE d \notin OnStack
      BY <1>1, <1>5, <2>2 DEF Blocks, Owing
    <2> QED
      BY <2>1, <2>2
  <1>7. \A d \in Modules : \A q \in ToSet(async_parent_modules[d]) : q \in Modules
    BY DEF AsyncInv, Asked
  <1>8. Roots'
    <2> SUFFICES ASSUME NEW m \in Modules, status'[m] \in Finished
                 PROVE  /\ cycle_root'[m] \in Modules /\ status'[cycle_root'[m]] \in Finished
                        /\ cycle_root'[cycle_root'[m]] = cycle_root'[m]
      BY DEF Roots
    <2>1. CASE m \in OnStack
      BY <1>3, <1>4, <1>5, <2>1 DEF Finished
    <2>2. CASE m \notin OnStack
      <3>1. /\ cycle_root[m] \in Modules /\ status[cycle_root[m]] \in Finished
            /\ cycle_root[cycle_root[m]] = cycle_root[m]
        BY <1>5, <2>2 DEF AsyncInv, Roots
      <3>2. cycle_root[m] \notin OnStack
        BY <1>3, <3>1 DEF Finished
      <3> QED
        BY <1>5, <2>2, <3>1, <3>2
    <2> QED
      BY <2>1, <2>2
  <1>9. Fresh'
    BY <1>1, <1>5 DEF AsyncInv, Fresh, Pre
  <1>10. FailedOnly'
    <2> SUFFICES ASSUME NEW m \in Modules, eval_has_exception'[m]
                 PROVE  /\ status'[m] = "evaluated"
                        /\ async_evaluation[m] \/ eval_has_exception'[cycle_root'[m]]
      BY <1>1 DEF FailedOnly
    <2>1. CASE m \in OnStack
      BY <1>4, <1>5, <2>1
    <2>2. CASE m \notin OnStack
      <3>1. /\ eval_has_exception[m] /\ status[m] = "evaluated"
            /\ async_evaluation[m] \/ eval_has_exception[cycle_root[m]]
        BY <1>5, <2>2 DEF AsyncInv, FailedOnly
      <3>2. cycle_root[m] \in Modules
        BY <3>1 DEF AsyncInv, Roots, Finished
      <3> QED
        BY <1>5, <2>2, <3>1, <3>2
    <2> QED
      BY <2>1, <2>2
  <1>11. Spread'
    <2> SUFFICES ASSUME NEW m \in Modules, eval_has_exception'[m], NEW q \in ToSet(async_parent_modules[m])
                 PROVE  eval_has_exception'[q]
      BY <1>1 DEF Spread
    <2>1. CASE m \in OnStack
      BY <1>3, <1>5, <1>7, <2>1 DEF AsyncInv, StackParents
    <2>2. CASE m \notin OnStack
      BY <1>5, <1>7, <2>2 DEF AsyncInv, Spread
    <2> QED
      BY <2>1, <2>2
  <1>12. Asked'
    BY <1>1, <1>5, <1>7 DEF AsyncInv, Asked, Pre
  <1>13. StackParents'
    BY <1>3, <1>5 DEF StackParents
  <1>14. Waiting'
    <2> SUFFICES ASSUME NEW d \in Modules, NEW q \in ToSet(async_parent_modules[d]), Blocks(d)'
                 PROVE  body'[q] = "none" /\ (status'[q] \in Going \/ eval_has_exception'[q])
      BY <1>1 DEF Waiting
    <2>1. Blocks(d) /\ q \in Modules /\ body[q] = "none" /\ (status[q] \in Going \/ eval_has_exception[q])
      BY <1>6, <1>7 DEF AsyncInv, Waiting
    <2>2. body'[q] = "none"
      BY <2>1
    <2>3. CASE q \in OnStack
      BY <1>5, <2>2, <2>3
    <2>4. CASE q \notin OnStack
      BY <1>5, <2>1, <2>2, <2>4
    <2> QED
      BY <2>3, <2>4
  <1>15. InOrder'
    BY <1>1, <1>3, <1>5, <1>6, <1>7 DEF AsyncInv, InOrder
  <1>16. Bodies'
    <2> SUFFICES ASSUME NEW m \in Modules
                 PROVE  /\ body'[m] = "awaiting" => m \in has_tla
                        /\ status'[m] = "evaluating_async" => async_evaluation[m]
                        /\ status'[m] # "evaluating"
                        /\ async_evaluation[m] /\ m \notin has_tla /\ status'[m] \in Going
                              => body'[m] = "none"
                        /\ status'[m] = "evaluated" /\ ~eval_has_exception'[m] => body'[m] = "returned"
      BY <1>1 DEF Bodies
    <2>1. CASE m \in OnStack
      BY <1>5, <2>1 DEF Going, AsyncInv, Bodies
    <2>2. CASE m \notin OnStack
      BY <1>1, <1>3, <1>5, <2>2 DEF AsyncInv, Bodies
    <2> QED
      BY <2>1, <2>2
  <1>17. Stamps'
    BY <1>1 DEF AsyncInv, Stamps
  <1>18. Listed'
    BY <1>1, <1>2 DEF Listed
  <1>19. Counted'
    <2>1. OwingSet' \subseteq OwingSet
      BY <1>6 DEF OwingSet
    <2> QED
      BY <1>1, <1>2, <2>1, CountedStays DEF AsyncInv
  <1>20. Ended'
    <2>1. \A k \in DOMAIN jobs : jobs[k].m \in Modules
      BY JobElements DEF SearchInv, Typed
    <2> QED
      BY <1>1, <2>1 DEF AsyncInv, Ended
  <1>21. Worked' /\ Hanging'
    BY <1>1 DEF Worked, Hanging
  <1>22. Chained'
    <2> SUFFICES ASSUME NEW p \in Modules, status'[p] \in Finished, async_evaluation[p],
                        cycle_root'[p] # p, ~eval_has_exception'[cycle_root'[p]]
                 PROVE  \E q \in ToSet(async_parent_modules[p]) :
                           /\ cycle_root'[q] = cycle_root'[p] /\ status'[q] \in Finished
                           /\ dfs_index[q] < dfs_index[p]
      BY <1>1 DEF Chained
    <2>1. p \notin OnStack
      BY <1>4, <1>5
    <2>2. status[p] \in Finished /\ cycle_root'[p] = cycle_root[p] /\ cycle_root[p] \in Modules
      BY <1>5, <2>1 DEF AsyncInv, Roots
    <2>3. ~eval_has_exception[cycle_root[p]]
      BY <1>5, <2>2
    <2>4. PICK q \in ToSet(async_parent_modules[p]) :
             /\ cycle_root[q] = cycle_root[p] /\ status[q] \in Finished
             /\ dfs_index[q] < dfs_index[p]
      BY <2>2, <2>3 DEF AsyncInv, Chained
    <2>5. q \in Modules \ OnStack
      BY <1>3, <1>7, <2>4 DEF Finished
    <2> QED
      BY <1>5, <2>2, <2>4, <2>5
  <1> QED
    BY <1>8, <1>9, <1>10, <1>11, <1>12, <1>13, <1>14, <1>15, <1>16, <1>17, <1>18, <1>19,
       <1>20, <1>21, <1>22 DEF AsyncInv

LEMMA InnerFailAsync == ASSUME SearchInv, AsyncInv, InnerFail PROVE AsyncInv'
  <1>1. /\ phase = "inner" /\ FailStack
        /\ UNCHANGED <<has_tla, asyncVars, jobVars, body, started>>
    BY DEF InnerFail, graphVars, bodyVars
  <1>2. Framed' = {}
    BY InnerFailSearch
  <1>3. Runs'
    BY <1>1 DEF AsyncInv, Runs, RunOnce
  <1> QED
    BY <1>1, <1>2, <1>3, FailStackStep

LEMMA InnerThrowsAsync == ASSUME SearchInv, AsyncInv, InnerThrows PROVE AsyncInv'
  <1>1. /\ phase = "inner" /\ ~Waits(Top.m) /\ FailStack /\ Run(Top.m, "threw")
        /\ UNCHANGED <<has_tla, asyncVars, jobVars>>
    BY DEF InnerThrows, graphVars
  <1>2. Framed' = {}
    BY InnerThrowsSearch
  <1>3. frames # <<>> /\ BodyTypes
    BY <1>1 DEF SearchInv, Phases, Typed
  <1>4. PICK t \in Framed : t = Top.m
    BY <1>3, TopIsLast
  <1>5. t \in OnStack /\ t \in Modules
    BY StackFacts DEF Searched
  <1>6. body[t] = "none"
    BY <1>5 DEF AsyncInv, Fresh
  <1>7. /\ Runs' /\ body'[t] = "threw"
        /\ \A x \in Modules : x # t => body'[x] = body[x]
    BY <1>1, <1>3, <1>4, <1>5, <1>6, RunKeeps DEF AsyncInv
  <1>8. \A d \in Modules : Blocks(d) => t \notin ToSet(async_parent_modules[d])
    BY <1>1, <1>4, <1>5, NoBlocker
  <1> QED
    BY <1>1, <1>2, <1>5, <1>6, <1>7, <1>8, FailStackStep

\* The module on top waits, starts or ends; the root of a component completes it.
LEMMA InnerDoneAsync == ASSUME SearchInv, SearchInv', AsyncInv, InnerDone PROVE AsyncInv'
  <1>1. /\ phase = "inner" /\ phase' \in {"inner", "idle"} /\ AtEnd
        /\ frames' = Tail(frames) /\ (Tail(frames) = <<>> => phase' = "idle")
        /\ UNCHANGED <<req, has_tla, dfs_index, dfs_ancestor_index, pending_async_dependencies,
                       async_parent_modules, eval_has_exception, work, exec_list, jobs>>
    BY DEF InnerDone, graphVars, jobVars
  <1>2. /\ StatusTypes /\ SearchTypes /\ AsyncTypes /\ ResultTypes /\ BodyTypes /\ frames # <<>>
        /\ work = <<>> /\ exec_list = {}
    BY <1>1 DEF SearchInv, Typed, Phases
  <1>3. PICK t \in Framed : t = Top.m
    BY <1>2, TopIsLast
  <1>4. /\ OnStack \subseteq Modules /\ Framed \subseteq OnStack
        /\ \A m \in Modules : status[m] = "evaluating" <=> m \in OnStack
        /\ \A f \in Framed : dfs_index[f] <= dfs_index[t]
        /\ t \in Modules /\ t \in OnStack
        /\ \A x \in Modules : dfs_index[x] \in Nat /\ dfs_ancestor_index[x] \in Nat
    BY <1>1, <1>2, <1>3, StackFacts, TopIsLast DEF Searched, SearchTypes
  <1>5. PICK root \in BOOLEAN : root <=> IsRoot(t)
    OBVIOUS
  <1>6. PICK C \in SUBSET OnStack :
           /\ root => C = {x \in OnStack : dfs_index[t] <= dfs_index[x]}
           /\ ~root => C = {}
           /\ root => C = Component(t)
    <2>1. SearchTypes /\ Ordered /\ t \in OnStack
      BY <1>2, <1>4 DEF SearchInv, Shape
    <2>2. Component(t) = {x \in OnStack : dfs_index[t] <= dfs_index[x]}
      BY <2>1, ComponentFacts
    <2>3. CASE root
      <3>1. Component(t) \in SUBSET OnStack
        BY <2>2
      <3> QED
        BY <2>2, <2>3, <3>1
    <2>4. CASE ~root
      <3>1. {} \in SUBSET OnStack
        OBVIOUS
      <3> QED
        BY <2>4, <3>1
    <2> QED
      BY <2>3, <2>4
  <1>7. Framed' = Framed \ {t} /\ OnStack' = OnStack \ C
    BY <1>3, <1>5, <1>6, InnerDoneSearch
  <1>8. PICK a \in BOOLEAN : a <=> (Waits(t) \/ t \in has_tla)
    OBVIOUS
  <1>9. /\ ~async_evaluation[t] /\ async_parent_modules[t] = <<>> /\ body[t] = "none"
        /\ ToSet(async_parent_modules[t]) = {}
    <2>1. ~async_evaluation[t] /\ async_parent_modules[t] = <<>> /\ body[t] = "none"
      BY <1>4 DEF AsyncInv, Fresh
    <2> QED
      BY <2>1 DEF ToSet
  <1>10. /\ async_evaluation' \in [Modules -> BOOLEAN]
         /\ async_evaluation'[t] = a
         /\ \A x \in Modules : x # t => async_evaluation'[x] = async_evaluation[x]
    <2>1. async_evaluation' = [async_evaluation EXCEPT ![t] = @ \/ (Waits(t) \/ t \in has_tla)]
      BY <1>3 DEF InnerDone
    <2>2. /\ async_evaluation'[t] <=> (async_evaluation[t] \/ Waits(t) \/ t \in has_tla)
          /\ \A x \in Modules : x # t => async_evaluation'[x] = async_evaluation[x]
      BY <1>2, <1>4, <2>1 DEF AsyncTypes
    <2>3. async_evaluation' \in [Modules -> BOOLEAN]
      BY DEF SearchInv, Typed, AsyncTypes
    <2>4. async_evaluation'[t] \in BOOLEAN
      BY <1>4, <2>3
    <2>5. async_evaluation'[t] <=> a
      BY <1>8, <1>9, <2>2
    <2> QED
      BY <2>2, <2>3, <2>4, <2>5
  <1>11. /\ a => timestamp'[t] = next_timestamp /\ next_timestamp' = next_timestamp + 1
         /\ ~a => next_timestamp' = next_timestamp /\ timestamp' = timestamp
         /\ \A x \in Modules : x # t => timestamp'[x] = timestamp[x]
    BY <1>2, <1>3, <1>4, <1>8 DEF InnerDone, AsyncTypes
  <1>12. /\ Waits(t) => body' = body /\ started' = started
         /\ ~Waits(t) => /\ body'[t] = IF t \in has_tla THEN "awaiting" ELSE "returned"
                         /\ Runs'
         /\ \A x \in Modules : x # t => body'[x] = body[x]
    <2>1. CASE Waits(t)
      BY <1>3, <2>1 DEF InnerDone, bodyVars
    <2>2. CASE ~Waits(t)
      <3>1. PICK o \in {"awaiting", "returned", "threw"} :
               o = (IF t \in has_tla THEN "awaiting" ELSE "returned")
        OBVIOUS
      <3>2. Run(t, o)
        BY <1>3, <2>2, <3>1 DEF InnerDone
      <3> QED
        BY <1>2, <1>4, <1>9, <2>2, <3>1, <3>2, RunKeeps DEF AsyncInv
    <2> QED
      BY <2>1, <2>2
  <1>13. /\ \A x \in C : /\ status[x] = "evaluating" /\ cycle_root'[x] = t
                         /\ status'[x] = IF async_evaluation'[x] THEN "evaluating_async" ELSE "evaluated"
         /\ \A x \in Modules \ C : status'[x] = status[x] /\ cycle_root'[x] = cycle_root[x]
         /\ root => t \in C
         /\ \A x \in C : x \in Modules /\ root /\ dfs_index[t] <= dfs_index[x]
    <2>1. CASE root
      <3>1. /\ status' = [x \in Modules |-> IF x \notin C THEN status[x]
                                           ELSE IF async_evaluation'[x] THEN "evaluating_async"
                                           ELSE "evaluated"]
            /\ cycle_root' = [x \in Modules |-> IF x \in C THEN t ELSE cycle_root[x]]
        BY <1>3, <1>5, <1>6, <2>1 DEF InnerDone
      <3> QED
        BY <1>4, <1>6, <2>1, <3>1
    <2>2. CASE ~root
      BY <1>3, <1>5, <1>6, <2>2 DEF InnerDone
    <2> QED
      BY <2>1, <2>2
  <1>14. \A x \in C : x # t => x \notin Framed /\ dfs_index[t] < dfs_index[x]
    <2> SUFFICES ASSUME NEW x \in C, x # t PROVE x \notin Framed /\ dfs_index[t] < dfs_index[x]
      OBVIOUS
    <2>1. dfs_index[t] < dfs_index[x]
      BY <1>4, <1>13, StackDistinct
    <2> QED
      BY <1>4, <1>13, <2>1
  <1>15. \A x \in OnStack : dfs_index[t] <= dfs_index[x] => dfs_ancestor_index[t] <= dfs_ancestor_index[x]
    BY <1>1, <1>3, LowestInComponent DEF AsyncInv
  <1>16. ~Waits(t) => \A d \in Modules : Blocks(d) => t \notin ToSet(async_parent_modules[d])
    BY <1>1, <1>4, NoBlocker
  <1>17. \A d \in Modules : \A q \in ToSet(async_parent_modules[d]) : q \in Modules
    BY DEF AsyncInv, Asked
  <1>18. \A d \in Modules : (Blocks(d)' => Blocks(d)) /\ (Owing(d)' => Owing(d))
    <2> SUFFICES ASSUME NEW d \in Modules
                 PROVE  (Blocks(d)' => Blocks(d)) /\ (Owing(d)' => Owing(d))
      OBVIOUS
    <2>1. status'[d] \in Going => status[d] \in Going
      BY <1>13 DEF Going
    <2>2. body'[d] = "none" => body[d] = "none"
      BY <1>9, <1>12
    <2> QED
      BY <1>1, <2>1, <2>2 DEF Blocks, Owing
  <1>19. /\ t \notin Framed' /\ Framed' \subseteq Framed /\ OnStack' \subseteq OnStack
         /\ \A x \in Framed : x # t => x \in Framed'
         /\ \A x \in Modules : async_evaluation[x] => async_evaluation'[x]
    BY <1>7, <1>9, <1>10
  <1>20. Roots'
    <2> SUFFICES ASSUME NEW m \in Modules, status'[m] \in Finished
                 PROVE  /\ cycle_root'[m] \in Modules /\ status'[cycle_root'[m]] \in Finished
                        /\ cycle_root'[cycle_root'[m]] = cycle_root'[m]
      BY DEF Roots
    <2>1. CASE m \in C
      <3>1. cycle_root'[m] = t /\ t \in C
        BY <1>13, <2>1
      <3>2. cycle_root'[t] = t /\ status'[t] \in Finished
        BY <1>13, <3>1 DEF Finished
      <3> QED
        BY <1>4, <3>1, <3>2
    <2>2. CASE m \notin C
      <3>1. /\ status[m] \in Finished /\ cycle_root'[m] = cycle_root[m]
        BY <1>13, <2>2
      <3>2. /\ cycle_root[m] \in Modules /\ status[cycle_root[m]] \in Finished
            /\ cycle_root[cycle_root[m]] = cycle_root[m]
        BY <3>1 DEF AsyncInv, Roots
      <3>3. cycle_root[m] \notin C
        BY <1>13, <3>2 DEF Finished
      <3> QED
        BY <1>13, <3>1, <3>2, <3>3
    <2> QED
      BY <2>1, <2>2
  <1>21. Fresh'
    <2> SUFFICES ASSUME NEW m \in Modules, status'[m] \in Pre \/ m \in Framed'
                 PROVE  ~async_evaluation'[m] /\ async_parent_modules[m] = <<>> /\ body'[m] = "none"
      BY <1>1 DEF Fresh
    <2>1. (status[m] \in Pre \/ m \in Framed) /\ m # t
      BY <1>4, <1>13, <1>19 DEF Pre
    <2> QED
      BY <1>10, <1>12, <2>1 DEF AsyncInv, Fresh
  <1>22. FailedOnly'
    <2> SUFFICES ASSUME NEW m \in Modules, eval_has_exception[m]
                 PROVE  /\ status'[m] = "evaluated"
                        /\ async_evaluation'[m] \/ eval_has_exception[cycle_root'[m]]
      BY <1>1 DEF FailedOnly
    <2>1. status[m] = "evaluated" /\ (async_evaluation[m] \/ eval_has_exception[cycle_root[m]])
      BY DEF AsyncInv, FailedOnly
    <2>2. m \notin C
      BY <1>13, <2>1
    <2> QED
      BY <1>13, <1>19, <2>1, <2>2
  <1>23. Spread'
    BY <1>1 DEF AsyncInv, Spread
  <1>24. Asked'
    <2> SUFFICES ASSUME NEW d \in Modules, NEW q \in ToSet(async_parent_modules[d])
                 PROVE  /\ async_evaluation'[d] \/ status'[d] = "evaluated"
                        /\ q \in Modules /\ status'[q] \notin Pre
      BY <1>1 DEF Asked
    <2>1. /\ async_evaluation[d] \/ status[d] = "evaluated"
          /\ q \in Modules /\ status[q] \notin Pre
      BY DEF AsyncInv, Asked
    <2>2. status'[q] \notin Pre
      BY <1>13, <2>1 DEF Pre
    <2>3. status[d] = "evaluated" => status'[d] = "evaluated"
      BY <1>13
    <2> QED
      BY <1>19, <2>1, <2>2, <2>3
  <1>25. StackParents'
    <2> SUFFICES ASSUME NEW d \in Modules, NEW q \in ToSet(async_parent_modules[d]),
                        status'[d] = "evaluating"
                 PROVE  status'[q] = "evaluating" /\ dfs_ancestor_index[q] <= dfs_index[d]
      BY <1>1 DEF StackParents
    <2>1. d \notin C /\ status[d] = "evaluating"
      BY <1>13
    <2>2. q \in Modules /\ status[q] = "evaluating" /\ dfs_ancestor_index[q] <= dfs_index[d]
      BY <1>17, <2>1 DEF AsyncInv, StackParents
    <2>3. q \notin C
      <3> SUFFICES ASSUME q \in C PROVE FALSE
        OBVIOUS
      <3>1. root /\ q \in OnStack /\ dfs_index[t] <= dfs_index[q]
        BY <1>4, <1>13, <2>2
      <3>2. d \in OnStack /\ ~(dfs_index[t] <= dfs_index[d])
        BY <1>4, <1>6, <2>1, <3>1
      <3>3. dfs_ancestor_index[t] <= dfs_ancestor_index[q]
        BY <1>15, <3>1
      <3>4. dfs_index[t] = dfs_ancestor_index[t]
        BY <1>5, <3>1 DEF IsRoot
      <3> QED
        BY <1>4, <2>2, <3>2, <3>3, <3>4
    <2> QED
      BY <1>13, <2>2, <2>3
  <1>26. Waiting'
    <2> SUFFICES ASSUME NEW d \in Modules, NEW q \in ToSet(async_parent_modules[d]), Blocks(d)'
                 PROVE  body'[q] = "none" /\ (status'[q] \in Going \/ eval_has_exception[q])
      BY <1>1 DEF Waiting
    <2>1. Blocks(d) /\ q \in Modules /\ body[q] = "none" /\ (status[q] \in Going \/ eval_has_exception[q])
      BY <1>17, <1>18 DEF AsyncInv, Waiting
    <2>2. CASE q = t
      <3>1. Waits(t) /\ a
        BY <1>8, <1>16, <2>1, <2>2
      <3>2. body'[t] = "none"
        BY <1>12, <2>1, <2>2, <3>1
      <3>3. status'[t] \in Going
        BY <1>4, <1>10, <1>13, <3>1 DEF Going
      <3> QED
        BY <2>2, <3>2, <3>3
    <2>3. CASE q # t
      <3>1. body'[q] = "none"
        BY <1>12, <2>1, <2>3
      <3>2. CASE q \in C
        <4>1. status[q] = "evaluating" /\ q \notin Framed
          BY <1>13, <1>14, <2>3, <3>2
        <4>2. async_evaluation[q]
          BY <2>1, <4>1 DEF AsyncInv, Bodies
        <4> QED
          BY <1>13, <1>19, <2>1, <3>1, <3>2, <4>2 DEF Going
      <3>3. CASE q \notin C
        BY <1>13, <2>1, <3>1, <3>3
      <3> QED
        BY <3>2, <3>3
    <2> QED
      BY <2>2, <2>3
  <1>27. InOrder'
    <2> SUFFICES ASSUME NEW d \in Modules, NEW q \in ToSet(async_parent_modules[d]), Blocks(d)'
                 PROVE  timestamp'[d] < timestamp'[q] \/ q \in Framed' \/ eval_has_exception[q]
      BY <1>1 DEF InOrder
    <2>1. /\ Blocks(d) /\ q \in Modules
          /\ timestamp[d] < timestamp[q] \/ q \in Framed \/ eval_has_exception[q]
      BY <1>17, <1>18 DEF AsyncInv, InOrder
    <2>2. d # t /\ timestamp'[d] = timestamp[d]
      BY <1>9, <1>11
    <2>3. CASE q # t
      BY <1>11, <1>19, <2>1, <2>2, <2>3
    <2>4. CASE q = t
      <3>1. a /\ timestamp'[t] = next_timestamp
        BY <1>8, <1>11, <1>16, <2>1, <2>4
      <3>2. status[d] \in Going
        BY <1>1, <2>1 DEF Blocks
      <3>3. async_evaluation[d]
        BY <3>2 DEF AsyncInv, Asked, Going
      <3>4. timestamp[d] < next_timestamp
        BY <3>3 DEF AsyncInv, Stamps
      <3> QED
        BY <2>2, <2>4, <3>1, <3>4
    <2> QED
      BY <2>3, <2>4
  <1>28. Runs'
    <2>1. CASE Waits(t)
      BY <1>12, <2>1 DEF AsyncInv, Runs, RunOnce
    <2>2. CASE ~Waits(t)
      BY <1>12, <2>2
    <2> QED
      BY <2>1, <2>2
  <1>29. Bodies'
    <2> SUFFICES ASSUME NEW m \in Modules
                 PROVE  /\ body'[m] = "awaiting" => m \in has_tla
                        /\ status'[m] = "evaluating_async" => async_evaluation'[m]
                        /\ status'[m] = "evaluating" /\ m \notin Framed' /\ ~async_evaluation'[m]
                              => body'[m] = "returned"
                        /\ async_evaluation'[m] /\ m \notin has_tla /\ status'[m] \in Going
                              => body'[m] = "none"
                        /\ status'[m] = "evaluated" /\ ~eval_has_exception[m] => body'[m] = "returned"
      BY <1>1 DEF Bodies
    <2>1. CASE m = t
      <3>1. status'[t] = "evaluating_async" => a
        BY <1>4, <1>10, <1>13
      <3>2. status'[t] = "evaluated" => ~a
        BY <1>4, <1>10, <1>13
      <3>3. /\ Waits(t) => body'[t] = "none" /\ a
            /\ ~Waits(t) => body'[t] = IF t \in has_tla THEN "awaiting" ELSE "returned"
            /\ ~a => ~Waits(t) /\ t \notin has_tla
            /\ a => Waits(t) \/ t \in has_tla
        BY <1>8, <1>9, <1>12
      <3> QED
        BY <1>10, <2>1, <3>1, <3>2, <3>3
    <2>2. CASE m # t
      <3>1. /\ body'[m] = body[m] /\ (async_evaluation'[m] <=> async_evaluation[m])
            /\ m \in Framed' <=> m \in Framed
        BY <1>10, <1>12, <1>19, <2>2
      <3>2. CASE m \in C
        <4>1. status[m] = "evaluating" /\ m \notin Framed
              /\ status'[m] = IF async_evaluation[m] THEN "evaluating_async" ELSE "evaluated"
          BY <1>13, <1>14, <2>2, <3>1, <3>2
        <4> QED
          BY <1>1, <3>1, <4>1 DEF AsyncInv, Bodies, Going
      <3>3. CASE m \notin C
        <4>1. status'[m] = status[m]
          BY <1>13, <3>3
        <4> QED
          BY <1>1, <3>1, <4>1 DEF AsyncInv, Bodies
      <3> QED
        BY <3>2, <3>3
    <2> QED
      BY <2>1, <2>2
  <1>30. Stamps'
    <2>1. /\ next_timestamp \in Nat /\ \A m \in Modules : timestamp[m] \in Nat
          /\ \A m \in Modules : async_evaluation[m] => timestamp[m] < next_timestamp
          /\ \A m, n \in Modules : async_evaluation[m] /\ async_evaluation[n] /\ m # n
                                => timestamp[m] # timestamp[n]
      BY <1>2 DEF AsyncTypes, AsyncInv, Stamps
    <2>2. CASE a
      BY <1>10, <1>11, <2>1, <2>2 DEF Stamps
    <2>3. CASE ~a
      BY <1>10, <1>11, <2>1, <2>3 DEF Stamps
    <2> QED
      BY <2>2, <2>3
  <1>31. Listed'
    BY <1>1, <1>2 DEF Listed
  <1>32. Counted'
    <2>1. OwingSet' \subseteq OwingSet
      BY <1>18 DEF OwingSet
    <2> QED
      BY <1>1, <1>2, <2>1, CountedStays DEF AsyncInv
  <1>33. Ended'
    <2>1. \A k \in DOMAIN jobs : jobs[k].m \in Modules
      BY JobElements DEF SearchInv, Typed
    <2>2. \A k \in DOMAIN jobs : jobs[k].m # t
      BY <1>9 DEF AsyncInv, Ended
    <2> QED
      BY <1>1, <1>12, <2>1, <2>2 DEF AsyncInv, Ended
  <1>34. Worked'
    BY <1>1 DEF Worked
  <1>35. Hanging'
    <2> SUFFICES ASSUME phase' = "inner", NEW x \in OnStack' \ Framed'
                 PROVE  (~AtEnd /\ Request = x /\ dfs_index[Top.m] < dfs_index[x])'
                        \/ (\E q \in OnStack : Parent(x, q))'
      BY DEF Hanging
    <2>1. CASE x = t
      <3>1. Tail(frames) # <<>> /\ frames \in Seq(FrameSet) /\ frames # <<>>
        BY <1>1, <1>2 DEF SearchTypes
      <3>2. /\ Tail(frames) \in Seq(FrameSet) /\ DOMAIN frames = 1 .. Len(frames)
            /\ Len(frames) \in Nat \ {0} /\ Len(Tail(frames)) = Len(frames) - 1
            /\ \A k \in 1 .. Len(frames) - 1 : Tail(frames)[k] = frames[k + 1]
            /\ DOMAIN Tail(frames) = 1 .. Len(frames) - 1 /\ Head(frames) = frames[1]
        BY <3>1, HeadDropped
      <3>3. Len(frames) - 1 # 0
        BY <3>1, <3>2
      <3>4. Tail(frames)[1] = frames[2] /\ 2 \in DOMAIN frames /\ 1 \in DOMAIN frames
        BY <3>2, <3>3
      <3>5. frames'[1] = frames[2] /\ Top' = frames[2]
        <4>1. Head(Tail(frames)) = Tail(frames)[1]
          BY <3>1, <3>2, HeadDropped
        <4> QED
          BY <1>1, <3>4, <4>1 DEF Top
      <3>6. /\ frames[2].i <= Len(req[frames[2].m])
            /\ req[frames[2].m][frames[2].i] = frames[1].m
            /\ frames[1].m = t
        <4>1. frames[1].m = t
          BY <1>3, <3>2 DEF Top
        <4>2. /\ frames[2].i <= Len(req[frames[2].m])
              /\ req[frames[2].m][frames[2].i] = frames[2 - 1].m
          BY <3>4 DEF SearchInv, Shape, Nested
        <4> QED
          BY <4>1, <4>2
      <3>7. dfs_index[frames[2].m] < dfs_index[frames[1].m]
        BY <3>4 DEF SearchInv, Shape, Ordered
      <3>8. ~AtEnd'
        <4>1. frames[2].i \in Int /\ Len(req[frames[2].m]) \in Int
          <5>1. frames[2] \in FrameSet
            BY <3>1, <3>4
          <5>2. frames[2].m \in Modules /\ frames[2].i \in Nat
            BY <5>1 DEF FrameSet
          <5>3. req[frames[2].m] \in Seq(Modules)
            BY <5>2 DEF SearchInv, Typed, GraphTypes
          <5> QED
            BY <5>2, <5>3
        <4> QED
          BY <1>1, <3>5, <3>6, <4>1 DEF AtEnd
      <3>9. Request' = t
        BY <1>1, <3>5, <3>6 DEF Request
      <3> QED
        BY <1>1, <2>1, <3>5, <3>6, <3>7, <3>8, <3>9
    <2>2. CASE x # t
      <3>1. x \in OnStack \ Framed /\ x \notin C
        BY <1>7, <1>19, <2>2
      <3>2. PICK q \in OnStack : Parent(x, q)
        BY <1>1, <3>1 DEF AsyncInv, Hanging
      <3>3. dfs_index[q] < dfs_index[x]
        BY <3>2 DEF Parent
      <3>4. q \notin C
        <4> SUFFICES ASSUME q \in C PROVE FALSE
          OBVIOUS
        <4>1. root /\ dfs_index[t] <= dfs_index[q] /\ q \in Modules
          BY <1>13
        <4>2. ~(dfs_index[t] <= dfs_index[x])
          BY <1>6, <3>1, <4>1
        <4> QED
          BY <1>4, <3>1, <3>3, <4>1, <4>2
      <3>5. Parent(x, q)'
        BY <1>1, <1>4, <1>10, <1>19, <2>2, <3>1, <3>2 DEF Parent
      <3>6. q \in OnStack'
        BY <1>7, <3>2, <3>4
      <3> QED
        BY <3>5, <3>6
    <2> QED
      BY <2>1, <2>2
  <1>36. Chained'
    <2> SUFFICES ASSUME NEW p \in Modules, status'[p] \in Finished, async_evaluation'[p],
                        cycle_root'[p] # p, ~eval_has_exception[cycle_root'[p]]
                 PROVE  \E q \in ToSet(async_parent_modules[p]) :
                           /\ cycle_root'[q] = cycle_root'[p] /\ status'[q] \in Finished
                           /\ dfs_index[q] < dfs_index[p]
      BY <1>1 DEF Chained
    <2>1. CASE p \in C
      <3>1. p # t /\ p \in OnStack \ Framed /\ dfs_index[t] < dfs_index[p] /\ cycle_root'[p] = t /\ root
        BY <1>13, <1>14, <2>1
      <3>2. PICK q \in OnStack : Parent(p, q)
        BY <1>1, <3>1 DEF AsyncInv, Hanging
      <3>3. async_evaluation[p]
        BY <1>10, <3>1
      <3>4. q \in ToSet(async_parent_modules[p]) /\ dfs_index[q] < dfs_index[p] /\ dfs_index[t] <= dfs_index[q]
        BY <1>3, <3>1, <3>2, <3>3 DEF Parent
      <3>5. q \in C
        BY <1>6, <3>1, <3>2, <3>4
      <3> QED
        BY <1>13, <3>1, <3>4, <3>5 DEF Finished
    <2>2. CASE p \notin C
      <3>1. status[p] \in Finished /\ cycle_root'[p] = cycle_root[p] /\ p # t /\ async_evaluation[p]
        BY <1>4, <1>10, <1>13, <2>2 DEF Finished
      <3>2. PICK q \in ToSet(async_parent_modules[p]) :
               /\ cycle_root[q] = cycle_root[p] /\ status[q] \in Finished
               /\ dfs_index[q] < dfs_index[p]
        BY <3>1 DEF AsyncInv, Chained
      <3>3. q \in Modules \ C
        BY <1>13, <1>17, <3>2 DEF Finished
      <3> QED
        BY <1>13, <3>1, <3>2, <3>3
    <2> QED
      BY <2>1, <2>2
  <1> QED
    BY <1>20, <1>21, <1>22, <1>23, <1>24, <1>25, <1>26, <1>27, <1>28, <1>29, <1>30, <1>31,
       <1>32, <1>33, <1>34, <1>35, <1>36 DEF AsyncInv

(***************************************************************************)
(* Between two searches.                                                   *)
(***************************************************************************)
\* A module that failed because its requests did has the root of its component failed,
\* unless the failure is still on its way.
LEMMA RootFails ==
    ASSUME SearchInv, AsyncInv, phase # "exec" \/ work = <<>>,
           NEW p \in Modules, eval_has_exception[p]
    PROVE  eval_has_exception[cycle_root[p]]
  <1> DEFINE Bad == {x \in Modules : eval_has_exception[x] /\ ~eval_has_exception[cycle_root[x]]}
             T == {dfs_index[x] : x \in Bad}
  <1>1. SUFFICES ASSUME Bad # {} PROVE FALSE
    OBVIOUS
  <1>2. SearchTypes
    BY DEF SearchInv, Typed
  <1>3. T \subseteq Nat /\ T # {}
    BY <1>1, <1>2 DEF SearchTypes
  <1>4. PICK n \in T : \A y \in T : n <= y
    <2> HIDE DEF T
    <2> QED
      BY <1>3, LeastExists
  <1>5. PICK x \in Bad : \A y \in Bad : dfs_index[x] <= dfs_index[y]
    BY <1>4
  <1>6. status[x] = "evaluated" /\ async_evaluation[x] /\ cycle_root[x] # x
    BY <1>5 DEF AsyncInv, FailedOnly
  <1>7. PICK q \in ToSet(async_parent_modules[x]) :
           cycle_root[q] = cycle_root[x] /\ dfs_index[q] < dfs_index[x]
    BY <1>5, <1>6 DEF AsyncInv, Chained, Finished
  <1>8. q \in Modules
    BY <1>5 DEF AsyncInv, Asked
  <1>9. \A y : y \in ToSet(work) => phase # "exec"
    BY ListElements DEF SearchInv, Typed, JobTypes
  <1>10. eval_has_exception[q]
    BY <1>5, <1>9 DEF AsyncInv, Spread
  <1>11. q \in Bad
    BY <1>5, <1>7, <1>8, <1>10
  <1>12. dfs_index[x] \in Nat /\ dfs_index[q] \in Nat
    BY <1>2, <1>8 DEF SearchTypes
  <1> QED
    BY <1>5, <1>7, <1>11, <1>12

\* Nobody that the next module of the list waits for is still to complete.
LEMMA NextIsFree ==
    ASSUME SearchInv, AsyncInv, phase = "exec", work = <<>>, exec_list # {},
           status[NextToRun] # "evaluated"
    PROVE  /\ NextToRun \in exec_list /\ NextToRun \in Modules
           /\ body[NextToRun] = "none" /\ status[NextToRun] = "evaluating_async"
           /\ async_evaluation[NextToRun] /\ ~eval_has_exception[NextToRun]
           /\ \A x \in exec_list : x # NextToRun => timestamp[NextToRun] < timestamp[x]
           /\ \A d \in Modules : Blocks(d) => NextToRun \notin ToSet(async_parent_modules[d])
  <1>1. AsyncTypes /\ exec_list \subseteq Modules /\ ToSet(work) = {}
    BY ListElements DEF SearchInv, Typed, JobTypes
  <1>2. PICK n \in exec_list : n = NextToRun
    BY <1>1, NextFacts
  <1>3. n \in Modules /\ \A x \in exec_list : timestamp[n] <= timestamp[x]
    BY <1>1, <1>2, NextFacts
  <1>4. /\ body[n] = "none" /\ async_evaluation[n] /\ Free(n)
        /\ status[n] = "evaluating_async" \/ eval_has_exception[n]
    BY DEF AsyncInv, Listed
  <1>5. ~eval_has_exception[n] /\ status[n] = "evaluating_async"
    BY <1>2, <1>3, <1>4 DEF AsyncInv, FailedOnly
  <1>6. \A x \in exec_list : x # n => timestamp[n] < timestamp[x]
    <2> SUFFICES ASSUME NEW x \in exec_list, x # n PROVE timestamp[n] < timestamp[x]
      OBVIOUS
    <2>1. x \in Modules /\ async_evaluation[x]
      BY <1>1 DEF AsyncInv, Listed
    <2>2. timestamp[n] # timestamp[x] /\ timestamp[n] \in Nat /\ timestamp[x] \in Nat
      BY <1>1, <1>3, <1>4, <2>1 DEF AsyncInv, Stamps, AsyncTypes
    <2> QED
      BY <1>3, <2>2
  <1>7. \A d \in Modules : Blocks(d) => n \notin ToSet(async_parent_modules[d])
    <2> SUFFICES ASSUME NEW d \in Modules, Blocks(d), n \in ToSet(async_parent_modules[d]) PROVE FALSE
      OBVIOUS
    <2>1. status[d] \in Going /\ ~Owing(d)
      BY <1>3, <1>4 DEF Free, Blocks
    <2>2. d \notin has_tla /\ (body[d] # "none" \/ d \in exec_list)
      BY <2>1 DEF Owing
    <2>3. async_evaluation[d]
      BY <2>1 DEF AsyncInv, Asked, Going
    <2>4. body[d] = "none"
      BY <1>1, <2>1, <2>2, <2>3 DEF AsyncInv, Bodies
    <2>5. n \notin Framed
      BY StackFacts DEF Searched
    <2>6. timestamp[d] < timestamp[n]
      BY <1>5, <2>5 DEF AsyncInv, InOrder
    <2>7. timestamp[n] <= timestamp[d]
      BY <1>3, <2>2, <2>4
    <2>8. timestamp[n] \in Nat /\ timestamp[d] \in Nat
      BY <1>1, <1>3 DEF AsyncTypes
    <2> QED
      BY <2>6, <2>7, <2>8
  <1> QED
    BY <1>2, <1>3, <1>4, <1>5, <1>6, <1>7

\* No search is going on, before and after a step.
Quiet ==
    /\ Framed = {} /\ OnStack = {}
    /\ \A m \in Modules : status[m] \notin {"linking", "evaluating"}

LEMMA QuietFacts ==
    SearchInv /\ phase \in {"idle", "gather", "exec"} => Quiet /\ Hanging /\ StackParents
  <1> SUFFICES ASSUME SearchInv, phase \in {"idle", "gather", "exec"}
               PROVE  Quiet /\ Hanging /\ StackParents
    OBVIOUS
  <1>1. Quiet
    BY StackFacts DEF Searched, Quiet
  <1> QED
    BY <1>1 DEF Quiet, Hanging, StackParents

LEMMA QuietNext ==
    ASSUME SearchInv', phase' \in {"idle", "gather", "exec"}
    PROVE  Quiet' /\ Hanging' /\ StackParents'
  <1>1. (SearchInv /\ phase \in {"idle", "gather", "exec"} => Quiet /\ Hanging /\ StackParents)'
    BY QuietFacts, PTL
  <1> QED
    BY <1>1

\* A step that settles functions and goes on with the lists, but completes nothing.
LEMMA SettledStep ==
    ASSUME SearchInv, SearchInv', AsyncInv,
           phase \in {"idle", "gather", "exec"}, phase' \in {"idle", "gather", "exec"},
           UNCHANGED <<has_tla, status, dfs_index, asyncVars, cycle_root, eval_has_exception, started>>,
           \A x \in Modules : \/ body'[x] = body[x]
                              \/ body[x] = "awaiting" /\ body'[x] \in {"returned", "threw"},
           exec_list' \subseteq exec_list, Ended', Worked',
           phase = "exec" => \A q \in ToSet(work) : phase' = "exec" /\ q \in ToSet(work'),
           \A d \in Modules : (Blocks(d)' => Blocks(d)) /\ (Owing(d)' => Owing(d))
    PROVE  AsyncInv'
  <1>1. UNCHANGED <<pending_async_dependencies, async_evaluation, timestamp,
                    async_parent_modules, next_timestamp>>
    BY DEF asyncVars
  <1>2. Quiet /\ Quiet' /\ Hanging' /\ StackParents'
    BY QuietFacts, QuietNext
  <1>3. AsyncTypes /\ JobTypes
    BY DEF SearchInv, Typed
  <1>4. \A x \in Modules : /\ body'[x] = "none" <=> body[x] = "none"
                           /\ body[x] = "returned" => body'[x] = "returned"
                           /\ body[x] = "threw" => body'[x] = "threw"
    <2> SUFFICES ASSUME NEW x \in Modules
                 PROVE  /\ body'[x] = "none" <=> body[x] = "none"
                        /\ body[x] = "returned" => body'[x] = "returned"
                        /\ body[x] = "threw" => body'[x] = "threw"
      OBVIOUS
    <2>1. CASE body'[x] = body[x]
      BY <2>1
    <2>2. CASE body[x] = "awaiting" /\ body'[x] \in {"returned", "threw"}
      BY <2>2
    <2> QED
      BY <2>1, <2>2
  <1>5. \A d \in Modules : \A q \in ToSet(async_parent_modules[d]) : q \in Modules
    BY DEF AsyncInv, Asked
  <1>6. Roots'
    BY DEF AsyncInv, Roots
  <1>7. Fresh'
    BY <1>1, <1>2, <1>4 DEF AsyncInv, Fresh, Quiet
  <1>8. FailedOnly'
    BY <1>1 DEF AsyncInv, FailedOnly
  <1>9. Spread'
    BY <1>1 DEF AsyncInv, Spread
  <1>10. Asked'
    BY <1>1 DEF AsyncInv, Asked
  <1>11. Waiting'
    BY <1>1, <1>4, <1>5 DEF AsyncInv, Waiting
  <1>12. InOrder'
    BY <1>1, <1>2 DEF AsyncInv, InOrder, Quiet
  <1>13. Runs'
    BY <1>4 DEF AsyncInv, Runs, RunOnce
  <1>14. Bodies'
    <2> SUFFICES ASSUME NEW m \in Modules
                 PROVE  /\ body'[m] = "awaiting" => m \in has_tla
                        /\ status[m] = "evaluating_async" => async_evaluation[m]
                        /\ status[m] # "evaluating"
                        /\ async_evaluation[m] /\ m \notin has_tla /\ status[m] \in Going
                              => body'[m] = "none" \/ (phase' = "exec" /\ m \in ToSet(work') /\ body'[m] = "threw")
                        /\ status[m] = "evaluated" /\ ~eval_has_exception[m] => body'[m] = "returned"
      BY <1>1 DEF Bodies
    <2>1. /\ body[m] = "awaiting" => m \in has_tla
          /\ status[m] = "evaluating_async" => async_evaluation[m]
          /\ async_evaluation[m] /\ m \notin has_tla /\ status[m] \in Going
                => body[m] = "none" \/ (phase = "exec" /\ m \in ToSet(work) /\ body[m] = "threw")
          /\ status[m] = "evaluated" /\ ~eval_has_exception[m] => body[m] = "returned"
      BY DEF AsyncInv, Bodies
    <2>2. status[m] # "evaluating"
      BY <1>2 DEF Quiet
    <2>3. body'[m] = "awaiting" => m \in has_tla
      BY <2>1
    <2> QED
      BY <1>4, <2>1, <2>2, <2>3
  <1>15. Stamps'
    BY <1>1 DEF AsyncInv, Stamps
  <1>16. Listed'
    <2> SUFFICES ASSUME NEW m \in exec_list'
                 PROVE  /\ body'[m] = "none" /\ async_evaluation[m] /\ Free(m)'
                        /\ status[m] = "evaluating_async" \/ eval_has_exception[m]
      BY <1>1 DEF Listed
    <2>1. /\ m \in Modules /\ body[m] = "none" /\ async_evaluation[m] /\ Free(m)
          /\ status[m] = "evaluating_async" \/ eval_has_exception[m]
      BY <1>3 DEF AsyncInv, Listed, JobTypes
    <2>2. Free(m)'
      BY <1>1, <2>1 DEF Free
    <2> QED
      BY <1>4, <2>1, <2>2
  <1>17. Counted'
    <2>1. OwingSet' \subseteq OwingSet
      BY DEF OwingSet
    <2> QED
      BY <1>1, <1>3, <2>1, CountedStays DEF AsyncInv
  <1>18. Chained'
    BY <1>1 DEF AsyncInv, Chained
  <1> QED
    BY <1>2, <1>6, <1>7, <1>8, <1>9, <1>10, <1>11, <1>12, <1>13, <1>14, <1>15, <1>16,
       <1>17, <1>18 DEF AsyncInv

LEMMA BodySettlesAsync ==
    ASSUME SearchInv, SearchInv', AsyncInv, NEW m \in Modules, NEW ok \in BOOLEAN, BodySettles(m, ok)
    PROVE  AsyncInv'
  <1>1. /\ phase = "idle" /\ phase' = "idle" /\ body[m] = "awaiting"
        /\ body' = [body EXCEPT ![m] = IF ok THEN "returned" ELSE "threw"]
        /\ jobs' = Append(jobs, [m |-> m, ok |-> ok])
        /\ UNCHANGED <<has_tla, status, dfs_index, asyncVars, cycle_root, eval_has_exception,
                       started, work, exec_list>>
    BY DEF BodySettles, graphVars, searchVars, resultVars
  <1>2. BodyTypes /\ JobTypes /\ work = <<>> /\ exec_list = {}
    BY <1>1 DEF SearchInv, Typed, Phases
  <1>3. body'[m] = (IF ok THEN "returned" ELSE "threw") /\ \A x \in Modules : x # m => body'[x] = body[x]
    BY <1>1, <1>2 DEF BodyTypes
  <1>4. \A x \in Modules : \/ body'[x] = body[x]
                           \/ body[x] = "awaiting" /\ body'[x] \in {"returned", "threw"}
    BY <1>1, <1>3
  <1>5. Ended'
    <2> DEFINE J == [m : Modules, ok : BOOLEAN]
               e == [m |-> m, ok |-> ok]
    <2>1. jobs \in Seq(J) /\ e \in J /\ e.m = m /\ e.ok = ok
      BY <1>2 DEF JobTypes
    <2>2. \A k \in DOMAIN jobs : jobs[k].m \in Modules
      BY <1>2, JobElements
    <2> HIDE DEF J, e
    <2>3. /\ DOMAIN Append(jobs, e) = 1 .. Len(jobs) + 1
          /\ \A i \in DOMAIN Append(jobs, e) :
                Append(jobs, e)[i] = IF i = Len(jobs) + 1 THEN e ELSE jobs[i]
      BY <2>1, AppendFacts
    <2>4. jobs' = Append(jobs, e) /\ DOMAIN jobs = 1 .. Len(jobs) /\ Len(jobs) \in Nat
      BY <1>1, <2>1 DEF e
    <2>5. m \in has_tla
      BY <1>1 DEF AsyncInv, Bodies
    <2> SUFFICES ASSUME NEW k \in DOMAIN jobs'
                 PROVE  /\ jobs'[k].m \in has_tla
                        /\ body'[jobs'[k].m] = IF jobs'[k].ok THEN "returned" ELSE "threw"
      BY <1>1 DEF Ended
    <2>6. CASE k = Len(jobs) + 1
      BY <1>3, <2>1, <2>3, <2>4, <2>5, <2>6
    <2>7. CASE k # Len(jobs) + 1
      <3>1. k \in DOMAIN jobs /\ jobs'[k] = jobs[k]
        BY <2>3, <2>4, <2>7
      <3>2. /\ jobs[k].m \in has_tla
            /\ body[jobs[k].m] = IF jobs[k].ok THEN "returned" ELSE "threw"
        BY <3>1 DEF AsyncInv, Ended
      <3>3. jobs[k].m # m
        BY <1>1, <3>2
      <3>4. body'[jobs[k].m] = body[jobs[k].m]
        BY <1>3, <2>2, <3>1, <3>3
      <3> QED
        BY <3>1, <3>2, <3>4
    <2> QED
      BY <2>6, <2>7
  <1>6. Worked'
    BY <1>1 DEF Worked
  <1>7. \A d \in Modules : (Blocks(d)' => Blocks(d)) /\ (Owing(d)' => Owing(d))
    BY <1>1, <1>3 DEF Blocks, Owing
  <1> QED
    BY <1>1, <1>4, <1>5, <1>6, <1>7, SettledStep

\* The reaction that is taken is for a function that has ended, and those left are.
LEMMA JobTaken ==
    ASSUME SearchInv, AsyncInv, jobs # <<>>
    PROVE  /\ Head(jobs).m \in Modules /\ Head(jobs).ok \in BOOLEAN
           /\ Head(jobs).m \in has_tla
           /\ body[Head(jobs).m] = IF Head(jobs).ok THEN "returned" ELSE "threw"
           /\ \A k \in DOMAIN Tail(jobs) :
                 /\ Tail(jobs)[k].m \in has_tla
                 /\ body[Tail(jobs)[k].m] = IF Tail(jobs)[k].ok THEN "returned" ELSE "threw"
  <1>1. JobTypes
    BY DEF SearchInv, Typed
  <1>2. /\ Head(jobs).m \in Modules /\ Head(jobs).ok \in BOOLEAN
        /\ Head(jobs) = jobs[1] /\ 1 \in DOMAIN jobs
        /\ DOMAIN Tail(jobs) = 1 .. Len(jobs) - 1 /\ DOMAIN jobs = 1 .. Len(jobs)
        /\ Len(jobs) \in Nat \ {0}
        /\ \A k \in 1 .. Len(jobs) - 1 : Tail(jobs)[k] = jobs[k + 1]
    BY <1>1, JobFacts
  <1>3. \A k \in DOMAIN Tail(jobs) : Tail(jobs)[k] = jobs[k + 1] /\ k + 1 \in DOMAIN jobs
    BY <1>2
  <1> QED
    BY <1>2, <1>3 DEF AsyncInv, Ended

LEMMA LateReactionAsync == ASSUME SearchInv, SearchInv', AsyncInv, LateReaction PROVE AsyncInv'
  <1>1. /\ phase = "idle" /\ phase' = "idle" /\ jobs # <<>> /\ jobs' = Tail(jobs)
        /\ UNCHANGED <<has_tla, status, dfs_index, asyncVars, cycle_root, eval_has_exception,
                       body, started, work, exec_list>>
    BY DEF LateReaction, graphVars, searchVars, resultVars, bodyVars
  <1>2. Ended' /\ Worked'
    BY <1>1, JobTaken DEF Ended, Worked
  <1>3. \A d \in Modules : (Blocks(d)' => Blocks(d)) /\ (Owing(d)' => Owing(d))
    BY <1>1 DEF Blocks, Owing
  <1> QED
    BY <1>1, <1>2, <1>3, SettledStep

\* The module of a reaction that is not late is in an asynchronous evaluation.
LEMMA JobGoing ==
    ASSUME SearchInv, AsyncInv, phase = "idle", jobs # <<>>, status[Head(jobs).m] # "evaluated"
    PROVE  status[Head(jobs).m] = "evaluating_async" /\ async_evaluation[Head(jobs).m]
           /\ ~eval_has_exception[Head(jobs).m]
  <1>1. Head(jobs).m \in Modules /\ body[Head(jobs).m] # "none"
    BY JobTaken
  <1>2. PICK m \in Modules : m = Head(jobs).m
    BY <1>1
  <1>3. Quiet /\ StatusTypes
    BY QuietFacts DEF SearchInv, Typed
  <1>4. status[m] \notin Pre /\ status[m] # "evaluating"
    BY <1>1, <1>2, <1>3 DEF AsyncInv, Fresh, Quiet
  <1>5. status[m] = "evaluating_async"
    BY <1>2, <1>3, <1>4 DEF StatusTypes, Statuses, Pre
  <1> QED
    BY <1>2, <1>5 DEF AsyncInv, Bodies, FailedOnly

LEMMA RejectedAsync == ASSUME SearchInv, SearchInv', AsyncInv, Rejected PROVE AsyncInv'
  <1>1. /\ phase = "idle" /\ phase' = "exec" /\ jobs # <<>> /\ jobs' = Tail(jobs)
        /\ status[Head(jobs).m] # "evaluated" /\ work' = <<Head(jobs).m>>
        /\ UNCHANGED <<has_tla, status, dfs_index, asyncVars, cycle_root, eval_has_exception,
                       body, started, exec_list>>
    BY DEF Rejected, graphVars, searchVars, resultVars, bodyVars
  <1>2. Ended'
    BY <1>1, JobTaken DEF Ended
  <1>3. Worked'
    <2>1. ToSet(work') = {Head(jobs).m}
      BY <1>1 DEF ToSet
    <2> QED
      BY <1>1, <2>1, JobGoing DEF Worked
  <1>4. \A d \in Modules : (Blocks(d)' => Blocks(d)) /\ (Owing(d)' => Owing(d))
    BY <1>1 DEF Blocks, Owing
  <1> QED
    BY <1>1, <1>2, <1>3, <1>4, SettledStep

LEMMA GatherDoneAsync == ASSUME SearchInv, SearchInv', AsyncInv, GatherDone PROVE AsyncInv'
  <1>1. /\ phase = "gather" /\ phase' = "exec" /\ work = <<>>
        /\ UNCHANGED <<has_tla, status, dfs_index, asyncVars, cycle_root, eval_has_exception,
                       body, started, work, exec_list, jobs>>
    BY DEF GatherDone, graphVars, searchVars, resultVars, bodyVars, jobVars
  <1>2. ToSet(work) = {} /\ ToSet(work') = {}
    BY <1>1 DEF ToSet
  <1>3. Ended' /\ Worked'
    BY <1>1, <1>2 DEF AsyncInv, Ended, Worked
  <1>4. \A d \in Modules : (Blocks(d)' => Blocks(d)) /\ (Owing(d)' => Owing(d))
    BY <1>1 DEF Blocks, Owing
  <1> QED
    BY <1>1, <1>3, <1>4, SettledStep

LEMMA ExecSkipAsync == ASSUME SearchInv, SearchInv', AsyncInv, ExecSkip PROVE AsyncInv'
  <1>1. /\ phase = "exec" /\ phase' = "exec" /\ work = <<>> /\ exec_list # {}
        /\ status[NextToRun] = "evaluated" /\ exec_list' = exec_list \ {NextToRun}
        /\ UNCHANGED <<has_tla, status, dfs_index, asyncVars, cycle_root, eval_has_exception,
                       body, started, work, jobs>>
    BY DEF ExecSkip, graphVars, searchVars, resultVars, bodyVars
  <1>2. Ended' /\ Worked'
    BY <1>1 DEF AsyncInv, Ended, Worked
  <1>3. \A d \in Modules : (Blocks(d)' => Blocks(d)) /\ (Owing(d)' => Owing(d))
    BY <1>1 DEF Blocks, Owing, Going
  <1> QED
    BY <1>1, <1>2, <1>3, SettledStep

LEMMA ExecDoneAsync == ASSUME SearchInv, SearchInv', AsyncInv, ExecDone PROVE AsyncInv'
  <1>1. /\ phase = "exec" /\ phase' = "idle" /\ work = <<>>
        /\ UNCHANGED <<has_tla, status, dfs_index, asyncVars, cycle_root, eval_has_exception,
                       body, started, work, exec_list, jobs>>
    BY DEF ExecDone, graphVars, searchVars, resultVars, bodyVars, jobVars
  <1>2. ToSet(work) = {}
    BY <1>1 DEF ToSet
  <1>3. Ended' /\ Worked'
    BY <1>1 DEF AsyncInv, Ended, Worked
  <1>4. \A d \in Modules : (Blocks(d)' => Blocks(d)) /\ (Owing(d)' => Owing(d))
    BY <1>1 DEF Blocks, Owing
  <1> QED
    BY <1>1, <1>2, <1>3, <1>4, SettledStep

LEMMA FulfilledAsync == ASSUME SearchInv, SearchInv', AsyncInv, Fulfilled PROVE AsyncInv'
  <1>1. PICK m \in Modules : m = Head(jobs).m
    <2>1. jobs # <<>>
      BY DEF Fulfilled
    <2> QED
      BY <2>1, JobTaken
  <1>2. /\ phase = "idle" /\ phase' = "gather" /\ jobs # <<>> /\ jobs' = Tail(jobs) /\ Head(jobs).ok
        /\ status[m] # "evaluated" /\ work' = <<m>>
        /\ async_evaluation' = [async_evaluation EXCEPT ![m] = FALSE]
        /\ status' = [status EXCEPT ![m] = "evaluated"]
        /\ UNCHANGED <<has_tla, dfs_index, pending_async_dependencies, timestamp,
                       async_parent_modules, next_timestamp, cycle_root,
                       eval_has_exception, exec_list, body, started>>
    BY <1>1 DEF Fulfilled, Evaluated, graphVars, searchVars, bodyVars
  <1>3. StatusTypes /\ AsyncTypes /\ exec_list = {} /\ work = <<>>
    BY <1>2 DEF SearchInv, Typed, Phases
  <1>4. /\ status[m] = "evaluating_async" /\ async_evaluation[m] /\ ~eval_has_exception[m]
        /\ m \in has_tla /\ body[m] = "returned"
    BY <1>1, <1>2, JobGoing, JobTaken
  <1>5. Quiet /\ Quiet' /\ Hanging' /\ StackParents' /\ ToSet(work') = {m}
    <2>1. ToSet(work') = {m}
      BY <1>2 DEF ToSet
    <2> QED
      BY <1>2, <2>1, QuietFacts, QuietNext
  <1>6. /\ status'[m] = "evaluated" /\ ~async_evaluation'[m]
        /\ \A x \in Modules : x # m => status'[x] = status[x]
                                       /\ (async_evaluation'[x] <=> async_evaluation[x])
    BY <1>2, <1>3 DEF StatusTypes, AsyncTypes
  <1>7. \A x \in Modules : eval_has_exception[x] => x # m
    BY <1>4
  <1>8. \A d \in Modules : \A q \in ToSet(async_parent_modules[d]) : q \in Modules
    BY DEF AsyncInv, Asked
  <1>9. \A d \in Modules : (Blocks(d)' => Blocks(d)) /\ (Owing(d)' => Owing(d))
    BY <1>2, <1>4, <1>5, <1>6 DEF Blocks, Owing, Going
  <1>10. Roots'
    <2>1. \A x \in Modules : status'[x] \in Finished <=> status[x] \in Finished
      BY <1>4, <1>6 DEF Finished
    <2> QED
      BY <1>2, <2>1 DEF AsyncInv, Roots
  <1>11. Fresh'
    <2>1. \A x \in Modules : status'[x] \in Pre => x # m
      BY <1>6 DEF Pre
    <2> QED
      BY <1>2, <1>5, <1>6, <2>1 DEF AsyncInv, Fresh, Quiet
  <1>12. FailedOnly'
    BY <1>2, <1>6, <1>7 DEF AsyncInv, FailedOnly
  <1>13. Spread'
    BY <1>2 DEF AsyncInv, Spread
  <1>14. Asked'
    <2> SUFFICES ASSUME NEW d \in Modules, NEW q \in ToSet(async_parent_modules[d])
                 PROVE  /\ async_evaluation'[d] \/ status'[d] = "evaluated"
                        /\ q \in Modules /\ status'[q] \notin Pre
      BY <1>2 DEF Asked
    <2>1. /\ async_evaluation[d] \/ status[d] = "evaluated"
          /\ q \in Modules /\ status[q] \notin Pre
      BY DEF AsyncInv, Asked
    <2> QED
      BY <1>6, <2>1 DEF Pre
  <1>15. Waiting'
    <2> SUFFICES ASSUME NEW d \in Modules, NEW q \in ToSet(async_parent_modules[d]), Blocks(d)'
                 PROVE  body[q] = "none" /\ (status'[q] \in Going \/ eval_has_exception[q])
      BY <1>2 DEF Waiting
    <2>1. q \in Modules /\ body[q] = "none" /\ (status[q] \in Going \/ eval_has_exception[q])
      BY <1>8, <1>9 DEF AsyncInv, Waiting
    <2>2. q # m
      BY <1>4, <2>1
    <2> QED
      BY <1>6, <2>1, <2>2
  <1>16. InOrder'
    BY <1>2, <1>5, <1>9 DEF AsyncInv, InOrder, Quiet
  <1>17. Runs'
    BY <1>2 DEF AsyncInv, Runs, RunOnce
  <1>18. Bodies'
    <2> SUFFICES ASSUME NEW x \in Modules
                 PROVE  /\ body[x] = "awaiting" => x \in has_tla
                        /\ status'[x] = "evaluating_async" => async_evaluation'[x]
                        /\ status'[x] # "evaluating"
                        /\ async_evaluation'[x] /\ x \notin has_tla /\ status'[x] \in Going
                              => body[x] = "none"
                        /\ status'[x] = "evaluated" /\ ~eval_has_exception[x] => body[x] = "returned"
      BY <1>2 DEF Bodies
    <2>1. status'[x] # "evaluating"
      BY <1>5 DEF Quiet
    <2>2. CASE x = m
      BY <1>4, <1>6, <2>1, <2>2
    <2>3. CASE x # m
      BY <1>2, <1>6, <2>1, <2>3 DEF AsyncInv, Bodies
    <2> QED
      BY <2>2, <2>3
  <1>19. Stamps'
    BY <1>2, <1>6 DEF AsyncInv, Stamps
  <1>20. Listed'
    BY <1>2, <1>3 DEF Listed
  <1>21. Counted'
    <2>1. OwingSet' \subseteq OwingSet
      BY <1>9 DEF OwingSet
    <2> QED
      BY <1>2, <1>3, <2>1, CountedStays DEF AsyncInv
  <1>22. Ended'
    BY <1>2, JobTaken DEF Ended
  <1>23. Worked'
    <2>1. IsInjective(work')
      BY <1>2 DEF IsInjective
    <2> QED
      BY <1>2, <1>4, <1>5, <1>6, <2>1 DEF Worked
  <1>24. Chained'
    <2> SUFFICES ASSUME NEW p \in Modules, status'[p] \in Finished, async_evaluation'[p],
                        cycle_root[p] # p, ~eval_has_exception[cycle_root[p]]
                 PROVE  \E q \in ToSet(async_parent_modules[p]) :
                           /\ cycle_root[q] = cycle_root[p] /\ status'[q] \in Finished
                           /\ dfs_index[q] < dfs_index[p]
      BY <1>2 DEF Chained
    <2>1. p # m /\ status[p] \in Finished /\ async_evaluation[p]
      BY <1>6
    <2>2. PICK q \in ToSet(async_parent_modules[p]) :
             /\ cycle_root[q] = cycle_root[p] /\ status[q] \in Finished
             /\ dfs_index[q] < dfs_index[p]
      BY <2>1 DEF AsyncInv, Chained
    <2>3. status'[q] \in Finished
      BY <1>6, <1>8, <2>2 DEF Finished
    <2> QED
      BY <2>2, <2>3
  <1> QED
    BY <1>5, <1>10, <1>11, <1>12, <1>13, <1>14, <1>15, <1>16, <1>17, <1>18, <1>19, <1>20,
       <1>21, <1>22, <1>23, <1>24 DEF AsyncInv

\* The next module of the list starts, ends or throws.
LEMMA RunListed ==
    ASSUME SearchInv, SearchInv', AsyncInv, phase = "exec", phase' = "exec", work = <<>>,
           exec_list # {}, exec_list' = exec_list \ {NextToRun}, status[NextToRun] # "evaluated",
           NEW o \in {"awaiting", "returned", "threw"}, Run(NextToRun, o),
           UNCHANGED <<has_tla, dfs_index, asyncVars, cycle_root, eval_has_exception, jobs>>,
           \/ o = "awaiting" /\ NextToRun \in has_tla /\ status' = status /\ work' = <<>>
           \/ /\ o = "returned" /\ NextToRun \notin has_tla
              /\ status' = [status EXCEPT ![NextToRun] = "evaluated"] /\ work' = <<>>
           \/ o = "threw" /\ NextToRun \notin has_tla /\ status' = status /\ work' = <<NextToRun>>
    PROVE  AsyncInv'
  <1>1. PICK n \in Modules : n = NextToRun
    BY NextIsFree
  <1>2. /\ n \in exec_list /\ body[n] = "none" /\ status[n] = "evaluating_async"
        /\ async_evaluation[n] /\ ~eval_has_exception[n]
        /\ \A d \in Modules : Blocks(d) => n \notin ToSet(async_parent_modules[d])
    BY <1>1, NextIsFree
  <1>3. /\ UNCHANGED <<pending_async_dependencies, async_evaluation, timestamp,
                       async_parent_modules, next_timestamp>>
    BY DEF asyncVars
  <1>4. StatusTypes /\ AsyncTypes /\ BodyTypes /\ JobTypes
    BY DEF SearchInv, Typed
  <1>5. Quiet /\ Quiet' /\ Hanging' /\ StackParents'
    BY QuietFacts, QuietNext
  <1>6. Runs' /\ body'[n] = o /\ \A x \in Modules : x # n => body'[x] = body[x]
    BY <1>1, <1>2, <1>4, RunKeeps DEF AsyncInv
  <1>7. /\ \A x \in Modules : x # n => status'[x] = status[x]
        /\ status'[n] = IF o = "returned" THEN "evaluated" ELSE "evaluating_async"
        /\ o = "awaiting" <=> n \in has_tla
    BY <1>1, <1>2, <1>4 DEF StatusTypes
  <1>8. /\ ToSet(work) = {} /\ ToSet(work') = IF o = "threw" THEN {n} ELSE {}
    BY <1>1 DEF ToSet
  <1>9. \A d \in Modules : \A q \in ToSet(async_parent_modules[d]) : q \in Modules
    BY DEF AsyncInv, Asked
  <1>10. \A d \in Modules : (Blocks(d)' => Blocks(d)) /\ (Owing(d)' => Owing(d))
    <2> SUFFICES ASSUME NEW d \in Modules
                 PROVE  (Blocks(d)' => Blocks(d)) /\ (Owing(d)' => Owing(d))
      OBVIOUS
    <2>1. CASE d = n
      BY <1>1, <1>2, <1>6, <1>7, <2>1 DEF Blocks, Owing, Going
    <2>2. CASE d # n
      BY <1>1, <1>6, <1>7, <2>2 DEF Blocks, Owing
    <2> QED
      BY <2>1, <2>2
  <1>11. Roots'
    <2>1. \A x \in Modules : status'[x] \in Finished <=> status[x] \in Finished
      BY <1>2, <1>7 DEF Finished
    <2> QED
      BY <2>1 DEF AsyncInv, Roots
  <1>12. Fresh'
    <2>1. \A x \in Modules : status'[x] \in Pre => x # n
      BY <1>7 DEF Pre
    <2> QED
      BY <1>3, <1>5, <1>6, <1>7, <2>1 DEF AsyncInv, Fresh, Quiet
  <1>13. FailedOnly'
    <2>1. \A x \in Modules : eval_has_exception[x] => x # n
      BY <1>2
    <2> QED
      BY <1>3, <1>7, <2>1 DEF AsyncInv, FailedOnly
  <1>14. Spread'
    BY <1>3, <1>8 DEF AsyncInv, Spread
  <1>15. Asked'
    <2> SUFFICES ASSUME NEW d \in Modules, NEW q \in ToSet(async_parent_modules[d])
                 PROVE  /\ async_evaluation[d] \/ status'[d] = "evaluated"
                        /\ q \in Modules /\ status'[q] \notin Pre
      BY <1>3 DEF Asked
    <2>1. /\ async_evaluation[d] \/ status[d] = "evaluated"
          /\ q \in Modules /\ status[q] \notin Pre
      BY DEF AsyncInv, Asked
    <2> QED
      BY <1>2, <1>7, <2>1 DEF Pre
  <1>16. Waiting'
    <2> SUFFICES ASSUME NEW d \in Modules, NEW q \in ToSet(async_parent_modules[d]), Blocks(d)'
                 PROVE  body'[q] = "none" /\ (status'[q] \in Going \/ eval_has_exception[q])
      BY <1>3 DEF Waiting
    <2>1. /\ Blocks(d) /\ q \in Modules /\ body[q] = "none"
          /\ (status[q] \in Going \/ eval_has_exception[q])
      BY <1>9, <1>10 DEF AsyncInv, Waiting
    <2>2. q # n
      BY <1>2, <2>1
    <2> QED
      BY <1>6, <1>7, <2>1, <2>2
  <1>17. InOrder'
    BY <1>3, <1>5, <1>10 DEF AsyncInv, InOrder, Quiet
  <1>18. Bodies'
    <2> SUFFICES ASSUME NEW x \in Modules
                 PROVE  /\ body'[x] = "awaiting" => x \in has_tla
                        /\ status'[x] = "evaluating_async" => async_evaluation[x]
                        /\ status'[x] # "evaluating"
                        /\ async_evaluation[x] /\ x \notin has_tla /\ status'[x] \in Going
                              => body'[x] = "none" \/ (x \in ToSet(work') /\ body'[x] = "threw")
                        /\ status'[x] = "evaluated" /\ ~eval_has_exception[x] => body'[x] = "returned"
      BY <1>3 DEF Bodies
    <2>1. status'[x] # "evaluating"
      BY <1>5 DEF Quiet
    <2>2. CASE x = n
      BY <1>2, <1>6, <1>7, <1>8, <2>1, <2>2 DEF Going
    <2>3. CASE x # n
      BY <1>6, <1>7, <1>8, <2>1, <2>3 DEF AsyncInv, Bodies
    <2> QED
      BY <2>2, <2>3
  <1>19. Stamps'
    BY <1>3 DEF AsyncInv, Stamps
  <1>20. Listed'
    <2> SUFFICES ASSUME NEW m \in exec_list'
                 PROVE  /\ body'[m] = "none" /\ async_evaluation[m] /\ Free(m)'
                        /\ status'[m] = "evaluating_async" \/ eval_has_exception[m]
      BY <1>3 DEF Listed
    <2>1. /\ m \in Modules /\ m # n /\ body[m] = "none" /\ async_evaluation[m] /\ Free(m)
          /\ status[m] = "evaluating_async" \/ eval_has_exception[m]
      BY <1>1, <1>4 DEF AsyncInv, Listed, JobTypes
    <2>2. Free(m)'
      BY <1>3, <1>10, <2>1 DEF Free
    <2> QED
      BY <1>6, <1>7, <2>1, <2>2
  <1>21. Counted'
    <2>1. OwingSet' \subseteq OwingSet
      BY <1>10 DEF OwingSet
    <2> QED
      BY <1>3, <1>4, <2>1, CountedStays DEF AsyncInv
  <1>22. Ended'
    <2>1. \A k \in DOMAIN jobs : jobs[k].m \in Modules
      BY <1>4, JobElements
    <2>2. \A k \in DOMAIN jobs : jobs[k].m # n
      BY <1>2 DEF AsyncInv, Ended
    <2> QED
      BY <1>6, <2>1, <2>2 DEF AsyncInv, Ended
  <1>23. Worked'
    BY <1>7, <1>8 DEF Worked
  <1>24. Chained'
    <2>1. \A x \in Modules : status'[x] \in Finished <=> status[x] \in Finished
      BY <1>2, <1>7 DEF Finished
    <2> QED
      BY <1>3, <1>9, <2>1 DEF AsyncInv, Chained
  <1> QED
    BY <1>5, <1>6, <1>11, <1>12, <1>13, <1>14, <1>15, <1>16, <1>17, <1>18, <1>19, <1>20,
       <1>21, <1>22, <1>23, <1>24 DEF AsyncInv

LEMMA ExecAsyncAsync == ASSUME SearchInv, SearchInv', AsyncInv, ExecAsync PROVE AsyncInv'
  <1>1. /\ phase = "exec" /\ phase' = "exec" /\ work = <<>> /\ exec_list # {} /\ work' = work
        /\ status[NextToRun] # "evaluated" /\ NextToRun \in has_tla /\ status' = status
        /\ exec_list' = exec_list \ {NextToRun} /\ Run(NextToRun, "awaiting")
        /\ UNCHANGED <<has_tla, dfs_index, asyncVars, cycle_root, eval_has_exception, jobs>>
    BY DEF ExecAsync, graphVars, searchVars, resultVars
  <1> QED
    BY <1>1, RunListed

LEMMA ExecSyncAsync ==
    ASSUME SearchInv, SearchInv', AsyncInv, NEW ok \in BOOLEAN, ExecSync(ok) PROVE AsyncInv'
  <1>1. /\ phase = "exec" /\ phase' = "exec" /\ work = <<>> /\ exec_list # {}
        /\ status[NextToRun] # "evaluated" /\ NextToRun \notin has_tla
        /\ exec_list' = exec_list \ {NextToRun}
        /\ Run(NextToRun, IF ok THEN "returned" ELSE "threw")
        /\ UNCHANGED <<has_tla, dfs_index, asyncVars, cycle_root, eval_has_exception, jobs>>
    BY DEF ExecSync, graphVars, searchVars
  <1>2. CASE ok
    <2>1. /\ Run(NextToRun, "returned") /\ work' = work
          /\ status' = [status EXCEPT ![NextToRun] = "evaluated"]
      BY <1>1, <1>2 DEF ExecSync, Evaluated
    <2> QED
      BY <1>1, <2>1, RunListed
  <1>3. CASE ~ok
    <2>1. /\ Run(NextToRun, "threw") /\ work' = <<NextToRun>> /\ status' = status
      BY <1>1, <1>3 DEF ExecSync
    <2> QED
      BY <1>1, <2>1, RunListed
  <1> QED
    BY <1>2, <1>3

\* The elements of one list after the other.
LEMMA ListsJoined ==
    ASSUME NEW S, NEW s \in Seq(S), NEW t \in Seq(S)
    PROVE  /\ \A x : x \in ToSet(s \o t) <=> x \in ToSet(s) \/ x \in ToSet(t)
           /\ DOMAIN (s \o t) = 1 .. Len(s) + Len(t)
           /\ \A k \in 1 .. Len(s) + Len(t) : (s \o t)[k] = IF k <= Len(s) THEN s[k] ELSE t[k - Len(s)]
  <1>1. /\ DOMAIN (s \o t) = 1 .. Len(s) + Len(t)
        /\ \A k \in 1 .. Len(s) + Len(t) : (s \o t)[k] = IF k <= Len(s) THEN s[k] ELSE t[k - Len(s)]
        /\ Len(s) \in Nat /\ Len(t) \in Nat /\ DOMAIN s = 1 .. Len(s) /\ DOMAIN t = 1 .. Len(t)
    OBVIOUS
  <1> DEFINE u == s \o t
  <1>2. u = s \o t
    OBVIOUS
  <1> HIDE DEF u
  <1>3. ASSUME NEW k \in DOMAIN u PROVE u[k] \in ToSet(s) \union ToSet(t)
    <2>1. CASE k <= Len(s)
      BY <1>1, <1>2, <1>3, <2>1 DEF ToSet
    <2>2. CASE k > Len(s)
      <3>1. k - Len(s) \in DOMAIN t /\ u[k] = t[k - Len(s)]
        BY <1>1, <1>2, <1>3, <2>2
      <3> QED
        BY <3>1 DEF ToSet
    <2> QED
      BY <1>1, <1>2, <2>1, <2>2
  <1>4. ASSUME NEW k \in DOMAIN s PROVE s[k] \in ToSet(u)
    <2>1. k \in DOMAIN u /\ u[k] = s[k]
      BY <1>1, <1>2
    <2> QED
      BY <2>1 DEF ToSet
  <1>5. ASSUME NEW k \in DOMAIN t PROVE t[k] \in ToSet(u)
    <2>1. k + Len(s) \in DOMAIN u /\ u[k + Len(s)] = t[k]
      BY <1>1, <1>2
    <2> QED
      BY <2>1 DEF ToSet
  <1>6. ToSet(u) = ToSet(s) \union ToSet(t)
    BY <1>3, <1>4, <1>5 DEF ToSet
  <1> QED
    BY <1>1, <1>2, <1>6

\* Two lists without repetition that share nothing.
LEMMA JoinedOnce ==
    ASSUME NEW S, NEW s \in Seq(S), NEW t \in Seq(S), IsInjective(s), IsInjective(t),
           ToSet(s) \intersect ToSet(t) = {}
    PROVE  IsInjective(s \o t)
  <1> DEFINE u == s \o t
  <1>1. /\ DOMAIN u = 1 .. Len(s) + Len(t)
        /\ \A k \in 1 .. Len(s) + Len(t) : u[k] = IF k <= Len(s) THEN s[k] ELSE t[k - Len(s)]
    BY ListsJoined
  <1>2. Len(s) \in Nat /\ Len(t) \in Nat /\ DOMAIN s = 1 .. Len(s) /\ DOMAIN t = 1 .. Len(t)
    OBVIOUS
  <1> HIDE DEF u
  <1> SUFFICES ASSUME NEW j \in DOMAIN u, NEW k \in DOMAIN u, u[j] = u[k] PROVE j = k
    BY DEF IsInjective, u
  <1>3. ASSUME NEW a \in DOMAIN u, NEW b \in DOMAIN u, a <= Len(s), b > Len(s) PROVE u[a] # u[b]
    <2>1. a \in DOMAIN s /\ u[a] = s[a] /\ b - Len(s) \in DOMAIN t /\ u[b] = t[b - Len(s)]
      BY <1>1, <1>2, <1>3
    <2>2. u[a] \in ToSet(s) /\ u[b] \in ToSet(t)
      BY <2>1 DEF ToSet
    <2> QED
      BY <2>2
  <1>4. CASE j <= Len(s) /\ k <= Len(s)
    <2>1. j \in DOMAIN s /\ k \in DOMAIN s /\ s[j] = s[k]
      BY <1>1, <1>2, <1>4
    <2> QED
      BY <2>1 DEF IsInjective
  <1>5. CASE j > Len(s) /\ k > Len(s)
    <2>1. /\ j - Len(s) \in DOMAIN t /\ k - Len(s) \in DOMAIN t
          /\ t[j - Len(s)] = t[k - Len(s)]
      BY <1>1, <1>2, <1>5
    <2>2. j - Len(s) = k - Len(s)
      BY <2>1 DEF IsInjective
    <2> QED
      BY <1>1, <1>2, <2>2
  <1> QED
    BY <1>1, <1>2, <1>3, <1>4, <1>5

\* A list without repetition, its head taken off.
LEMMA TailOnce ==
    ASSUME NEW S, NEW s \in Seq(S), s # <<>>, IsInjective(s)
    PROVE  IsInjective(Tail(s)) /\ Head(s) \notin ToSet(Tail(s))
  <1>1. /\ DOMAIN Tail(s) = 1 .. Len(s) - 1 /\ Len(s) \in Nat \ {0} /\ DOMAIN s = 1 .. Len(s)
        /\ Head(s) = s[1] /\ \A k \in 1 .. Len(s) - 1 : Tail(s)[k] = s[k + 1]
    BY HeadDropped
  <1>2. \A k \in DOMAIN Tail(s) : Tail(s)[k] = s[k + 1] /\ k + 1 \in DOMAIN s /\ k + 1 # 1 /\ k \in Nat
    BY <1>1
  <1>3. 1 \in DOMAIN s
    BY <1>1
  <1>4. \A j, k \in DOMAIN s : s[j] = s[k] => j = k
    BY DEF IsInjective
  <1>5. Head(s) \notin ToSet(Tail(s))
    BY <1>1, <1>2, <1>3, <1>4 DEF ToSet
  <1>6. ASSUME NEW j \in DOMAIN Tail(s), NEW k \in DOMAIN Tail(s), Tail(s)[j] = Tail(s)[k] PROVE j = k
    <2>1. j + 1 = k + 1
      BY <1>2, <1>4, <1>6
    <2> QED
      BY <1>2, <2>1
  <1> QED
    BY <1>5, <1>6 DEF IsInjective

LEMMA RejectAsync == ASSUME SearchInv, SearchInv', AsyncInv, Reject PROVE AsyncInv'
  <1>1. /\ phase = "exec" /\ phase' = "exec" /\ work # <<>>
        /\ UNCHANGED <<has_tla, dfs_index, pending_async_dependencies, async_evaluation, timestamp,
                       async_parent_modules, next_timestamp, cycle_root, exec_list, jobs, body, started>>
    BY DEF Reject, graphVars, searchVars, asyncVars, bodyVars
  <1>2. StatusTypes /\ AsyncTypes /\ ResultTypes /\ JobTypes
    BY DEF SearchInv, Typed
  <1>3. /\ Head(work) \in ToSet(work) /\ Tail(work) \in Seq(Modules) /\ work \in Seq(Modules)
        /\ ToSet(work) \subseteq Modules /\ ToSet(work) = {Head(work)} \union ToSet(Tail(work))
    BY <1>1, <1>2, ListElements DEF JobTypes
  <1>4. PICK m \in Modules : m = Head(work)
    BY <1>3
  <1>5. /\ m \in ToSet(work) /\ ToSet(work) = {m} \union ToSet(Tail(work))
        /\ status[m] = "evaluating_async" \/ eval_has_exception[m]
    BY <1>1, <1>3, <1>4 DEF AsyncInv, Worked
  <1>6. Quiet /\ Quiet' /\ Hanging' /\ StackParents'
    BY <1>1, QuietFacts, QuietNext
  <1>7. \A d \in Modules : \A q \in ToSet(async_parent_modules[d]) : q \in Modules
    BY DEF AsyncInv, Asked
  <1>8. \A x \in Modules : eval_has_exception[x] => status[x] = "evaluated"
    BY DEF AsyncInv, FailedOnly
  <1>9. /\ status'[m] = "evaluated" /\ eval_has_exception'[m]
        /\ \A x \in Modules : x # m => /\ status'[x] = status[x]
                                       /\ (eval_has_exception'[x] <=> eval_has_exception[x])
        /\ status[m] = "evaluated" => work' = Tail(work)
        /\ status[m] # "evaluated" => work' = async_parent_modules[m] \o Tail(work)
    <2>1. CASE status[m] = "evaluated"
      <3>1. work' = Tail(work) /\ status' = status /\ eval_has_exception' = eval_has_exception
        BY <1>4, <2>1 DEF Reject
      <3> QED
        BY <1>5, <2>1, <3>1
    <2>2. CASE status[m] # "evaluated"
      <3>1. /\ eval_has_exception' = [eval_has_exception EXCEPT ![m] = TRUE]
            /\ status' = [status EXCEPT ![m] = "evaluated"]
            /\ work' = async_parent_modules[m] \o Tail(work)
        BY <1>4, <2>2 DEF Reject, Blamed
      <3> QED
        BY <1>2, <2>2, <3>1 DEF StatusTypes, ResultTypes
    <2> QED
      BY <2>1, <2>2
  <1>10. /\ ToSet(Tail(work)) \subseteq ToSet(work')
         /\ status[m] # "evaluated" => ToSet(async_parent_modules[m]) \subseteq ToSet(work')
         /\ \A q \in ToSet(work') : \/ q \in ToSet(Tail(work))
                                    \/ status[m] # "evaluated" /\ q \in ToSet(async_parent_modules[m])
    <2>1. CASE status[m] = "evaluated"
      BY <1>9, <2>1
    <2>2. CASE status[m] # "evaluated"
      <3>1. async_parent_modules[m] \in Seq(Modules)
        BY <1>2 DEF AsyncTypes
      <3>2. ToSet(work') = ToSet(async_parent_modules[m]) \union ToSet(Tail(work))
        <4>1. \A x : x \in ToSet(async_parent_modules[m] \o Tail(work))
                       <=> x \in ToSet(async_parent_modules[m]) \/ x \in ToSet(Tail(work))
          BY <1>3, <3>1, ListsJoined
        <4> QED
          BY <1>9, <2>2, <4>1
      <3> QED
        BY <2>2, <3>2
    <2> QED
      BY <2>1, <2>2
  <1>11. \A x \in Modules : eval_has_exception[x] => eval_has_exception'[x]
    BY <1>9
  <1>12. \A d \in Modules : (Blocks(d)' => Blocks(d)) /\ (Owing(d)' => Owing(d))
    <2> SUFFICES ASSUME NEW d \in Modules
                 PROVE  (Blocks(d)' => Blocks(d)) /\ (Owing(d)' => Owing(d))
      OBVIOUS
    <2>1. CASE d = m
      BY <1>1, <1>9, <2>1 DEF Blocks, Owing, Going
    <2>2. CASE d # m
      BY <1>1, <1>9, <2>2 DEF Blocks, Owing
    <2> QED
      BY <2>1, <2>2
  <1>13. \A x \in Modules : status'[x] \in Finished <=> status[x] \in Finished
    BY <1>5, <1>8, <1>9 DEF Finished
  <1>14. Roots'
    BY <1>1, <1>13 DEF AsyncInv, Roots
  <1>15. Fresh'
    <2>1. \A x \in Modules : status'[x] \in Pre => x # m
      BY <1>9 DEF Pre
    <2> QED
      BY <1>1, <1>6, <1>9, <2>1 DEF AsyncInv, Fresh, Quiet
  <1>16. FailedOnly'
    <2> SUFFICES ASSUME NEW x \in Modules, eval_has_exception'[x]
                 PROVE  /\ status'[x] = "evaluated"
                        /\ async_evaluation[x] \/ eval_has_exception'[cycle_root[x]]
      BY <1>1 DEF FailedOnly
    <2>1. CASE eval_has_exception[x]
      <3>1. status[x] = "evaluated" /\ (async_evaluation[x] \/ eval_has_exception[cycle_root[x]])
        BY <2>1 DEF AsyncInv, FailedOnly
      <3>2. cycle_root[x] \in Modules
        BY <3>1 DEF AsyncInv, Roots, Finished
      <3> QED
        BY <1>9, <1>11, <3>1, <3>2
    <2>2. CASE ~eval_has_exception[x]
      <3>1. x = m
        BY <1>9, <2>2
      <3>2. async_evaluation[m]
        BY <1>5, <2>2, <3>1 DEF AsyncInv, Bodies
      <3> QED
        BY <1>9, <3>1, <3>2
    <2> QED
      BY <2>1, <2>2
  <1>17. Spread'
    <2> SUFFICES ASSUME NEW x \in Modules, eval_has_exception'[x], NEW q \in ToSet(async_parent_modules[x])
                 PROVE  eval_has_exception'[q] \/ q \in ToSet(work')
      BY <1>1 DEF Spread
    <2>1. q \in Modules
      BY <1>7
    <2>2. CASE eval_has_exception[x]
      <3>1. eval_has_exception[q] \/ q \in ToSet(work)
        BY <2>2 DEF AsyncInv, Spread
      <3> QED
        BY <1>5, <1>9, <1>10, <1>11, <2>1, <3>1
    <2>3. CASE ~eval_has_exception[x]
      <3>1. x = m /\ status[m] # "evaluated"
        BY <1>5, <1>9, <2>3
      <3> QED
        BY <1>10, <3>1
    <2> QED
      BY <2>2, <2>3
  <1>18. Asked'
    <2> SUFFICES ASSUME NEW d \in Modules, NEW q \in ToSet(async_parent_modules[d])
                 PROVE  /\ async_evaluation[d] \/ status'[d] = "evaluated"
                        /\ q \in Modules /\ status'[q] \notin Pre
      BY <1>1 DEF Asked
    <2>1. /\ async_evaluation[d] \/ status[d] = "evaluated"
          /\ q \in Modules /\ status[q] \notin Pre
      BY DEF AsyncInv, Asked
    <2> QED
      BY <1>9, <2>1 DEF Pre
  <1>19. Waiting'
    <2> SUFFICES ASSUME NEW d \in Modules, NEW q \in ToSet(async_parent_modules[d]), Blocks(d)'
                 PROVE  body[q] = "none" /\ (status'[q] \in Going \/ eval_has_exception'[q])
      BY <1>1 DEF Waiting
    <2>1. q \in Modules /\ body[q] = "none" /\ (status[q] \in Going \/ eval_has_exception[q])
      BY <1>7, <1>12 DEF AsyncInv, Waiting
    <2>2. CASE q = m
      BY <1>9, <2>1, <2>2
    <2>3. CASE q # m
      BY <1>9, <2>1, <2>3
    <2> QED
      BY <2>2, <2>3
  <1>20. InOrder'
    BY <1>1, <1>6, <1>7, <1>11, <1>12 DEF AsyncInv, InOrder, Quiet
  <1>21. Runs'
    BY <1>1 DEF AsyncInv, Runs, RunOnce
  <1>22. Bodies'
    <2> SUFFICES ASSUME NEW x \in Modules
                 PROVE  /\ body[x] = "awaiting" => x \in has_tla
                        /\ status'[x] = "evaluating_async" => async_evaluation[x]
                        /\ status'[x] # "evaluating"
                        /\ async_evaluation[x] /\ x \notin has_tla /\ status'[x] \in Going
                              => body[x] = "none" \/ (x \in ToSet(work') /\ body[x] = "threw")
                        /\ status'[x] = "evaluated" /\ ~eval_has_exception'[x] => body[x] = "returned"
      BY <1>1 DEF Bodies
    <2>1. status'[x] # "evaluating" /\ (body[x] = "awaiting" => x \in has_tla)
      BY <1>6 DEF Quiet, AsyncInv, Bodies
    <2>2. CASE x = m
      BY <1>9, <2>1, <2>2 DEF Going
    <2>3. CASE x # m
      <3>1. x \in ToSet(work) => x \in ToSet(work')
        BY <1>5, <1>10, <2>3
      <3>2. /\ status[x] = "evaluating_async" => async_evaluation[x]
            /\ async_evaluation[x] /\ x \notin has_tla /\ status[x] \in Going
                  => body[x] = "none" \/ (x \in ToSet(work) /\ body[x] = "threw")
            /\ status[x] = "evaluated" /\ ~eval_has_exception[x] => body[x] = "returned"
        BY <1>1 DEF AsyncInv, Bodies
      <3> QED
        BY <1>9, <2>1, <2>3, <3>1, <3>2
    <2> QED
      BY <2>2, <2>3
  <1>23. Stamps'
    BY <1>1 DEF AsyncInv, Stamps
  <1>24. Listed'
    <2> SUFFICES ASSUME NEW x \in exec_list
                 PROVE  /\ body[x] = "none" /\ async_evaluation[x] /\ Free(x)'
                        /\ status'[x] = "evaluating_async" \/ eval_has_exception'[x]
      BY <1>1 DEF Listed
    <2>1. /\ x \in Modules /\ body[x] = "none" /\ async_evaluation[x] /\ Free(x)
          /\ status[x] = "evaluating_async" \/ eval_has_exception[x]
      BY <1>2 DEF AsyncInv, Listed, JobTypes
    <2>2. Free(x)'
      BY <1>1, <1>12, <2>1 DEF Free
    <2>3. status'[x] = "evaluating_async" \/ eval_has_exception'[x]
      BY <1>9, <2>1
    <2> QED
      BY <2>1, <2>2, <2>3
  <1>25. Counted'
    <2>1. OwingSet' \subseteq OwingSet
      BY <1>12 DEF OwingSet
    <2> QED
      BY <1>1, <1>2, <2>1, CountedStays DEF AsyncInv
  <1>26. Ended'
    BY <1>1 DEF AsyncInv, Ended
  <1>27. Worked'
    <2> SUFFICES ASSUME NEW q \in ToSet(work')
                 PROVE  status'[q] = "evaluating_async" \/ eval_has_exception'[q]
      BY <1>1 DEF Worked
    <2>1. CASE q \in ToSet(Tail(work))
      <3>1. q \in Modules /\ (status[q] = "evaluating_async" \/ eval_has_exception[q])
        BY <1>1, <1>3, <2>1 DEF AsyncInv, Worked
      <3> QED
        BY <1>9, <3>1
    <2>2. CASE status[m] # "evaluated" /\ q \in ToSet(async_parent_modules[m])
      <3>1. Blocks(m)
        BY <1>5, <1>8, <2>2 DEF Blocks, Going
      <3>2. q \in Modules /\ (status[q] \in Going \/ eval_has_exception[q])
        BY <1>7, <2>2, <3>1 DEF AsyncInv, Waiting
      <3>3. status[q] = "evaluating_async" \/ eval_has_exception[q]
        BY <1>6, <3>2 DEF Quiet, Going
      <3> QED
        BY <1>9, <3>2, <3>3
    <2> QED
      BY <1>10, <2>1, <2>2
  <1>28. Chained'
    <2> SUFFICES ASSUME NEW p \in Modules, status'[p] \in Finished, async_evaluation[p],
                        cycle_root[p] # p, ~eval_has_exception'[cycle_root[p]]
                 PROVE  \E q \in ToSet(async_parent_modules[p]) :
                           /\ cycle_root[q] = cycle_root[p] /\ status'[q] \in Finished
                           /\ dfs_index[q] < dfs_index[p]
      BY <1>1 DEF Chained
    <2>1. status[p] \in Finished
      BY <1>13
    <2>2. ~eval_has_exception[cycle_root[p]]
      BY <1>11, <2>1 DEF AsyncInv, Roots
    <2>3. PICK q \in ToSet(async_parent_modules[p]) :
             /\ cycle_root[q] = cycle_root[p] /\ status[q] \in Finished
             /\ dfs_index[q] < dfs_index[p]
      BY <2>1, <2>2 DEF AsyncInv, Chained
    <2> QED
      BY <1>7, <1>13, <2>3
  <1> QED
    BY <1>6, <1>14, <1>15, <1>16, <1>17, <1>18, <1>19, <1>20, <1>21, <1>22, <1>23, <1>24,
       <1>25, <1>26, <1>27, <1>28 DEF AsyncInv

\* What gather_available_ancestors finds among the requesters of a module.
LEMMA OpenFacts ==
    ASSUME SearchInv, AsyncInv, phase = "gather", NEW m \in Modules, m \in ToSet(work),
           NEW p \in OpenParents(m)
    PROVE  /\ p \in Modules /\ p \in ToSet(async_parent_modules[m]) /\ p \notin exec_list
           /\ status[p] = "evaluating_async" /\ ~eval_has_exception[p] /\ async_evaluation[p]
           /\ body[p] = "none" /\ m \in OwingSet
  <1>1. p \in ToSet(async_parent_modules[m]) /\ p \notin exec_list /\ ~eval_has_exception[cycle_root[p]]
    BY DEF OpenParents
  <1>2. p \in Modules /\ Blocks(m)
    BY <1>1 DEF AsyncInv, Asked, Blocks
  <1>3. body[p] = "none" /\ (status[p] \in Going \/ eval_has_exception[p])
    BY <1>1, <1>2 DEF AsyncInv, Waiting
  <1>4. ~eval_has_exception[p]
    BY <1>1, <1>2, RootFails
  <1>5. Quiet
    BY QuietFacts
  <1>6. status[p] = "evaluating_async"
    BY <1>2, <1>3, <1>4, <1>5 DEF Quiet, Going
  <1>7. async_evaluation[p]
    BY <1>2, <1>6 DEF AsyncInv, Bodies
  <1>8. m \in OwingSet
    BY DEF OwingSet, Owing
  <1> QED
    BY <1>1, <1>2, <1>3, <1>4, <1>6, <1>7, <1>8

LEMMA GatherAsync == ASSUME SearchInv, SearchInv', AsyncInv, Gather PROVE AsyncInv'
  <1>1. PICK m : m = Head(work)
    OBVIOUS
  <1>2. PICK freed : freed = {p \in OpenParents(m) : Left(p, m) = 0}
    OBVIOUS
  <1>3. /\ phase = "gather" /\ phase' = "gather" /\ work # <<>>
        /\ pending_async_dependencies' =
               [p \in Modules |-> IF p \in OpenParents(m) THEN Left(p, m)
                                  ELSE pending_async_dependencies[p]]
        /\ exec_list' = exec_list \union freed
        /\ work' = Tail(work) \o SetToSeq(Onward(freed))
        /\ UNCHANGED <<has_tla, status, dfs_index, async_evaluation, timestamp,
                       async_parent_modules, next_timestamp, cycle_root,
                       eval_has_exception, jobs, body, started>>
    BY <1>1, <1>2 DEF Gather, graphVars, searchVars, resultVars, bodyVars
  <1>4. AsyncTypes /\ JobTypes
    BY DEF SearchInv, Typed
  <1>5. /\ m \in ToSet(work) /\ Tail(work) \in Seq(Modules) /\ work \in Seq(Modules)
        /\ m \in Modules /\ ToSet(work) = {m} \union ToSet(Tail(work))
    BY <1>1, <1>3, <1>4, ListElements DEF JobTypes
  <1>6. /\ IsInjective(work)
        /\ \A x \in ToSet(work) : /\ \/ x \in exec_list /\ x \notin has_tla
                                     \/ status[x] = "evaluated" /\ body[x] = "returned"
                                  /\ ~eval_has_exception[x]
    BY <1>3 DEF AsyncInv, Worked
  <1>7. IsInjective(Tail(work)) /\ m \notin ToSet(Tail(work))
    BY <1>1, <1>3, <1>5, <1>6, TailOnce
  <1>8. \A p \in OpenParents(m) :
           /\ p \in Modules /\ p \in ToSet(async_parent_modules[m]) /\ p \notin exec_list
           /\ status[p] = "evaluating_async" /\ ~eval_has_exception[p] /\ async_evaluation[p]
           /\ body[p] = "none"
    BY <1>3, <1>5, OpenFacts
  <1>9. freed \subseteq OpenParents(m) /\ \A p \in freed : Left(p, m) = 0
    BY <1>2
  <1>10. /\ SetToSeq(Onward(freed)) \in Seq(Modules) /\ IsInjective(SetToSeq(Onward(freed)))
         /\ ToSet(SetToSeq(Onward(freed))) = freed \ has_tla /\ freed \subseteq Modules
    BY <1>4, <1>5, <1>9, FreedListed
  <1>11. ToSet(work') = ToSet(Tail(work)) \union (freed \ has_tla)
    <2>1. \A x : x \in ToSet(Tail(work) \o SetToSeq(Onward(freed)))
                   <=> x \in ToSet(Tail(work)) \/ x \in ToSet(SetToSeq(Onward(freed)))
      BY <1>5, <1>10, ListsJoined
    <2> QED
      BY <1>3, <1>10, <2>1
  <1>12. \A x \in freed : x \notin ToSet(work)
    <2> SUFFICES ASSUME NEW x \in freed, x \in ToSet(work) PROVE FALSE
      OBVIOUS
    <2>1. x \notin exec_list /\ status[x] = "evaluating_async"
      BY <1>8, <1>9
    <2> QED
      BY <1>6, <2>1
  <1>13. Quiet /\ Quiet' /\ Hanging' /\ StackParents'
    BY <1>3, QuietFacts, QuietNext
  <1>14. \A d \in Modules : \A q \in ToSet(async_parent_modules[d]) : q \in Modules
    BY DEF AsyncInv, Asked
  <1>15. \A d \in Modules : (Blocks(d)' => Blocks(d)) /\ (Owing(d)' => Owing(d) /\ d # m)
    <2> SUFFICES ASSUME NEW d \in Modules
                 PROVE  (Blocks(d)' => Blocks(d)) /\ (Owing(d)' => Owing(d) /\ d # m)
      OBVIOUS
    <2>1. CASE d \in freed
      <3>1. status[d] = "evaluating_async" /\ body[d] = "none" /\ d \notin exec_list
        BY <1>8, <1>9, <2>1
      <3> QED
        BY <1>3, <1>5, <1>12, <2>1, <3>1 DEF Blocks, Owing, Going
    <2>2. CASE d \notin freed
      <3>1. (d \in ToSet(work') <=> d \in ToSet(Tail(work))) /\ (d \in exec_list' <=> d \in exec_list)
        BY <1>3, <1>11, <2>2
      <3>2. d \in ToSet(Tail(work)) => d \in ToSet(work) /\ d # m
        BY <1>5, <1>7
      <3>3. CASE d = m
        <4>1. ~(status[m] \in Going /\ (m \in has_tla \/ (body[m] = "none" /\ m \notin exec_list)))
          BY <1>5, <1>6 DEF Going
        <4> QED
          BY <1>3, <1>5, <3>1, <3>2, <3>3, <4>1 DEF Blocks, Owing
      <3>4. CASE d # m
        BY <1>3, <3>1, <3>2, <3>4 DEF Blocks, Owing
      <3> QED
        BY <3>3, <3>4
    <2> QED
      BY <2>1, <2>2
  <1>16. /\ OwingSet' \subseteq OwingSet \ {m} /\ OwingSet \in SUBSET Modules
         /\ OwingSet' \in SUBSET Modules /\ m \in OwingSet
    <2>1. m \in OwingSet
      BY <1>3, <1>5 DEF OwingSet, Owing
    <2> QED
      BY <1>15, <2>1 DEF OwingSet
  <1>17. \A p \in Modules :
            /\ IsFiniteSet(Owed(p)') /\ Cardinality(Owed(p)') \in Nat
            /\ pending_async_dependencies'[p] >= Cardinality(Owed(p)')
    <2> SUFFICES ASSUME NEW p \in Modules
                 PROVE  /\ IsFiniteSet(Owed(p)') /\ Cardinality(Owed(p)') \in Nat
                        /\ pending_async_dependencies'[p] >= Cardinality(Owed(p)')
      OBVIOUS
    <2> DEFINE f == async_parent_modules
               A == EdgesTo(OwingSet, f, p)
               B == EdgesTo(OwingSet \ {m}, f, p)
               C == EdgesTo(OwingSet', f, p)
    <2>1. /\ f \in [Modules -> Seq(Modules)] /\ Owed(p)' = C /\ Owed(p) = A
          /\ pending_async_dependencies[p] \in Int /\ f[m] \in Seq(Modules)
      BY <1>3, <1>4, <1>5 DEF AsyncTypes, Owed
    <2>2. IsFiniteSet(A) /\ pending_async_dependencies[p] >= Cardinality(A)
      BY <2>1 DEF AsyncInv, Counted
    <2>3. IsFiniteSet(B) /\ Cardinality(A) \in Nat /\ Cardinality(B) \in Nat
      BY <1>16, <2>1, <2>2, EdgesRemoved
    <2>4. Cardinality(B) <= Cardinality(A) - Occurs(p, f[m])
      BY <1>16, <2>1, <2>2, EdgesRemoved
    <2>5. IsFiniteSet(C) /\ Cardinality(C) <= Cardinality(B) /\ Cardinality(C) \in Nat
      BY <1>16, <2>3, EdgesFewer
    <2>6. Occurs(p, f[m]) \in Nat
      BY <2>1, OccursFacts
    <2> HIDE DEF A, B, C, f
    <2>7. CASE p \in OpenParents(m)
      <3>1. pending_async_dependencies'[p] = pending_async_dependencies[p] - Occurs(p, f[m])
        BY <1>3, <2>7 DEF Left, f
      <3>2. pending_async_dependencies'[p] >= Cardinality(C)
        BY <2>1, <2>2, <2>3, <2>4, <2>5, <2>6, <3>1
      <3> QED
        BY <2>1, <2>5, <3>2
    <2>8. CASE p \notin OpenParents(m)
      <3>1. pending_async_dependencies'[p] = pending_async_dependencies[p]
        BY <1>3, <2>8
      <3>2. pending_async_dependencies'[p] >= Cardinality(C)
        BY <2>1, <2>2, <2>3, <2>4, <2>5, <2>6, <3>1
      <3> QED
        BY <2>1, <2>5, <3>2
    <2> QED
      BY <2>7, <2>8
  <1>18. Roots'
    BY <1>3 DEF AsyncInv, Roots
  <1>19. Fresh'
    BY <1>3, <1>13 DEF AsyncInv, Fresh, Quiet
  <1>20. FailedOnly' /\ Spread'
    BY <1>3 DEF AsyncInv, FailedOnly, Spread
  <1>21. Asked'
    BY <1>3 DEF AsyncInv, Asked
  <1>22. Waiting'
    BY <1>3, <1>14, <1>15 DEF AsyncInv, Waiting
  <1>23. InOrder'
    BY <1>3, <1>13, <1>15 DEF AsyncInv, InOrder, Quiet
  <1>24. Runs'
    BY <1>3 DEF AsyncInv, Runs, RunOnce
  <1>25. Bodies'
    BY <1>3, <1>13 DEF AsyncInv, Bodies, Quiet
  <1>26. Stamps'
    BY <1>3 DEF AsyncInv, Stamps
  <1>27. Listed'
    <2> SUFFICES ASSUME NEW x \in exec_list'
                 PROVE  /\ body[x] = "none" /\ async_evaluation[x] /\ Free(x)'
                        /\ status[x] = "evaluating_async" \/ eval_has_exception[x]
      BY <1>3 DEF Listed
    <2>1. CASE x \in exec_list
      <3>1. /\ x \in Modules /\ body[x] = "none" /\ async_evaluation[x] /\ Free(x)
            /\ status[x] = "evaluating_async" \/ eval_has_exception[x]
        BY <1>4, <2>1 DEF AsyncInv, Listed, JobTypes
      <3>2. Free(x)'
        BY <1>3, <1>15, <3>1 DEF Free
      <3> QED
        BY <3>1, <3>2
    <2>2. CASE x \in freed
      <3>1. /\ x \in Modules /\ status[x] = "evaluating_async" /\ async_evaluation[x]
            /\ body[x] = "none" /\ Left(x, m) = 0 /\ x \in OpenParents(m)
        BY <1>8, <1>9, <2>2
      <3>2. pending_async_dependencies'[x] = 0
        BY <1>3, <3>1
      <3>3. Cardinality(Owed(x)') = 0 /\ IsFiniteSet(Owed(x)')
        <4>1. Cardinality(Owed(x)') \in Nat /\ IsFiniteSet(Owed(x)') /\ 0 >= Cardinality(Owed(x)')
          BY <1>17, <3>1, <3>2
        <4> QED
          BY <4>1
      <3>4. Owed(x)' = {}
        BY <3>3, FS_EmptySet
      <3>5. Owed(x)' = EdgesTo(OwingSet', async_parent_modules, x)
        BY <1>3 DEF Owed
      <3>6. \A d \in OwingSet' : x \notin ToSet(async_parent_modules[d])
        BY <1>4, <1>16, <3>4, <3>5, NoEdges DEF AsyncTypes
      <3>7. Free(x)'
        BY <1>3, <3>6 DEF Free, OwingSet
      <3> QED
        BY <3>1, <3>7
    <2> QED
      BY <1>3, <2>1, <2>2
  <1>28. Counted'
    BY <1>17 DEF Counted
  <1>29. Ended'
    BY <1>3 DEF AsyncInv, Ended
  <1>30. Worked'
    <2>1. ToSet(Tail(work)) \intersect ToSet(SetToSeq(Onward(freed))) = {}
      BY <1>5, <1>10, <1>12
    <2>2. IsInjective(work')
      BY <1>3, <1>5, <1>7, <1>10, <2>1, JoinedOnce
    <2>3. \A x \in ToSet(work') :
             /\ \/ x \in exec_list' /\ x \notin has_tla
                \/ status[x] = "evaluated" /\ body[x] = "returned"
             /\ ~eval_has_exception[x]
      <3> SUFFICES ASSUME NEW x \in ToSet(work')
                   PROVE  /\ \/ x \in exec_list' /\ x \notin has_tla
                             \/ status[x] = "evaluated" /\ body[x] = "returned"
                          /\ ~eval_has_exception[x]
        OBVIOUS
      <3>1. CASE x \in ToSet(Tail(work))
        BY <1>3, <1>5, <1>6, <3>1
      <3>2. CASE x \in freed \ has_tla
        BY <1>3, <1>8, <1>9, <3>2
      <3> QED
        BY <1>11, <3>1, <3>2
    <2> QED
      BY <1>3, <2>2, <2>3 DEF Worked
  <1>31. Chained'
    BY <1>3 DEF AsyncInv, Chained
  <1> QED
    BY <1>13, <1>18, <1>19, <1>20, <1>21, <1>22, <1>23, <1>24, <1>25, <1>26, <1>27, <1>28,
       <1>29, <1>30, <1>31 DEF AsyncInv

LEMMA UnchangedAsync == ASSUME AsyncInv, UNCHANGED vars PROVE AsyncInv'
  <1>1. /\ UNCHANGED <<req, has_tla, status, dfs_index, dfs_ancestor_index, frames, stack>>
        /\ UNCHANGED <<pending_async_dependencies, async_evaluation, timestamp,
                       async_parent_modules, next_timestamp, cycle_root, eval_has_exception>>
        /\ UNCHANGED <<phase, work, exec_list, jobs, body, started>>
    BY DEF vars, graphVars, searchVars, asyncVars, resultVars, jobVars, bodyVars
  <1>2. Framed' = Framed /\ OnStack' = OnStack /\ (AtEnd' <=> AtEnd) /\ Request' = Request /\ Top' = Top
    BY <1>1 DEF Framed, OnStack, AtEnd, Request, Top
  <1>3. \A d \in Modules : (Blocks(d)' <=> Blocks(d)) /\ (Owing(d)' <=> Owing(d))
    BY <1>1 DEF Blocks, Owing
  <1>4. Roots' /\ FailedOnly' /\ Spread' /\ Asked' /\ StackParents'
    BY <1>1 DEF AsyncInv, Roots, FailedOnly, Spread, Asked, StackParents
  <1>5. Fresh'
    BY <1>1, <1>2 DEF AsyncInv, Fresh
  <1>6. Waiting' /\ InOrder'
    BY <1>1, <1>2, <1>3 DEF AsyncInv, Waiting, InOrder
  <1>7. Runs'
    BY <1>1 DEF AsyncInv, Runs, RunOnce
  <1>8. Bodies'
    BY <1>1, <1>2 DEF AsyncInv, Bodies
  <1>9. Stamps' /\ Ended' /\ Worked'
    BY <1>1 DEF AsyncInv, Stamps, Ended, Worked
  <1>10. Listed'
    BY <1>1 DEF AsyncInv, Listed, Free, Owing
  <1>11. Counted'
    BY <1>1 DEF AsyncInv, Counted, Owed, OwingSet, Owing
  <1>12. Hanging'
    BY <1>1, <1>2 DEF AsyncInv, Hanging, Parent
  <1>13. Chained'
    BY <1>1 DEF AsyncInv, Chained
  <1> QED
    BY <1>4, <1>5, <1>6, <1>7, <1>8, <1>9, <1>10, <1>11, <1>12, <1>13 DEF AsyncInv

LEMMA InitAsync == Init => AsyncInv
  <1> SUFFICES ASSUME Init PROVE AsyncInv
    OBVIOUS
  <1>1. /\ \A m \in Modules : /\ status[m] = "unlinked" /\ ~async_evaluation[m] /\ body[m] = "none"
                              /\ async_parent_modules[m] = <<>> /\ ~eval_has_exception[m]
                              /\ pending_async_dependencies[m] = 0
        /\ phase = "idle" /\ work = <<>> /\ exec_list = {} /\ jobs = <<>> /\ started = <<>>
        /\ frames = <<>> /\ async_parent_modules \in [Modules -> Seq(Modules)]
    BY DEF Init
  <1>2. \A m \in Modules : ToSet(async_parent_modules[m]) = {}
    BY <1>1 DEF ToSet
  <1>3. ToSet(started) = {} /\ Framed = {}
    BY <1>1 DEF ToSet, Framed
  <1>4. Roots /\ FailedOnly /\ Spread /\ Asked /\ StackParents /\ Waiting /\ InOrder
    BY <1>1, <1>2 DEF Roots, Finished, FailedOnly, Spread, Asked, StackParents, Waiting, InOrder
  <1>5. Fresh
    BY <1>1 DEF Fresh
  <1>6. Runs
    BY <1>1, <1>3 DEF Runs, RunOnce
  <1>7. Bodies /\ Stamps /\ Listed /\ Ended /\ Worked /\ Hanging
    BY <1>1 DEF Bodies, Going, Stamps, Listed, Ended, Worked, Hanging
  <1>8. Counted
    <2> SUFFICES ASSUME NEW p \in Modules
                 PROVE  /\ IsFiniteSet(Owed(p))
                        /\ pending_async_dependencies[p] >= Cardinality(Owed(p))
      BY DEF Counted
    <2>1. Owed(p) = {}
      BY <1>1, <1>2, NoEdges DEF Owed, OwingSet
    <2>2. IsFiniteSet({}) /\ Cardinality({}) = 0
      BY FS_EmptySet
    <2>3. IsFiniteSet(Owed(p)) /\ Cardinality(Owed(p)) = 0
      BY <2>1, <2>2
    <2> QED
      BY <1>1, <2>3
  <1>9. Chained
    BY <1>1 DEF Chained, Finished
  <1> QED
    BY <1>4, <1>5, <1>6, <1>7, <1>8, <1>9 DEF AsyncInv

LEMMA StepAsync == SearchInv /\ SearchInv' /\ AsyncInv /\ [Next]_vars => AsyncInv'
  <1> SUFFICES ASSUME SearchInv, SearchInv', AsyncInv, [Next]_vars PROVE AsyncInv'
    OBVIOUS
  <1>1. CASE \E m \in Modules : Import(m)
    BY <1>1, ImportAsync
  <1>2. CASE Link
    BY <1>2, LinkAsync
  <1>3. CASE Evaluate
    BY <1>3, EvaluateAgainAsync, EvaluateKnownAsync, EvaluateNewAsync, InnerEnterAsync,
       InnerVisitedAsync, InnerFailAsync, InnerDoneAsync, InnerThrowsAsync DEF Evaluate
  <1>4. CASE React
    BY <1>4, LateReactionAsync, FulfilledAsync, GatherAsync, GatherDoneAsync,
       ExecSkipAsync, ExecAsyncAsync, ExecSyncAsync, ExecDoneAsync, RejectedAsync,
       RejectAsync DEF React
  <1>5. CASE \E m \in Modules, ok \in BOOLEAN : BodySettles(m, ok)
    BY <1>5, BodySettlesAsync
  <1>6. CASE Rest
    BY <1>6, UnchangedAsync DEF Rest
  <1>7. CASE UNCHANGED vars
    BY <1>7, UnchangedAsync
  <1> QED
    BY <1>1, <1>2, <1>3, <1>4, <1>5, <1>6, <1>7 DEF Next

\* The invariant of asynchronous evaluation holds in every reachable state.
THEOREM AsyncInvariant == Spec => [](SearchInv /\ AsyncInv)
  <1>1. Init => SearchInv /\ AsyncInv
    BY InitSearch, InitAsync
  <1>2. SearchInv /\ AsyncInv /\ [Next]_vars => (SearchInv /\ AsyncInv)'
    BY StepSearch, StepAsync
  <1> QED
    BY <1>1, <1>2, PTL DEF Spec

\* However often and in whatever order modules are imported, each runs at most once.
THEOREM EachRunsOnce == Spec => []RunOnce
  <1>1. AsyncInv => RunOnce
    BY DEF AsyncInv, Runs
  <1> QED
    BY <1>1, AsyncInvariant, PTL

\* What gather_available_ancestors counts down still waits for as much.
LEMMA CountedDown == SearchInv /\ AsyncInv => GatherIsInTurn
  <1> SUFFICES ASSUME SearchInv, AsyncInv, phase = "gather", work # <<>>,
                      NEW p \in OpenParents(Head(work))
               PROVE  /\ status[p] = "evaluating_async" /\ ~eval_has_exception[p]
                      /\ async_evaluation[p]
                      /\ pending_async_dependencies[p] >=
                             Occurs(p, async_parent_modules[Head(work)])
    BY DEF GatherIsInTurn
  <1>1. AsyncTypes /\ work \in Seq(Modules)
    BY DEF SearchInv, Typed, JobTypes
  <1>2. Head(work) \in ToSet(work) /\ Head(work) \in Modules
    BY <1>1, ListElements
  <1>3. PICK m \in Modules : m = Head(work)
    BY <1>2
  <1>4. /\ p \in Modules /\ status[p] = "evaluating_async" /\ ~eval_has_exception[p]
        /\ async_evaluation[p] /\ m \in OwingSet
    BY <1>2, <1>3, OpenFacts
  <1> DEFINE f == async_parent_modules
             A == EdgesTo(OwingSet, f, p)
             B == EdgesTo(OwingSet \ {m}, f, p)
  <1>5. /\ f \in [Modules -> Seq(Modules)] /\ OwingSet \in SUBSET Modules
        /\ pending_async_dependencies[p] \in Int /\ f[m] \in Seq(Modules) /\ Owed(p) = A
    BY <1>1, <1>3, <1>4 DEF AsyncTypes, OwingSet, Owed
  <1>6. IsFiniteSet(A) /\ pending_async_dependencies[p] >= Cardinality(A)
    BY <1>4, <1>5 DEF AsyncInv, Counted
  <1>7. Cardinality(A) \in Nat /\ Cardinality(B) \in Nat
    BY <1>4, <1>5, <1>6, EdgesRemoved
  <1>8. Cardinality(B) <= Cardinality(A) - Occurs(p, f[m])
    BY <1>4, <1>5, <1>6, EdgesRemoved
  <1>9. Occurs(p, f[m]) \in Nat
    BY <1>5, OccursFacts
  <1>10. pending_async_dependencies[p] >= Occurs(p, f[m])
    <2> HIDE DEF A, B, f
    <2> QED
      BY <1>5, <1>6, <1>7, <1>8, <1>9
  <1> QED
    BY <1>3, <1>4, <1>10

\* The types, and what the engine asserts of its stack and of what it counts down.
THEOREM GraphWellFormed == Spec => []WellFormed
  <1>1. SearchInv /\ AsyncInv => TypeOK
    <2> SUFFICES ASSUME SearchInv, AsyncInv PROVE TypeOK
      OBVIOUS
    <2>1. pending_async_dependencies \in [Modules -> Nat]
      <3>1. \A p \in Modules : pending_async_dependencies[p] \in Nat
        <4> SUFFICES ASSUME NEW p \in Modules PROVE pending_async_dependencies[p] \in Nat
          OBVIOUS
        <4>1. IsFiniteSet(Owed(p)) /\ pending_async_dependencies[p] >= Cardinality(Owed(p))
          BY DEF AsyncInv, Counted
        <4>2. Cardinality(Owed(p)) \in Nat /\ pending_async_dependencies[p] \in Int
          BY <4>1, FS_CardinalityType DEF SearchInv, Typed, AsyncTypes
        <4> QED
          BY <4>1, <4>2
      <3> QED
        BY <3>1 DEF SearchInv, Typed, AsyncTypes
    <2>2. GraphTypes /\ StatusTypes /\ SearchTypes
      BY DEF SearchInv, Typed
    <2>3. AsyncTypes /\ ResultTypes /\ PlaceTypes /\ JobTypes /\ BodyTypes
      BY DEF SearchInv, Typed
    <2>4. /\ req \in Graphs /\ has_tla \in Awaiting /\ broken \in Unresolvable
          /\ status \in [Modules -> Statuses] /\ dfs_index \in [Modules -> Nat]
          /\ dfs_ancestor_index \in [Modules -> Nat]
          /\ stack \in Seq(Modules) /\ index \in Nat
      BY <2>2 DEF GraphTypes, StatusTypes, SearchTypes
    <2>5. frames \in Seq([m : Modules, i : Nat \ {0}])
      BY <2>2 DEF SearchTypes, FrameSet
    <2>6. /\ async_evaluation \in [Modules -> BOOLEAN] /\ timestamp \in [Modules -> Nat]
          /\ async_parent_modules \in [Modules -> Seq(Modules)] /\ next_timestamp \in Nat
          /\ cycle_root \in [Modules -> Modules \union {NoModule}]
          /\ eval_has_exception \in [Modules -> BOOLEAN]
          /\ promise \in [Modules -> {"none", "pending", "fulfilled", "rejected"}]
      BY <2>3 DEF AsyncTypes, ResultTypes
    <2>7. /\ phase \in {"idle", "link", "evaluate", "inner", "gather", "exec"}
          /\ entry \in Modules \union {NoModule} /\ imports \in 0 .. MaxImports
      BY <2>3 DEF PlaceTypes
    <2>8. work \in Seq(Modules) /\ exec_list \subseteq Modules
      BY <2>3 DEF JobTypes
    <2>9. jobs \in Seq([m : Modules, ok : BOOLEAN])
      BY <2>3 DEF JobTypes
    <2>10. /\ body \in [Modules -> {"none", "awaiting", "returned", "threw"}]
           /\ started \in Seq(Modules) /\ late \subseteq Modules
      BY <2>3 DEF BodyTypes
    <2> QED
      BY <2>1, <2>4, <2>5, <2>6, <2>7, <2>8, <2>9, <2>10 DEF TypeOK
  <1>2. SearchInv /\ AsyncInv => WellFormed
    BY <1>1, CountedDown, SearchedStack DEF WellFormed
  <1> QED
    BY <1>2, AsyncInvariant, PTL

\* What one completion sets free is started by its timestamps, whatever order it was
\* found in.
THEOREM OrderIsKept == Spec => StartedInOrder
  <1> DEFINE InOrderStep == \A m \in exec_list \ exec_list' : phase = "exec" =>
                               \A x \in exec_list' : timestamp[m] < timestamp[x]
  <1>1. SearchInv /\ AsyncInv /\ [Next]_vars => InOrderStep
    <2> SUFFICES ASSUME SearchInv, AsyncInv, [Next]_vars, NEW m \in exec_list \ exec_list',
                        phase = "exec", NEW x \in exec_list'
                 PROVE  timestamp[m] < timestamp[x]
      OBVIOUS
    <2>1. exec_list' = exec_list \ {NextToRun} /\ exec_list # {}
      <3>1. exec_list' # exec_list
        OBVIOUS
      <3>2. exec_list # {}
        OBVIOUS
      <3>3. ExecSkip \/ ExecAsync \/ (\E ok \in BOOLEAN : ExecSync(ok))
        BY <3>1 DEF Next, vars, jobVars, Import, Link, LinkEnter, LinkVisited, LinkDone, LinkFail,
           Evaluate, EvaluateAgain, EvaluateKnown, EvaluateNew, InnerEnter, InnerVisited, InnerFail,
           InnerDone, InnerThrows, React, LateReaction, Fulfilled, Gather, GatherDone, ExecDone,
           Rejected, Reject, BodySettles, Rest
      <3> QED
        BY <3>2, <3>3 DEF ExecSkip, ExecAsync, ExecSync
    <2>2. AsyncTypes /\ exec_list \subseteq Modules
      BY DEF SearchInv, Typed, JobTypes
    <2>3. PICK n \in exec_list : n = NextToRun
      BY <2>1, <2>2, NextFacts
    <2>4. m = n /\ x \in exec_list /\ x # n
      BY <2>1, <2>3
    <2>5. timestamp[n] <= timestamp[x]
      BY <2>1, <2>2, <2>3, <2>4, NextFacts
    <2>6. async_evaluation[n] /\ async_evaluation[x] /\ n \in Modules /\ x \in Modules
      BY <2>2, <2>3, <2>4 DEF AsyncInv, Listed
    <2>7. timestamp[n] # timestamp[x]
      BY <2>4, <2>6 DEF AsyncInv, Stamps
    <2>8. timestamp[n] \in Nat /\ timestamp[x] \in Nat
      BY <2>2, <2>6 DEF AsyncTypes
    <2> QED
      BY <2>4, <2>5, <2>7, <2>8
  <1> QED
    BY <1>1, AsyncInvariant, PTL DEF Spec, StartedInOrder

(***************************************************************************)
(* The invariant of what comes of an evaluation.                           *)
(***************************************************************************)
\* While modules are evaluated, a module in the recursion reaches all that was entered
\* after it, and what is on the stack reaches its ancestor and the recursion below it.
Paths ==
    phase = "inner" =>
        /\ \A f \in Framed, x \in OnStack : dfs_index[f] <= dfs_index[x] => x \in Reachable(f)
        /\ \A x \in OnStack : \E f \in Framed : dfs_index[f] <= dfs_index[x] /\ f \in Reachable(x)
        /\ \A x \in OnStack : \E y \in OnStack :
              dfs_index[y] = dfs_ancestor_index[x] /\ y \in Reachable(x)

\* Whoever waits for a module requests it, directly or through others.
Edges == \A d \in Modules : \A q \in ToSet(async_parent_modules[d]) : d \in Reachable(q)

\* What was evaluated together is a cycle, unless it failed together.
Cycles ==
    \A m, r \in Modules : status[m] \in Finished /\ cycle_root[m] = r =>
        \/ m \in Reachable(r) /\ r \in Reachable(m)
        \/ \A x \in Modules : status[x] \in Finished /\ cycle_root[x] = r
                                 => eval_has_exception[x]

\* q requested d when d had been evaluated, or waits for it.
Known(q, d) ==
    /\ status[d] \in Finished
    /\ \/ q \in ToSet(async_parent_modules[cycle_root[d]])
       \/ status[cycle_root[d]] = "evaluated" /\ ~eval_has_exception[cycle_root[d]]

\* What the visit of a request leaves behind.
SeenBy(q, d) ==
    \/ /\ status[q] = "evaluating" /\ status[d] = "evaluating"
       /\ dfs_ancestor_index[q] <= dfs_index[d]
       /\ \A f \in Framed : dfs_index[q] < dfs_index[f] => dfs_index[d] < dfs_index[f]
    \/ status[q] \in Finished /\ status[d] \in Finished /\ cycle_root[q] = cycle_root[d]
    \/ Known(q, d)

Visited ==
    \A q \in Modules : \A d \in ToSet(req[q]) :
        status[q] \in Going \union {"evaluated"} /\ ~eval_has_exception[q] /\ q \notin Framed
            => SeenBy(q, d)

\* q is in the recursion and has dealt with its request d.
Dealt(q, d) ==
    \E k \in DOMAIN frames : frames[k].m = q /\ \E i \in 1 .. frames[k].i - 1 : req[q][i] = d

VisitedFrames ==
    phase = "inner" => \A q, d \in Modules : Dealt(q, d) => SeenBy(q, d)

\* The root of a component ends well only if all it reaches has.
RootsTrue ==
    \A r \in Modules :
        status[r] = "evaluated" /\ ~eval_has_exception[r] /\ cycle_root[r] = r
            => \A e \in Reachable(r) : body[e] = "returned"

\* Only the module that is being evaluated, and roots, have a promise; it is settled
\* as they are.
Promised ==
    \A m \in Modules : promise[m] # "none" =>
        /\ (status[m] \in Finished /\ cycle_root[m] = m) \/ (phase = "inner" /\ m = entry)
        /\ promise[m] = "fulfilled" => status[m] = "evaluated" /\ ~eval_has_exception[m]
        /\ promise[m] = "rejected" => eval_has_exception[m]

Threw(m) == \E d \in Reachable(m) : body[d] = "threw"

\* What has failed, or is about to, reaches a module that threw.
Blames ==
    /\ \A m \in Modules : eval_has_exception[m] => Threw(m)
    /\ phase = "exec" => \A m \in ToSet(work) : Threw(m)

\* What threw has failed, or is about to.
Throws ==
    \A m \in Modules : body[m] = "threw" =>
        \/ eval_has_exception[m]
        \/ \E k \in DOMAIN jobs : jobs[k].m = m
        \/ phase = "exec" /\ m \in ToSet(work)

OutcomeInv ==
    /\ Paths /\ Edges /\ Cycles /\ Visited /\ VisitedFrames /\ RootsTrue
    /\ RequestsRunFirst /\ Promised /\ Blames /\ Throws

(***************************************************************************)
(* What is reachable.                                                      *)
(***************************************************************************)
LEMMA ReachType == ASSUME NEW m PROVE \A d \in Reachable(m) : d \in Modules
  BY DEF Reachable

LEMMA ReachSelf == ASSUME NEW m \in Modules PROVE m \in Reachable(m)
  BY DEF Reachable

LEMMA ReachRequests ==
    ASSUME GraphTypes, NEW m \in Modules
    PROVE  ToSet(req[m]) \subseteq Modules
  <1>1. req[m] \in Seq(Modules)
    BY DEF GraphTypes
  <1> QED
    BY <1>1, ListElements

LEMMA ReachStep ==
    ASSUME GraphTypes, NEW m, NEW x \in Reachable(m), NEW d \in ToSet(req[x])
    PROVE  d \in Reachable(m)
  <1>1. x \in Modules
    BY DEF Reachable
  <1>2. d \in Modules
    BY <1>1, ReachRequests
  <1>3. ASSUME NEW S \in SUBSET Modules, m \in S, \A y \in S : ToSet(req[y]) \subseteq S
        PROVE  d \in S
    <2>1. x \in S
      BY <1>3 DEF Reachable
    <2> QED
      BY <1>3, <2>1
  <1> QED
    BY <1>2, <1>3 DEF Reachable

LEMMA ReachLeast ==
    ASSUME NEW S, S \subseteq Modules, NEW m \in S, \A x \in S : ToSet(req[x]) \subseteq S
    PROVE  \A d \in Reachable(m) : d \in S
  BY DEF Reachable

LEMMA ReachTrans ==
    ASSUME GraphTypes, NEW m, NEW x \in Reachable(m), NEW y \in Reachable(x)
    PROVE  y \in Reachable(m)
  <1>1. Reachable(m) \subseteq Modules
    BY DEF Reachable
  <1>2. \A z \in Reachable(m) : ToSet(req[z]) \subseteq Reachable(m)
    BY ReachStep
  <1> QED
    BY <1>1, <1>2, ReachLeast

LEMMA ReachKept ==
    req' = req => \A m, d : d \in Reachable(m)' <=> d \in Reachable(m)
  BY DEF Reachable

(***************************************************************************)
(* What the invariant says of modules that have been evaluated.            *)
(***************************************************************************)
\* Everything below d has run to its end.
Complete(d) == \A e \in Reachable(d) : body[e] = "returned"

LEMMA CompleteBelow ==
    ASSUME GraphTypes, NEW m, NEW S, S \subseteq Modules, m \in S,
           \A x \in S : \A d \in ToSet(req[x]) : d \in S \/ Complete(d)
    PROVE  \A e \in Reachable(m) : e \in S \/ body[e] = "returned"
  <1> DEFINE T == S \union {d \in Modules : Complete(d)}
  <1>1. T \subseteq Modules /\ m \in T
    OBVIOUS
  <1>2. ASSUME NEW x \in T, NEW d \in ToSet(req[x]) PROVE d \in T
    <2>1. x \in Modules /\ d \in Modules
      BY ReachRequests
    <2>2. CASE x \in S
      BY <2>1, <2>2
    <2>3. CASE Complete(x)
      <3>1. d \in Reachable(x)
        BY <2>1, ReachSelf, ReachStep
      <3>2. \A e \in Reachable(d) : e \in Reachable(x)
        BY <3>1, ReachTrans
      <3> QED
        BY <2>1, <2>3, <3>2 DEF Complete
    <2> QED
      BY <2>2, <2>3
  <1>3. \A e \in Reachable(m) : e \in T
    <2> HIDE DEF T
    <2> QED
      BY <1>1, <1>2, ReachLeast
  <1>4. ASSUME NEW e \in T PROVE e \in S \/ body[e] = "returned"
    BY ReachSelf DEF Complete
  <1> QED
    BY <1>3, <1>4

\* A module whose root has not failed is in a cycle with it.
LEMMA RootReached ==
    ASSUME Roots, Cycles, NEW m \in Modules, status[m] \in Finished,
           ~eval_has_exception[m] \/ ~eval_has_exception[cycle_root[m]]
    PROVE  /\ cycle_root[m] \in Modules /\ status[cycle_root[m]] \in Finished
           /\ cycle_root[cycle_root[m]] = cycle_root[m]
           /\ m \in Reachable(cycle_root[m]) /\ cycle_root[m] \in Reachable(m)
  <1>1. /\ cycle_root[m] \in Modules /\ status[cycle_root[m]] \in Finished
        /\ cycle_root[cycle_root[m]] = cycle_root[m]
    BY DEF Roots
  <1> QED
    BY <1>1 DEF Cycles

\* What q has requested and does not wait for is complete.
LEMMA KnownComplete ==
    ASSUME SearchInv, AsyncInv, OutcomeInv, NEW q \in Modules, NEW d \in Modules,
           Known(q, d), ~eval_has_exception[q], phase # "exec" \/ work = <<>>,
           \A y \in Modules : Blocks(y) => q \notin ToSet(async_parent_modules[y])
    PROVE  Complete(d)
  <1> DEFINE r == cycle_root[d]
  <1>1. /\ status[d] \in Finished /\ r \in Modules /\ status[r] \in Finished /\ cycle_root[r] = r
    BY DEF Known, AsyncInv, Roots
  <1>2. status[r] = "evaluated" /\ ~eval_has_exception[r]
    <2>1. CASE q \in ToSet(async_parent_modules[r])
      <3>1. ~Blocks(r)
        BY <1>1, <2>1
      <3>2. status[r] = "evaluated"
        BY <1>1, <3>1 DEF Blocks, Going, Finished
      <3>3. ~(phase = "exec" /\ q \in ToSet(work))
        BY DEF ToSet
      <3> QED
        BY <1>1, <2>1, <3>2, <3>3 DEF AsyncInv, Spread
    <2> QED
      BY <2>1 DEF Known
  <1>3. d \in Reachable(r)
    BY <1>1, <1>2, RootReached DEF AsyncInv, OutcomeInv
  <1>4. Complete(r)
    BY <1>1, <1>2 DEF OutcomeInv, RootsTrue, Complete
  <1>5. GraphTypes
    BY DEF SearchInv, Typed
  <1> QED
    BY <1>3, <1>4, <1>5, ReachTrans DEF Complete

\* Whatever is on the stack reaches the module that is on top.
LEMMA TopReached ==
    ASSUME SearchInv, Paths, phase = "inner", NEW x \in OnStack
    PROVE  Top.m \in Reachable(x)
  <1>1. frames # <<>> /\ GraphTypes
    BY DEF SearchInv, Phases, Typed
  <1>2. Top.m \in Framed /\ \A f \in Framed : dfs_index[f] <= dfs_index[Top.m]
    BY <1>1, TopIsLast
  <1>3. Top.m \in OnStack
    BY <1>2, StackFacts DEF Searched
  <1>4. PICK f \in Framed : f \in Reachable(x)
    BY DEF Paths
  <1>5. Top.m \in Reachable(f)
    BY <1>2, <1>3 DEF Paths
  <1> QED
    BY <1>1, <1>4, <1>5, ReachTrans

\* When the module on top has dealt with its requests, all of them have been seen.
LEMMA TopSeen ==
    ASSUME SearchInv, VisitedFrames, phase = "inner", AtEnd
    PROVE  \A d \in ToSet(req[Top.m]) : SeenBy(Top.m, d)
  <1>1. frames # <<>> /\ GraphTypes /\ SearchTypes
    BY DEF SearchInv, Phases, Typed
  <1>2. /\ Top = frames[1] /\ 1 \in DOMAIN frames /\ Top.m \in Modules /\ Top.i \in Nat \ {0}
        /\ Len(req[Top.m]) \in Nat /\ Top.i > Len(req[Top.m])
    BY <1>1, TopFacts
  <1>3. req[Top.m] \in Seq(Modules)
    BY <1>1, <1>2 DEF GraphTypes
  <1>4. ASSUME NEW d \in ToSet(req[Top.m]) PROVE SeenBy(Top.m, d)
    <2>1. PICK j \in 1 .. Len(req[Top.m]) : d = req[Top.m][j]
      BY <1>3 DEF ToSet
    <2>2. j \in 1 .. Top.i - 1
      BY <1>2, <2>1
    <2>3. Dealt(Top.m, d)
      BY <1>2, <2>1, <2>2 DEF Dealt
    <2>4. d \in Modules
      BY <1>1, <1>2, ReachRequests
    <2> QED
      BY <1>2, <2>3, <2>4 DEF VisitedFrames
  <1> QED
    BY <1>4

\* Who runs has everything below its requests complete, but for those that lead back.
LEMMA RunsAfter ==
    ASSUME SearchInv, AsyncInv, OutcomeInv, NEW q \in Modules, ~eval_has_exception[q],
           phase # "exec" \/ work = <<>>,
           \A y \in Modules : Blocks(y) => q \notin ToSet(async_parent_modules[y]),
           phase = "inner" => q = Top.m,
           NEW d \in ToSet(req[q]), SeenBy(q, d), q \notin Reachable(d)
    PROVE  Complete(d)
  <1>1. GraphTypes /\ d \in Modules
    BY ReachRequests DEF SearchInv, Typed
  <1>2. CASE status[q] = "evaluating" /\ status[d] = "evaluating"
    <2>1. q \in OnStack /\ d \in OnStack
      BY <1>1, <1>2, StackFacts DEF Searched
    <2>2. phase = "inner"
      BY <1>2, <2>1, StackFacts DEF Searched
    <2> QED
      BY <2>1, <2>2, TopReached DEF OutcomeInv
  <1>3. CASE status[q] \in Finished /\ status[d] \in Finished /\ cycle_root[q] = cycle_root[d]
    <2>1. q \in Reachable(cycle_root[q])
      BY <1>3, RootReached DEF AsyncInv, OutcomeInv
    <2>2. cycle_root[d] \in Reachable(d)
      <3>1. cycle_root[d] \in Modules
        BY <1>1, <1>3 DEF AsyncInv, Roots
      <3> QED
        BY <1>1, <1>3, <3>1 DEF OutcomeInv, Cycles
    <2> QED
      BY <1>1, <1>3, <2>1, <2>2, ReachTrans
  <1>4. CASE Known(q, d)
    BY <1>1, <1>4, KnownComplete
  <1> QED
    BY <1>2, <1>3, <1>4 DEF SeenBy

(***************************************************************************)
(* Steps outside the search that evaluates.                                *)
(***************************************************************************)
LEMMA OutsideFacts ==
    SearchInv /\ phase # "inner" =>
        /\ \A m \in Modules : status[m] # "evaluating"
        /\ \A m \in Framed : m \in Modules /\ status[m] = "linking"
  <1> SUFFICES ASSUME SearchInv, phase # "inner"
               PROVE  /\ \A m \in Modules : status[m] # "evaluating"
                      /\ \A m \in Framed : m \in Modules /\ status[m] = "linking"
    OBVIOUS
  <1>1. Searched
    BY StackFacts
  <1> QED
    BY <1>1 DEF Searched

LEMMA OutsideNext ==
    ASSUME SearchInv', phase' # "inner"
    PROVE  /\ \A m \in Modules : status'[m] # "evaluating"
           /\ \A m \in Framed' : m \in Modules /\ status'[m] = "linking"
  <1>1. (SearchInv /\ phase # "inner" =>
            /\ \A m \in Modules : status[m] # "evaluating"
            /\ \A m \in Framed : m \in Modules /\ status[m] = "linking")'
    BY OutsideFacts, PTL
  <1> QED
    BY <1>1

\* Evaluated modules keep their roots and what was found when they were.
LEMMA KnownStays ==
    ASSUME Roots, NEW q \in Modules, NEW d \in Modules, Known(q, d),
           \A x \in Modules : status[x] \in Finished =>
              /\ status'[x] \in Finished /\ cycle_root'[x] = cycle_root[x]
              /\ \A p \in ToSet(async_parent_modules[x]) : p \in ToSet(async_parent_modules'[x])
              /\ status[x] = "evaluated" => status'[x] = "evaluated"
                                            /\ eval_has_exception'[x] = eval_has_exception[x]
    PROVE  Known(q, d)'
  <1> DEFINE r == cycle_root[d]
  <1>1. /\ status[d] \in Finished /\ r \in Modules /\ status[r] \in Finished
        /\ cycle_root'[d] = r /\ status'[d] \in Finished
    BY DEF Known, Roots
  <1>2. CASE q \in ToSet(async_parent_modules[r])
    <2>1. q \in ToSet(async_parent_modules'[r])
      BY <1>1, <1>2
    <2> QED
      BY <1>1, <2>1 DEF Known
  <1>3. CASE status[r] = "evaluated" /\ ~eval_has_exception[r]
    <2>1. status'[r] = "evaluated" /\ ~eval_has_exception'[r]
      BY <1>1, <1>3
    <2> QED
      BY <1>1, <2>1 DEF Known
  <1> QED
    BY <1>2, <1>3 DEF Known

LEMMA OutsideStep ==
    ASSUME SearchInv, SearchInv', AsyncInv, OutcomeInv, phase # "inner", phase' # "inner",
           UNCHANGED <<req, async_parent_modules, cycle_root>>,
           \A x \in Modules : \/ status'[x] = status[x]
                              \/ status[x] \in Pre /\ status'[x] \in Pre \union {"linking"}
                              \/ status[x] = "evaluating_async" /\ status'[x] = "evaluated",
           \A x \in Modules : /\ eval_has_exception[x] => eval_has_exception'[x]
                              /\ status[x] = "evaluated"
                                    => eval_has_exception'[x] = eval_has_exception[x],
           RootsTrue', RequestsRunFirst', Promised', Blames', Throws'
    PROVE  OutcomeInv'
  <1>1. /\ \A m \in Modules : status[m] # "evaluating" /\ status'[m] # "evaluating"
        /\ \A m \in Framed : m \in Modules /\ status[m] \in Pre
    BY OutsideFacts, OutsideNext DEF Pre
  <1>2. \A x \in Modules : /\ status[x] \in Finished <=> status'[x] \in Finished
                           /\ status[x] = "evaluated" => status'[x] = "evaluated"
    BY DEF Finished, Pre
  <1>3. GraphTypes
    BY DEF SearchInv, Typed
  <1>4. Paths' /\ VisitedFrames'
    BY DEF Paths, VisitedFrames
  <1>5. Edges'
    BY ReachKept DEF OutcomeInv, Edges
  <1>6. Cycles'
    <2> SUFFICES ASSUME NEW m \in Modules, NEW r \in Modules,
                        status'[m] \in Finished, cycle_root'[m] = r,
                        NEW x \in Modules, status'[x] \in Finished,
                        cycle_root'[x] = r, ~eval_has_exception'[x]
                 PROVE  m \in Reachable(r)' /\ r \in Reachable(m)'
      BY DEF Cycles
    <2>1. /\ status[m] \in Finished /\ status[x] \in Finished
          /\ cycle_root[m] = r /\ cycle_root[x] = r /\ ~eval_has_exception[x]
      BY <1>2
    <2>2. m \in Reachable(r) /\ r \in Reachable(m)
      BY <2>1 DEF OutcomeInv, Cycles
    <2> QED
      BY <2>2, ReachKept
  <1>7. Visited'
    <2> SUFFICES ASSUME NEW q \in Modules, NEW d \in ToSet(req'[q]),
                        status'[q] \in Going \union {"evaluated"}, ~eval_has_exception'[q]
                 PROVE  SeenBy(q, d)'
      BY DEF Visited
    <2>1. d \in ToSet(req[q]) /\ d \in Modules
      BY <1>3, ReachRequests
    <2>2. status[q] \in Going \union {"evaluated"} /\ ~eval_has_exception[q]
      BY <1>1 DEF Going, Pre
    <2>3. q \notin Framed
      BY <1>1, <2>2 DEF Pre, Going
    <2>4. SeenBy(q, d)
      BY <2>1, <2>2, <2>3 DEF OutcomeInv, Visited
    <2>5. CASE status[q] \in Finished /\ status[d] \in Finished /\ cycle_root[q] = cycle_root[d]
      <3>1. status'[q] \in Finished /\ status'[d] \in Finished /\ cycle_root'[q] = cycle_root'[d]
        BY <1>2, <2>1, <2>5
      <3> QED
        BY <3>1 DEF SeenBy
    <2>6. CASE Known(q, d)
      <3>1. Known(q, d)'
        BY <1>2, <2>1, <2>6, KnownStays DEF AsyncInv
      <3> QED
        BY <3>1 DEF SeenBy
    <2> QED
      BY <1>1, <2>4, <2>5, <2>6 DEF SeenBy
  <1> QED
    BY <1>4, <1>5, <1>6, <1>7 DEF OutcomeInv

\* What has run to its end, or thrown, stays so.
Persists ==
    \A x \in Modules : body[x] \in {"returned", "threw"} => body'[x] = body[x]

LEMMA FirstStays ==
    ASSUME RequestsRunFirst, req' = req, started' = started, Persists
    PROVE  RequestsRunFirst'
  <1> SUFFICES ASSUME NEW m \in ToSet(started'), NEW d \in ToSet(req'[m]),
                      m \notin Reachable(d)', NEW e \in Reachable(d)'
               PROVE  body'[e] = "returned"
    BY DEF RequestsRunFirst
  <1>1. m \in ToSet(started) /\ d \in ToSet(req[m]) /\ m \notin Reachable(d)
        /\ e \in Reachable(d) /\ e \in Modules
    BY ReachKept, ReachType
  <1>2. body[e] = "returned"
    BY <1>1 DEF RequestsRunFirst
  <1> QED
    BY <1>1, <1>2 DEF Persists

LEMMA RootsStay ==
    ASSUME RootsTrue, req' = req, Persists,
           \A r \in Modules : status'[r] = "evaluated" /\ ~eval_has_exception'[r] /\ cycle_root'[r] = r
              => status[r] = "evaluated" /\ ~eval_has_exception[r] /\ cycle_root[r] = r
    PROVE  RootsTrue'
  <1> SUFFICES ASSUME NEW r \in Modules, status'[r] = "evaluated", ~eval_has_exception'[r],
                      cycle_root'[r] = r, NEW e \in Reachable(r)'
               PROVE  body'[e] = "returned"
    BY DEF RootsTrue
  <1>1. e \in Reachable(r) /\ e \in Modules
    BY ReachKept, ReachType
  <1>2. body[e] = "returned"
    BY <1>1 DEF RootsTrue
  <1> QED
    BY <1>1, <1>2 DEF Persists

LEMMA ThrewStays ==
    ASSUME req' = req, Persists
    PROVE  \A m : Threw(m) => Threw(m)'
  <1> SUFFICES ASSUME NEW m, NEW d \in Reachable(m), body[d] = "threw" PROVE Threw(m)'
    BY DEF Threw
  <1>1. d \in Modules /\ d \in Reachable(m)'
    BY ReachKept, ReachType
  <1>2. body'[d] = "threw"
    BY <1>1 DEF Persists
  <1> QED
    BY <1>1, <1>2 DEF Threw

LEMMA PromisedStays ==
    ASSUME Promised, phase # "inner", phase' # "inner",
           UNCHANGED <<cycle_root, eval_has_exception, promise>>,
           \A x \in Modules : status[x] \in Finished => status'[x] = status[x]
    PROVE  Promised'
  <1> SUFFICES ASSUME NEW m \in Modules, promise'[m] # "none"
               PROVE  /\ status'[m] \in Finished /\ cycle_root'[m] = m
                      /\ promise'[m] = "fulfilled" => status'[m] = "evaluated" /\ ~eval_has_exception'[m]
                      /\ promise'[m] = "rejected" => eval_has_exception'[m]
    BY DEF Promised
  <1>1. /\ status[m] \in Finished /\ cycle_root[m] = m
        /\ promise[m] = "fulfilled" => status[m] = "evaluated" /\ ~eval_has_exception[m]
        /\ promise[m] = "rejected" => eval_has_exception[m]
    BY DEF Promised
  <1> QED
    BY <1>1

\* Steps that evaluate nothing and start no function.
LEMMA StillStep ==
    ASSUME SearchInv, SearchInv', AsyncInv, OutcomeInv, phase # "inner", phase' # "inner",
           UNCHANGED <<req, async_parent_modules, cycle_root, eval_has_exception, promise, started>>,
           \A x \in Modules : \/ status'[x] = status[x]
                              \/ status[x] \in Pre /\ status'[x] \in Pre,
           Persists, phase' = "exec" => \A m \in ToSet(work') : Threw(m)', Throws'
    PROVE  OutcomeInv'
  <1>1. \A x \in Modules : status[x] \in Finished <=> status'[x] \in Finished
    BY DEF Finished, Pre
  <1>2. \A x \in Modules : status[x] \in Finished => status'[x] = status[x]
    BY DEF Finished, Pre
  <1>3. \A r \in Modules : status'[r] = "evaluated" => status[r] = "evaluated"
    BY DEF Pre
  <1>4. RootsTrue'
    BY <1>3, RootsStay DEF OutcomeInv
  <1>5. RequestsRunFirst'
    BY FirstStays DEF OutcomeInv
  <1>6. Promised'
    BY <1>2, PromisedStays DEF OutcomeInv
  <1>7. Blames'
    BY ThrewStays DEF OutcomeInv, Blames
  <1> QED
    BY <1>4, <1>5, <1>6, <1>7, OutsideStep

\* The same, if the functions are as they were.
LEMMA ThrowsStays ==
    ASSUME Throws, UNCHANGED <<body, eval_has_exception, jobs>>,
           phase = "exec" => phase' = "exec" /\ \A m \in ToSet(work) : m \in ToSet(work')
    PROVE  Throws'
  BY DEF Throws

(***************************************************************************)
(* Linking, and the steps between an evaluation and its reactions.         *)
(***************************************************************************)
LEMMA LinkOutcomes ==
    ASSUME SearchInv, SearchInv', AsyncInv, OutcomeInv,
           phase \in {"idle", "link", "evaluate"}, phase' \in {"idle", "link", "evaluate"},
           UNCHANGED <<req, asyncVars, resultVars, jobVars, body, started>>,
           \A x \in Modules : \/ status'[x] = status[x]
                              \/ status[x] \in Pre /\ status'[x] \in Pre
    PROVE  OutcomeInv'
  <1>1. /\ UNCHANGED <<async_parent_modules, cycle_root, eval_has_exception, promise, jobs>>
        /\ phase \notin {"inner", "exec"} /\ phase' \notin {"inner", "exec"}
    BY DEF asyncVars, resultVars, jobVars
  <1>2. Persists /\ Throws'
    BY <1>1 DEF Persists, OutcomeInv, Throws
  <1> QED
    BY <1>1, <1>2, StillStep

LEMMA ImportOutcome ==
    ASSUME SearchInv, SearchInv', AsyncInv, OutcomeInv, NEW m \in Modules, Import(m)
    PROVE  OutcomeInv'
  <1>1. /\ phase \in {"idle", "link", "evaluate"} /\ phase' \in {"idle", "link", "evaluate"}
        /\ UNCHANGED <<req, asyncVars, resultVars, jobVars, body, started>>
    BY DEF Import, graphVars, bodyVars
  <1>2. status \in [Modules -> Statuses]
    BY DEF SearchInv, Typed, StatusTypes
  <1>3. \A x \in Modules : \/ status'[x] = status[x]
                           \/ status[x] \in Pre /\ status'[x] \in Pre
    BY <1>2 DEF Import, Enter, Pre
  <1> QED
    BY <1>1, <1>3, LinkOutcomes

LEMMA LinkActionsOutcome ==
    ASSUME SearchInv, SearchInv', AsyncInv, OutcomeInv, Link
    PROVE  OutcomeInv'
  <1>1. /\ phase \in {"idle", "link", "evaluate"} /\ phase' \in {"idle", "link", "evaluate"}
        /\ UNCHANGED <<req, asyncVars, resultVars, jobVars, body, started>>
    BY DEF Link, LinkEnter, LinkVisited, LinkDone, LinkFail, graphVars, bodyVars
  <1>2. status \in [Modules -> Statuses] /\ phase = "link" /\ frames # <<>>
    BY DEF SearchInv, Typed, StatusTypes, Link, LinkEnter, LinkVisited, LinkDone, LinkFail
  <1>3. Searched /\ GraphTypes /\ SearchTypes /\ Ordered
    BY StackFacts DEF SearchInv, Typed, Shape
  <1>4. \A x \in Modules : \/ status'[x] = status[x]
                           \/ status[x] \in Pre /\ status'[x] \in Pre
    <2>1. CASE LinkEnter
      BY <1>2, <2>1 DEF LinkEnter, Enter, Pre
    <2>2. CASE LinkVisited
      BY <2>2 DEF LinkVisited
    <2>3. CASE LinkDone
      <3>1. Top.m \in OnStack
        <4>1. Top.m \in Framed
          BY <1>2, TopIsLast
        <4> QED
          BY <1>3, <4>1 DEF Searched
      <3>2. \A x \in Component(Top.m) : x \in OnStack
        BY <1>3, <3>1, ComponentFacts
      <3>3. \A x \in Component(Top.m) : status[x] = "linking"
        BY <1>2, <1>3, <3>2 DEF Searched
      <3>4. ASSUME NEW x \in Modules
            PROVE  status'[x] = status[x] \/ (x \in Component(Top.m) /\ status'[x] = "linked")
        BY <2>3 DEF LinkDone
      <3> QED
        BY <3>3, <3>4 DEF Pre
    <2>4. CASE LinkFail
      <3>1. ASSUME NEW x \in Modules
            PROVE  status'[x] = status[x] \/ (x \in OnStack /\ status'[x] = "unlinked")
        BY <2>4 DEF LinkFail, Unlinked, OnStack
      <3> QED
        BY <1>2, <1>3, <3>1 DEF Searched, Pre
    <2> QED
      BY <2>1, <2>2, <2>3, <2>4 DEF Link
  <1> QED
    BY <1>1, <1>4, LinkOutcomes

LEMMA EvaluateAgainOutcome ==
    ASSUME SearchInv, SearchInv', AsyncInv, OutcomeInv, EvaluateAgain
    PROVE  OutcomeInv'
  <1>1. /\ phase \in {"idle", "link", "evaluate"} /\ phase' \in {"idle", "link", "evaluate"}
        /\ UNCHANGED <<req, asyncVars, resultVars, jobVars, body, started, status>>
    BY DEF EvaluateAgain, graphVars, bodyVars
  <1> QED
    BY <1>1, LinkOutcomes

LEMMA EvaluateKnownOutcome ==
    ASSUME SearchInv, SearchInv', AsyncInv, OutcomeInv, EvaluateKnown
    PROVE  OutcomeInv'
  <1> DEFINE m == PromiseHolder(entry)
  <1>1. /\ phase = "evaluate" /\ phase' = "idle"
        /\ UNCHANGED <<req, status, async_parent_modules, cycle_root, eval_has_exception, body,
                       started, jobs, async_evaluation>>
        /\ status[m] \in Finished
        /\ promise' = [promise EXCEPT ![m] =
                         IF eval_has_exception[m] THEN "rejected"
                         ELSE IF async_evaluation[m] THEN "pending" ELSE "fulfilled"]
    BY DEF EvaluateKnown, graphVars, asyncVars, jobVars
  <1>2. entry \in Modules /\ promise \in [Modules -> {"none", "pending", "fulfilled", "rejected"}]
    BY <1>1 DEF SearchInv, Phases, Typed, ResultTypes
  <1>3. m \in Modules /\ cycle_root[m] = m
    <2>1. CASE status[entry] \in Finished
      BY <1>2, <2>1 DEF PromiseHolder, AsyncInv, Roots
    <2>2. CASE status[entry] \notin Finished
      BY <1>1, <2>2 DEF PromiseHolder
    <2> QED
      BY <2>1, <2>2
  <1> HIDE DEF m
  <1>4. Promised'
    <2> SUFFICES ASSUME NEW x \in Modules, promise'[x] # "none"
                 PROVE  /\ status'[x] \in Finished /\ cycle_root'[x] = x
                        /\ promise'[x] = "fulfilled" => status'[x] = "evaluated" /\ ~eval_has_exception'[x]
                        /\ promise'[x] = "rejected" => eval_has_exception'[x]
      BY DEF Promised
    <2>1. CASE x = m
      <3>1. status[m] = "evaluating_async" => async_evaluation[m]
        BY <1>3 DEF AsyncInv, Bodies
      <3>2. promise'[m] = "fulfilled" => ~eval_has_exception[m] /\ ~async_evaluation[m]
        BY <1>1, <1>2, <1>3
      <3>3. promise'[m] = "rejected" => eval_has_exception[m]
        BY <1>1, <1>2, <1>3
      <3> QED
        BY <1>1, <1>3, <2>1, <3>1, <3>2, <3>3 DEF Finished
    <2>2. CASE x # m
      <3>1. promise'[x] = promise[x]
        BY <1>1, <1>2, <2>2
      <3>2. /\ status[x] \in Finished /\ cycle_root[x] = x
            /\ promise[x] = "fulfilled" => status[x] = "evaluated" /\ ~eval_has_exception[x]
            /\ promise[x] = "rejected" => eval_has_exception[x]
        BY <1>1, <3>1 DEF OutcomeInv, Promised
      <3> QED
        BY <1>1, <3>1, <3>2
    <2> QED
      BY <2>1, <2>2
  <1>5. Persists /\ Throws'
    BY <1>1 DEF Persists, OutcomeInv, Throws
  <1>6. RootsTrue' /\ RequestsRunFirst'
    BY <1>1, <1>5, RootsStay, FirstStays DEF OutcomeInv
  <1>7. Blames'
    BY <1>1, <1>5, ThrewStays DEF OutcomeInv, Blames
  <1> QED
    BY <1>1, <1>4, <1>5, <1>6, <1>7, OutsideStep

(***************************************************************************)
(* Reactions that evaluate nothing.                                        *)
(***************************************************************************)
LEMMA NothingListed == ASSUME NEW s, s = <<>> PROVE \A m : m \notin ToSet(s)
  BY DEF ToSet

LEMMA BodySettlesOutcome ==
    ASSUME SearchInv, SearchInv', AsyncInv, OutcomeInv,
           NEW m \in Modules, NEW ok \in BOOLEAN, BodySettles(m, ok)
    PROVE  OutcomeInv'
  <1>1. /\ phase = "idle" /\ phase' = "idle" /\ body[m] = "awaiting"
        /\ UNCHANGED <<req, status, async_parent_modules, cycle_root, eval_has_exception, promise,
                       started>>
        /\ body' = [body EXCEPT ![m] = IF ok THEN "returned" ELSE "threw"]
        /\ jobs' = Append(jobs, [m |-> m, ok |-> ok])
    BY DEF BodySettles, graphVars, asyncVars, resultVars
  <1>2. /\ body \in [Modules -> {"none", "awaiting", "returned", "threw"}]
        /\ jobs \in Seq([m : Modules, ok : BOOLEAN])
    BY DEF SearchInv, Typed, BodyTypes, JobTypes
  <1>3. Persists
    BY <1>1, <1>2 DEF Persists
  <1>4. /\ DOMAIN jobs = 1 .. Len(jobs) /\ DOMAIN jobs' = 1 .. Len(jobs) + 1 /\ Len(jobs) \in Nat
        /\ \A k \in DOMAIN jobs : jobs'[k] = jobs[k]
        /\ jobs'[Len(jobs) + 1].m = m
    BY <1>1, <1>2
  <1>5. Throws'
    <2> SUFFICES ASSUME NEW x \in Modules, body'[x] = "threw", ~eval_has_exception'[x]
                 PROVE  \E k \in DOMAIN jobs' : jobs'[k].m = x
      BY DEF Throws
    <2>1. CASE x = m
      BY <1>4, <2>1
    <2>2. CASE x # m
      <3>1. body[x] = "threw"
        BY <1>1, <1>2, <2>2
      <3>2. PICK k \in DOMAIN jobs : jobs[k].m = x
        BY <1>1, <3>1 DEF OutcomeInv, Throws
      <3> QED
        BY <1>4, <3>2
    <2> QED
      BY <2>1, <2>2
  <1> QED
    BY <1>1, <1>3, <1>5, StillStep

LEMMA LateReactionOutcome ==
    ASSUME SearchInv, SearchInv', AsyncInv, OutcomeInv, LateReaction
    PROVE  OutcomeInv'
  <1>1. /\ phase = "idle" /\ phase' = "idle" /\ jobs # <<>> /\ status[Head(jobs).m] = "evaluated"
        /\ jobs' = Tail(jobs)
        /\ UNCHANGED <<req, status, async_parent_modules, cycle_root, eval_has_exception, promise,
                       started, body>>
    BY DEF LateReaction, graphVars, asyncVars, resultVars, bodyVars
  <1>2. /\ Head(jobs) = jobs[1] /\ DOMAIN jobs = 1 .. Len(jobs) /\ Len(jobs) \in Nat \ {0}
        /\ DOMAIN jobs' = 1 .. Len(jobs) - 1
        /\ \A k \in 1 .. Len(jobs) - 1 : jobs'[k] = jobs[k + 1]
    BY <1>1, JobFacts DEF SearchInv, Typed
  <1>3. Throws'
    <2> SUFFICES ASSUME NEW x \in Modules, body[x] = "threw", ~eval_has_exception[x]
                 PROVE  \E k \in DOMAIN jobs' : jobs'[k].m = x
      BY <1>1 DEF Throws
    <2>1. PICK k \in DOMAIN jobs : jobs[k].m = x
      BY <1>1 DEF OutcomeInv, Throws
    <2>2. k # 1
      BY <1>1, <1>2, <2>1 DEF AsyncInv, Bodies
    <2>3. k - 1 \in DOMAIN jobs' /\ jobs'[k - 1] = jobs[k]
      BY <1>2, <2>2
    <2> QED
      BY <2>1, <2>3
  <1>4. Persists
    BY <1>1 DEF Persists
  <1> QED
    BY <1>1, <1>3, <1>4, StillStep

LEMMA RejectedOutcome ==
    ASSUME SearchInv, SearchInv', AsyncInv, OutcomeInv, Rejected
    PROVE  OutcomeInv'
  <1> DEFINE h == Head(jobs).m
  <1>1. /\ phase = "idle" /\ phase' = "exec" /\ jobs # <<>> /\ ~Head(jobs).ok
        /\ jobs' = Tail(jobs) /\ work' = <<h>>
        /\ UNCHANGED <<req, status, async_parent_modules, cycle_root, eval_has_exception, promise,
                       started, body>>
    BY DEF Rejected, graphVars, asyncVars, resultVars, bodyVars
  <1>2. /\ Head(jobs) = jobs[1] /\ DOMAIN jobs = 1 .. Len(jobs) /\ Len(jobs) \in Nat \ {0}
        /\ DOMAIN jobs' = 1 .. Len(jobs) - 1
        /\ \A k \in 1 .. Len(jobs) - 1 : jobs'[k] = jobs[k + 1]
    BY <1>1, JobFacts DEF SearchInv, Typed
  <1>3. h \in Modules /\ body[h] = "threw"
    BY <1>1, JobTaken
  <1> HIDE DEF h
  <1>4. \A m : m \in ToSet(work') <=> m = h
    BY <1>1 DEF ToSet
  <1>5. Throws'
    <2> SUFFICES ASSUME NEW x \in Modules, body[x] = "threw", ~eval_has_exception[x]
                 PROVE  (\E k \in DOMAIN jobs' : jobs'[k].m = x) \/ x \in ToSet(work')
      BY <1>1 DEF Throws
    <2>1. PICK k \in DOMAIN jobs : jobs[k].m = x
      BY <1>1 DEF OutcomeInv, Throws
    <2>2. CASE k = 1
      BY <1>2, <1>4, <2>1, <2>2 DEF h
    <2>3. CASE k # 1
      <3>1. k - 1 \in DOMAIN jobs' /\ jobs'[k - 1] = jobs[k]
        BY <1>2, <2>3
      <3> QED
        BY <2>1, <3>1
    <2> QED
      BY <2>2, <2>3
  <1>6. Persists
    BY <1>1 DEF Persists
  <1>7. Threw(h)
    BY <1>3, ReachSelf DEF Threw
  <1>8. \A m \in ToSet(work') : Threw(m)'
    BY <1>1, <1>4, <1>6, <1>7, ThrewStays
  <1> QED
    BY <1>1, <1>5, <1>6, <1>8, StillStep

LEMMA GatherOutcome ==
    ASSUME SearchInv, SearchInv', AsyncInv, OutcomeInv, Gather
    PROVE  OutcomeInv'
  <1>1. /\ phase = "gather" /\ phase' = "gather"
        /\ UNCHANGED <<req, status, async_parent_modules, cycle_root, eval_has_exception, promise,
                       started, body, jobs>>
    BY DEF Gather, graphVars, resultVars, bodyVars
  <1>2. Persists /\ Throws'
    BY <1>1, ThrowsStays DEF Persists, OutcomeInv
  <1> QED
    BY <1>1, <1>2, StillStep

LEMMA GatherDoneOutcome ==
    ASSUME SearchInv, SearchInv', AsyncInv, OutcomeInv, GatherDone
    PROVE  OutcomeInv'
  <1>1. /\ phase = "gather" /\ phase' = "exec" /\ work' = <<>>
        /\ UNCHANGED <<req, status, async_parent_modules, cycle_root, eval_has_exception, promise,
                       started, body, jobs>>
    BY DEF GatherDone, graphVars, asyncVars, resultVars, bodyVars, jobVars
  <1>2. Persists /\ Throws'
    BY <1>1, ThrowsStays DEF Persists, OutcomeInv
  <1>3. \A m \in ToSet(work') : Threw(m)'
    BY <1>1, NothingListed
  <1> QED
    BY <1>1, <1>2, <1>3, StillStep

LEMMA ExecSkipOutcome ==
    ASSUME SearchInv, SearchInv', AsyncInv, OutcomeInv, ExecSkip
    PROVE  OutcomeInv'
  <1>1. /\ phase = "exec" /\ phase' = "exec" /\ work = <<>> /\ work' = <<>>
        /\ UNCHANGED <<req, status, async_parent_modules, cycle_root, eval_has_exception, promise,
                       started, body, jobs>>
    BY DEF ExecSkip, graphVars, asyncVars, resultVars, bodyVars
  <1>2. \A m \in ToSet(work) : m \in ToSet(work')
    BY <1>1
  <1>3. Persists /\ Throws'
    BY <1>1, <1>2, ThrowsStays DEF Persists, OutcomeInv
  <1>4. \A m \in ToSet(work') : Threw(m)'
    BY <1>1, NothingListed
  <1> QED
    BY <1>1, <1>3, <1>4, StillStep

LEMMA ExecDoneOutcome ==
    ASSUME SearchInv, SearchInv', AsyncInv, OutcomeInv, ExecDone
    PROVE  OutcomeInv'
  <1>1. /\ phase = "exec" /\ phase' = "idle" /\ work = <<>>
        /\ UNCHANGED <<req, status, async_parent_modules, cycle_root, eval_has_exception, promise,
                       started, body, jobs>>
    BY DEF ExecDone, graphVars, asyncVars, resultVars, bodyVars, jobVars
  <1>2. \A m : m \notin ToSet(work)
    BY <1>1, NothingListed
  <1>3. Persists /\ Throws'
    BY <1>1, <1>2 DEF Persists, OutcomeInv, Throws
  <1> QED
    BY <1>1, <1>3, StillStep

(***************************************************************************)
(* Reactions that end an evaluation.                                       *)
(***************************************************************************)
\* When the root of a component has run, and nothing it waits for is left, all that is
\* below it has run.
LEMMA CompleteRoot ==
    ASSUME SearchInv, AsyncInv, OutcomeInv, phase \in {"idle", "gather", "exec"}, work = <<>>,
           NEW m \in Modules, status[m] = "evaluating_async", cycle_root[m] = m,
           ~eval_has_exception[m],
           \A y \in Modules : Blocks(y) => m \notin ToSet(async_parent_modules[y])
    PROVE  \A e \in Reachable(m) : e = m \/ body[e] = "returned"
  <1> DEFINE C == {x \in Modules : status[x] \in Finished /\ cycle_root[x] = m}
             B == {x \in C : x # m /\ status[x] # "evaluated"}
  <1>1. GraphTypes /\ dfs_index \in [Modules -> Nat] /\ (\A x : x \notin ToSet(work))
    BY NothingListed DEF SearchInv, Typed, SearchTypes
  <1>2. \A x \in C : ~eval_has_exception[x]
    BY RootFails
  <1>3. \A x \in Modules : x \notin Framed /\ status[x] # "evaluating"
    BY QuietFacts DEF Quiet
  <1>4. B = {}
    <2> SUFFICES ASSUME B # {} PROVE FALSE
      OBVIOUS
    <2> DEFINE T == {dfs_index[x] : x \in B}
    <2>1. T \subseteq Nat /\ T # {}
      BY <1>1
    <2>2. PICK x \in B : \A z \in B : dfs_index[x] <= dfs_index[z]
      <3>1. \E t \in T : \A u \in T : t <= u
        <4> HIDE DEF T
        <4> QED
          BY <2>1, LeastExists
      <3> QED
        BY <3>1
    <2>3. /\ x \in Modules /\ status[x] = "evaluating_async" /\ cycle_root[x] = m /\ x # m
      BY <2>2 DEF Finished
    <2>4. async_evaluation[x]
      BY <2>3 DEF AsyncInv, Bodies
    <2>5. PICK q \in ToSet(async_parent_modules[x]) :
             cycle_root[q] = m /\ status[q] \in Finished /\ dfs_index[q] < dfs_index[x]
      BY <2>3, <2>4 DEF AsyncInv, Chained, Finished
    <2>6. Blocks(x)
      BY <2>3 DEF Blocks, Going
    <2>7. q \in Modules
      BY <2>3, <2>5 DEF AsyncInv, Asked
    <2>8. q # m
      BY <2>3, <2>5, <2>6
    <2>9. status[q] \in Going \/ eval_has_exception[q]
      BY <2>3, <2>5, <2>6 DEF AsyncInv, Waiting
    <2>10. q \in C
      BY <2>5, <2>7
    <2>11. q \in B
      BY <1>2, <2>8, <2>9, <2>10 DEF Going
    <2>12. dfs_index[x] <= dfs_index[q] /\ dfs_index[x] \in Nat /\ dfs_index[q] \in Nat
      BY <1>1, <2>2, <2>3, <2>7, <2>11
    <2> QED
      BY <2>5, <2>12
  <1>5. \A x \in C : x # m => status[x] = "evaluated" /\ body[x] = "returned"
    BY <1>2, <1>4 DEF AsyncInv, Bodies
  <1>6. m \in C
    BY DEF Finished
  <1>7. ASSUME NEW x \in C, NEW d \in ToSet(req[x]) PROVE d \in C \/ Complete(d)
    <2>1. d \in Modules /\ x \in Modules
      BY <1>1, ReachRequests
    <2>2. status[x] \in Going \union {"evaluated"}
      BY DEF Finished, Going
    <2>3. SeenBy(x, d)
      BY <1>2, <1>3, <2>1, <2>2 DEF OutcomeInv, Visited
    <2>4. CASE Known(x, d)
      <3>1. \A y \in Modules : Blocks(y) => x \notin ToSet(async_parent_modules[y])
        <4>1. CASE x = m
          BY <4>1
        <4>2. CASE x # m
          BY <1>5, <4>2 DEF AsyncInv, Waiting
        <4> QED
          BY <4>1, <4>2
      <3> QED
        BY <1>2, <2>1, <2>4, <3>1, KnownComplete
    <2> QED
      BY <1>3, <2>1, <2>3, <2>4 DEF SeenBy
  <1>8. C \subseteq Modules
    OBVIOUS
  <1>9. \A e \in Reachable(m) : e \in C \/ body[e] = "returned"
    <2> HIDE DEF C
    <2> QED
      BY <1>1, <1>6, <1>7, <1>8, CompleteBelow
  <1> QED
    BY <1>5, <1>9

\* js_set_module_evaluated leaves the promise true.
LEMMA EvaluatedOutcome ==
    ASSUME SearchInv, OutcomeInv, phase # "inner", phase' # "inner", NEW m \in Modules,
           status[m] = "evaluating_async", Evaluated(m), ~eval_has_exception[m],
           UNCHANGED <<cycle_root, eval_has_exception>>
    PROVE  /\ Promised'
           /\ \A x \in Modules : \/ status'[x] = status[x]
                                 \/ x = m /\ status'[x] = "evaluated"
           /\ status'[m] = "evaluated"
  <1>1. /\ promise \in [Modules -> {"none", "pending", "fulfilled", "rejected"}]
        /\ status \in [Modules -> Statuses]
    BY DEF SearchInv, Typed, ResultTypes, StatusTypes
  <1>2. /\ status' = [status EXCEPT ![m] = "evaluated"]
        /\ promise' = [promise EXCEPT ![m] = IF @ = "none" THEN @ ELSE "fulfilled"]
    BY DEF Evaluated
  <1>3. /\ \A x \in Modules : \/ status'[x] = status[x]
                              \/ x = m /\ status'[x] = "evaluated"
        /\ status'[m] = "evaluated"
    BY <1>1, <1>2
  <1>4. ASSUME NEW x \in Modules, promise'[x] # "none"
        PROVE  /\ status'[x] \in Finished /\ cycle_root'[x] = x
               /\ promise'[x] = "fulfilled" => status'[x] = "evaluated" /\ ~eval_has_exception'[x]
               /\ promise'[x] = "rejected" => eval_has_exception'[x]
    <2>1. promise[x] # "none" /\ (x # m => promise'[x] = promise[x]) /\ promise'[m] \in {"none", "fulfilled"}
      BY <1>1, <1>2, <1>4
    <2>2. /\ status[x] \in Finished /\ cycle_root[x] = x
          /\ promise[x] = "fulfilled" => status[x] = "evaluated" /\ ~eval_has_exception[x]
          /\ promise[x] = "rejected" => eval_has_exception[x]
      BY <2>1 DEF OutcomeInv, Promised
    <2>3. status'[x] \in Finished
      BY <1>3, <2>2 DEF Finished
    <2>4. CASE x = m
      BY <1>3, <2>1, <2>2, <2>3, <2>4
    <2>5. CASE x # m
      BY <1>3, <2>1, <2>2, <2>3, <2>5
    <2> QED
      BY <2>4, <2>5
  <1>5. Promised'
    BY <1>4 DEF Promised
  <1> QED
    BY <1>3, <1>5

\* ... and is true of the root if it has run.
LEMMA EvaluatedRoots ==
    ASSUME RootsTrue, req' = req, Persists, NEW m \in Modules,
           \A x \in Modules : \/ status'[x] = status[x]
                              \/ x = m /\ status'[x] = "evaluated",
           UNCHANGED <<cycle_root, eval_has_exception>>, body'[m] = "returned",
           cycle_root[m] = m => \A e \in Reachable(m) : e = m \/ body[e] = "returned"
    PROVE  RootsTrue'
  <1> SUFFICES ASSUME NEW r \in Modules, status'[r] = "evaluated", ~eval_has_exception'[r],
                      cycle_root'[r] = r, NEW e \in Reachable(r)'
               PROVE  body'[e] = "returned"
    BY DEF RootsTrue
  <1>1. e \in Reachable(r) /\ e \in Modules
    BY ReachKept, ReachType
  <1>2. CASE r = m
    BY <1>1, <1>2 DEF Persists
  <1>3. CASE r # m
    <2>1. body[e] = "returned"
      BY <1>1, <1>3 DEF RootsTrue
    <2> QED
      BY <1>1, <2>1 DEF Persists
  <1> QED
    BY <1>2, <1>3

LEMMA FulfilledOutcome ==
    ASSUME SearchInv, SearchInv', AsyncInv, OutcomeInv, Fulfilled
    PROVE  OutcomeInv'
  <1> DEFINE m == Head(jobs).m
  <1>1. /\ phase = "idle" /\ phase' = "gather" /\ jobs # <<>> /\ Head(jobs).ok
        /\ status[m] # "evaluated" /\ Evaluated(m) /\ jobs' = Tail(jobs)
        /\ UNCHANGED <<req, async_parent_modules, cycle_root, eval_has_exception, started, body>>
    BY DEF Fulfilled, graphVars, bodyVars
  <1>2. /\ Head(jobs) = jobs[1] /\ DOMAIN jobs = 1 .. Len(jobs) /\ Len(jobs) \in Nat \ {0}
        /\ DOMAIN jobs' = 1 .. Len(jobs) - 1
        /\ \A k \in 1 .. Len(jobs) - 1 : jobs'[k] = jobs[k + 1]
    BY <1>1, JobFacts DEF SearchInv, Typed
  <1>3. m \in Modules /\ body[m] = "returned"
    BY <1>1, JobTaken
  <1>4. status[m] = "evaluating_async" /\ ~eval_has_exception[m]
    BY <1>1, JobGoing
  <1>5. Throws'
    <2> SUFFICES ASSUME NEW x \in Modules, body[x] = "threw", ~eval_has_exception[x]
                 PROVE  \E k \in DOMAIN jobs' : jobs'[k].m = x
      BY <1>1 DEF Throws
    <2>1. PICK k \in DOMAIN jobs : jobs[k].m = x
      BY <1>1 DEF OutcomeInv, Throws
    <2>2. k # 1
      BY <1>2, <1>3, <2>1
    <2>3. k - 1 \in DOMAIN jobs' /\ jobs'[k - 1] = jobs[k]
      BY <1>2, <2>2
    <2> QED
      BY <2>1, <2>3
  <1> HIDE DEF m
  <1>6. /\ Promised' /\ status'[m] = "evaluated"
        /\ \A x \in Modules : \/ status'[x] = status[x]
                              \/ x = m /\ status'[x] = "evaluated"
    BY <1>1, <1>3, <1>4, EvaluatedOutcome
  <1>7. Persists
    BY <1>1 DEF Persists
  <1>8. RequestsRunFirst' /\ Blames'
    BY <1>1, <1>7, FirstStays, ThrewStays DEF OutcomeInv, Blames
  <1>9. RootsTrue'
    <2>1. \A y \in Modules : Blocks(y) => m \notin ToSet(async_parent_modules[y])
      BY <1>3 DEF AsyncInv, Waiting
    <2>2. work = <<>>
      BY <1>1 DEF SearchInv, Phases
    <2>3. cycle_root[m] = m => \A e \in Reachable(m) : e = m \/ body[e] = "returned"
      BY <1>1, <1>3, <1>4, <2>1, <2>2, CompleteRoot
    <2> QED
      BY <1>1, <1>3, <1>6, <1>7, <2>3, EvaluatedRoots DEF OutcomeInv
  <1> QED
    BY <1>1, <1>4, <1>5, <1>6, <1>8, <1>9, OutsideStep

(***************************************************************************)
(* Steps that start a function, and failures.                              *)
(***************************************************************************)
LEMMA FirstAfter ==
    ASSUME RequestsRunFirst, BodyTypes, req' = req, Persists, NEW n \in Modules,
           started' = Append(started, n),
           \A d \in ToSet(req[n]) : n \notin Reachable(d) => Complete(d)
    PROVE  RequestsRunFirst'
  <1>1. \A m : m \in ToSet(started') <=> m \in ToSet(started) \/ m = n
    <2>1. started \in Seq(Modules)
      BY DEF BodyTypes
    <2> QED
      BY <2>1, AppendFacts DEF ToSet
  <1> SUFFICES ASSUME NEW m \in ToSet(started'), NEW d \in ToSet(req'[m]),
                      m \notin Reachable(d)', NEW e \in Reachable(d)'
               PROVE  body'[e] = "returned"
    BY DEF RequestsRunFirst
  <1>2. d \in ToSet(req[m]) /\ m \notin Reachable(d) /\ e \in Reachable(d) /\ e \in Modules
    BY ReachKept, ReachType
  <1>3. body[e] = "returned"
    <2>1. CASE m \in ToSet(started)
      BY <1>2, <2>1 DEF RequestsRunFirst
    <2>2. CASE m = n
      BY <1>2, <2>2 DEF Complete
    <2> QED
      BY <1>1, <2>1, <2>2
  <1> QED
    BY <1>2, <1>3 DEF Persists

LEMMA ExecRuns ==
    ASSUME SearchInv, AsyncInv, OutcomeInv, phase = "exec", work = <<>>, exec_list # {},
           status[NextToRun] # "evaluated"
    PROVE  /\ NextToRun \in Modules /\ body[NextToRun] = "none"
           /\ status[NextToRun] = "evaluating_async" /\ ~eval_has_exception[NextToRun]
           /\ \A y \in Modules : Blocks(y) => NextToRun \notin ToSet(async_parent_modules[y])
           /\ \A d \in ToSet(req[NextToRun]) : NextToRun \notin Reachable(d) => Complete(d)
  <1> DEFINE n == NextToRun
  <1>1. /\ n \in Modules /\ body[n] = "none" /\ status[n] = "evaluating_async"
        /\ ~eval_has_exception[n]
        /\ \A y \in Modules : Blocks(y) => n \notin ToSet(async_parent_modules[y])
    BY NextIsFree
  <1> HIDE DEF n
  <1>2. n \notin Framed
    BY QuietFacts DEF Quiet
  <1>3. ASSUME NEW d \in ToSet(req[n]), n \notin Reachable(d) PROVE Complete(d)
    <2>1. SeenBy(n, d)
      BY <1>1, <1>2 DEF OutcomeInv, Visited, Going
    <2> QED
      BY <1>1, <1>3, <2>1, RunsAfter
  <1> QED
    BY <1>1, <1>3 DEF n

LEMMA ExecAsyncOutcome ==
    ASSUME SearchInv, SearchInv', AsyncInv, OutcomeInv, ExecAsync
    PROVE  OutcomeInv'
  <1> DEFINE n == NextToRun
  <1>1. /\ phase = "exec" /\ phase' = "exec" /\ work = <<>> /\ work' = <<>> /\ exec_list # {}
        /\ status[n] # "evaluated"
        /\ body' = [body EXCEPT ![n] = "awaiting"] /\ started' = Append(started, n)
        /\ UNCHANGED <<req, status, async_parent_modules, cycle_root, eval_has_exception, promise, jobs>>
    BY DEF ExecAsync, Run, graphVars, asyncVars, resultVars
  <1>2. /\ n \in Modules /\ body[n] = "none"
        /\ \A d \in ToSet(req[n]) : n \notin Reachable(d) => Complete(d)
    BY <1>1, ExecRuns
  <1> HIDE DEF n
  <1>3. BodyTypes /\ body \in [Modules -> {"none", "awaiting", "returned", "threw"}]
    BY DEF SearchInv, Typed, BodyTypes
  <1>4. Persists
    BY <1>1, <1>2, <1>3 DEF Persists
  <1>5. RequestsRunFirst'
    BY <1>1, <1>2, <1>3, <1>4, FirstAfter DEF OutcomeInv
  <1>6. \A m : m \notin ToSet(work) /\ m \notin ToSet(work')
    BY <1>1, NothingListed
  <1>7. Throws'
    <2>1. \A x \in Modules : body'[x] = "threw" => body[x] = "threw"
      BY <1>1, <1>2, <1>3
    <2> QED
      BY <1>1, <1>6, <2>1 DEF OutcomeInv, Throws
  <1>8. RootsTrue'
    BY <1>1, <1>4, RootsStay DEF OutcomeInv
  <1>9. Blames'
    BY <1>1, <1>4, <1>6, ThrewStays DEF OutcomeInv, Blames
  <1>10. Promised'
    BY <1>1, PromisedStays DEF OutcomeInv
  <1> QED
    BY <1>1, <1>5, <1>7, <1>8, <1>9, <1>10, OutsideStep

LEMMA ExecSyncOutcome ==
    ASSUME SearchInv, SearchInv', AsyncInv, OutcomeInv, NEW ok \in BOOLEAN, ExecSync(ok)
    PROVE  OutcomeInv'
  <1> DEFINE o == IF ok THEN "returned" ELSE "threw"
  <1>0. PICK n : n = NextToRun
    OBVIOUS
  <1>1. /\ phase = "exec" /\ phase' = "exec" /\ work = <<>> /\ exec_list # {}
        /\ status[n] # "evaluated"
        /\ body' = [body EXCEPT ![n] = o] /\ started' = Append(started, n)
        /\ ok => Evaluated(n) /\ work' = <<>>
        /\ ~ok => work' = <<n>> /\ status' = status /\ promise' = promise
        /\ UNCHANGED <<req, async_parent_modules, cycle_root, eval_has_exception, jobs>>
    BY <1>0 DEF ExecSync, Run, graphVars, asyncVars
  <1>2. /\ n \in Modules /\ body[n] = "none" /\ status[n] = "evaluating_async"
        /\ ~eval_has_exception[n]
        /\ \A y \in Modules : Blocks(y) => n \notin ToSet(async_parent_modules[y])
        /\ \A d \in ToSet(req[n]) : n \notin Reachable(d) => Complete(d)
    BY <1>0, <1>1, ExecRuns
  <1>3. BodyTypes /\ body \in [Modules -> {"none", "awaiting", "returned", "threw"}]
    BY DEF SearchInv, Typed, BodyTypes
  <1>4. Persists /\ body'[n] = o
    BY <1>1, <1>2, <1>3 DEF Persists
  <1>5. RequestsRunFirst'
    BY <1>1, <1>2, <1>3, <1>4, FirstAfter DEF OutcomeInv
  <1>6. \A m : m \notin ToSet(work)
    BY <1>1, NothingListed
  <1>7. CASE ok
    <2>1. /\ Promised' /\ status'[n] = "evaluated"
          /\ \A x \in Modules : \/ status'[x] = status[x]
                                \/ x = n /\ status'[x] = "evaluated"
      BY <1>1, <1>2, <1>7, EvaluatedOutcome
    <2>2. Throws'
      <3>1. \A x \in Modules : body'[x] = "threw" => body[x] = "threw"
        BY <1>1, <1>2, <1>3, <1>7
      <3> QED
        BY <1>1, <1>6, <3>1 DEF OutcomeInv, Throws
    <2>3. cycle_root[n] = n => \A e \in Reachable(n) : e = n \/ body[e] = "returned"
      BY <1>1, <1>2, CompleteRoot
    <2>4. RootsTrue'
      BY <1>1, <1>2, <1>4, <1>7, <2>1, <2>3, EvaluatedRoots DEF OutcomeInv
    <2>5. \A m : m \notin ToSet(work')
      BY <1>1, <1>7, NothingListed
    <2>6. Blames'
      BY <1>1, <1>4, <2>5, ThrewStays DEF OutcomeInv, Blames
    <2> QED
      BY <1>1, <1>2, <1>5, <2>1, <2>2, <2>4, <2>6, OutsideStep
  <1>8. CASE ~ok
    <2>1. \A m : m \in ToSet(work') <=> m = n
      BY <1>1, <1>8 DEF ToSet
    <2>2. Throws'
      <3>1. \A x \in Modules : body'[x] = "threw" => body[x] = "threw" \/ x = n
        BY <1>1, <1>2, <1>3, <1>8
      <3> QED
        BY <1>1, <1>6, <2>1, <3>1 DEF OutcomeInv, Throws
    <2>3. RootsTrue'
      BY <1>1, <1>4, <1>8, RootsStay DEF OutcomeInv
    <2>4. Promised'
      BY <1>1, <1>8, PromisedStays DEF OutcomeInv
    <2>5. Threw(n)'
      <3>1. n \in Reachable(n)'
        BY <1>1, <1>2, ReachSelf, ReachKept
      <3> QED
        BY <1>4, <1>8, <3>1 DEF Threw
    <2>6. Blames'
      BY <1>1, <1>4, <2>1, <2>5, ThrewStays DEF OutcomeInv, Blames
    <2> QED
      BY <1>1, <1>2, <1>5, <1>8, <2>2, <2>3, <2>4, <2>6, OutsideStep
  <1> QED
    BY <1>7, <1>8

LEMMA RejectOutcome ==
    ASSUME SearchInv, SearchInv', AsyncInv, OutcomeInv, Reject
    PROVE  OutcomeInv'
  <1>1. PICK m \in Modules : m = Head(work)
    <2>1. work # <<>> /\ work \in Seq(Modules)
      BY DEF Reject, SearchInv, Typed, JobTypes
    <2> QED
      BY <2>1
  <1>2. /\ phase = "exec" /\ phase' = "exec" /\ work # <<>>
        /\ status[m] = "evaluated" =>
              work' = Tail(work) /\ UNCHANGED <<status, eval_has_exception, promise>>
        /\ status[m] # "evaluated" =>
              /\ eval_has_exception' = [eval_has_exception EXCEPT ![m] = TRUE]
              /\ status' = [status EXCEPT ![m] = "evaluated"]
              /\ promise' = [promise EXCEPT ![m] = IF @ = "none" THEN @ ELSE "rejected"]
              /\ work' = async_parent_modules[m] \o Tail(work)
        /\ UNCHANGED <<req, async_parent_modules, cycle_root, body, started, jobs>>
    BY <1>1 DEF Reject, Blamed, graphVars, asyncVars, bodyVars
  <1>3. /\ work \in Seq(Modules) /\ status \in [Modules -> Statuses]
        /\ promise \in [Modules -> {"none", "pending", "fulfilled", "rejected"}]
        /\ eval_has_exception \in [Modules -> BOOLEAN]
        /\ async_parent_modules \in [Modules -> Seq(Modules)] /\ GraphTypes
    BY DEF SearchInv, Typed, JobTypes, StatusTypes, ResultTypes, AsyncTypes
  <1>4. /\ m \in ToSet(work) /\ Tail(work) \in Seq(Modules)
        /\ ToSet(work) = {m} \union ToSet(Tail(work))
    BY <1>1, <1>2, <1>3, ListElements
  <1>5. /\ Persists /\ Threw(m)
        /\ status[m] = "evaluated" => eval_has_exception[m] \/ body[m] = "returned"
        /\ status[m] = "evaluating_async" \/ eval_has_exception[m]
    BY <1>2, <1>4 DEF Persists, OutcomeInv, Blames, AsyncInv, Bodies, Worked
  <1>6. RequestsRunFirst'
    BY <1>2, <1>5, FirstStays DEF OutcomeInv
  <1>7. CASE status[m] = "evaluated"
    <2>1. \A x : x \in ToSet(work') => x \in ToSet(work)
      BY <1>2, <1>4, <1>7
    <2>2. RootsTrue'
      BY <1>2, <1>5, <1>7, RootsStay DEF OutcomeInv
    <2>3. Promised'
      BY <1>2, <1>7, PromisedStays DEF OutcomeInv
    <2>4. Blames'
      BY <1>2, <1>5, <1>7, <2>1, ThrewStays DEF OutcomeInv, Blames
    <2>5. Throws'
      BY <1>2, <1>4, <1>5, <1>7 DEF OutcomeInv, Throws
    <2> QED
      BY <1>2, <1>6, <1>7, <2>2, <2>3, <2>4, <2>5, OutsideStep
  <1>8. CASE status[m] # "evaluated"
    <2>1. \A x \in Modules : /\ x = m => status'[x] = "evaluated" /\ eval_has_exception'[x]
                             /\ x # m => /\ status'[x] = status[x]
                                         /\ (eval_has_exception'[x] <=> eval_has_exception[x])
                                         /\ promise'[x] = promise[x]
      BY <1>2, <1>3, <1>8
    <2>2. promise'[m] \in {"none", "rejected"} /\ (promise'[m] = "none" <=> promise[m] = "none")
      BY <1>2, <1>3, <1>8
    <2>3. \A x : x \in ToSet(work') <=> x \in ToSet(async_parent_modules[m]) \/ x \in ToSet(Tail(work))
      <3>1. async_parent_modules[m] \in Seq(Modules) /\ work' = async_parent_modules[m] \o Tail(work)
        BY <1>2, <1>3, <1>8
      <3>2. \A x : x \in ToSet(async_parent_modules[m] \o Tail(work))
                     <=> x \in ToSet(async_parent_modules[m]) \/ x \in ToSet(Tail(work))
        BY <1>4, <3>1, ListsJoined
      <3> QED
        BY <3>1, <3>2
    <2>4. status[m] = "evaluating_async" /\ ~eval_has_exception[m]
      BY <1>5, <1>8 DEF AsyncInv, FailedOnly
    <2>5. RootsTrue'
      BY <1>2, <1>5, <2>1, RootsStay DEF OutcomeInv
    <2>6. ASSUME NEW x \in Modules, promise'[x] # "none"
          PROVE  /\ status'[x] \in Finished /\ cycle_root'[x] = x
                 /\ promise'[x] = "fulfilled" => status'[x] = "evaluated" /\ ~eval_has_exception'[x]
                 /\ promise'[x] = "rejected" => eval_has_exception'[x]
      <3>1. promise[x] # "none"
        BY <2>1, <2>2, <2>6
      <3>2. /\ status[x] \in Finished /\ cycle_root[x] = x
            /\ promise[x] = "fulfilled" => status[x] = "evaluated" /\ ~eval_has_exception[x]
            /\ promise[x] = "rejected" => eval_has_exception[x]
        BY <1>2, <3>1 DEF OutcomeInv, Promised
      <3>3. CASE x = m
        BY <1>2, <2>1, <2>2, <3>2, <3>3 DEF Finished
      <3>4. CASE x # m
        BY <1>2, <2>1, <3>2, <3>4
      <3> QED
        BY <3>3, <3>4
    <2>7. Promised'
      BY <2>6 DEF Promised
    <2>8. \A x \in ToSet(async_parent_modules[m]) : Threw(x)
      <3>1. PICK d \in Reachable(m) : body[d] = "threw"
        BY <1>5 DEF Threw
      <3>2. ASSUME NEW x \in ToSet(async_parent_modules[m]) PROVE d \in Reachable(x)
        <4>1. m \in Reachable(x)
          BY DEF OutcomeInv, Edges
        <4> QED
          BY <1>3, <3>1, <4>1, ReachTrans
      <3> QED
        BY <3>1, <3>2 DEF Threw
    <2>9. \A x \in ToSet(work') : Threw(x)
      BY <1>2, <1>4, <2>3, <2>8 DEF OutcomeInv, Blames
    <2>10. \A x : Threw(x) => Threw(x)'
      BY <1>2, <1>5, ThrewStays
    <2>11. Blames'
      BY <1>5, <2>1, <2>9, <2>10 DEF OutcomeInv, Blames
    <2>12. Throws'
      BY <1>2, <1>4, <2>1, <2>3 DEF OutcomeInv, Throws
    <2>13. \A x \in Modules : \/ status'[x] = status[x]
                              \/ status[x] = "evaluating_async" /\ status'[x] = "evaluated"
      BY <2>1, <2>4
    <2>14. \A x \in Modules : /\ eval_has_exception[x] => eval_has_exception'[x]
                              /\ status[x] = "evaluated"
                                    => eval_has_exception'[x] = eval_has_exception[x]
      <3>1. eval_has_exception' \in [Modules -> BOOLEAN]
        BY DEF SearchInv, Typed, ResultTypes
      <3> QED
        BY <1>3, <1>8, <2>1, <3>1
    <2> QED
      BY <1>2, <1>6, <2>13, <2>14, <2>5, <2>7, <2>11, <2>12, OutsideStep
  <1> QED
    BY <1>7, <1>8

(***************************************************************************)
(* A module is entered.                                                    *)
(***************************************************************************)
LEMMA EnterSeen ==
    ASSUME SearchInv, AsyncInv, NEW r \in Modules, status[r] = "linked",
           phase \in {"evaluate", "inner"},
           status' = [status EXCEPT ![r] = "evaluating"],
           dfs_index' = [dfs_index EXCEPT ![r] = index],
           dfs_ancestor_index' = [dfs_ancestor_index EXCEPT ![r] = index],
           Framed' = Framed \union {r},
           UNCHANGED <<async_parent_modules, cycle_root, eval_has_exception>>,
           NEW q \in Modules, NEW d \in Modules, SeenBy(q, d)
    PROVE  SeenBy(q, d)'
  <1>1. StatusTypes /\ SearchTypes /\ Ordered /\ Searched
    BY StackFacts DEF SearchInv, Typed, Shape
  <1>2. /\ status'[r] = "evaluating" /\ dfs_index'[r] = index /\ index \in Nat
        /\ \A x \in Modules : x # r => /\ status'[x] = status[x] /\ dfs_index'[x] = dfs_index[x]
                                       /\ dfs_ancestor_index'[x] = dfs_ancestor_index[x]
    BY <1>1 DEF StatusTypes, SearchTypes
  <1>3. CASE status[q] = "evaluating" /\ status[d] = "evaluating"
    <2>1. q # r /\ d # r /\ d \in OnStack
      BY <1>1, <1>3 DEF Searched
    <2>2. \/ q \in OnStack /\ phase = "inner"
      BY <1>1, <1>3 DEF Searched
    <2>3. /\ dfs_ancestor_index[q] <= dfs_index[d]
          /\ \A f \in Framed : dfs_index[q] < dfs_index[f] => dfs_index[d] < dfs_index[f]
      BY <1>3 DEF SeenBy, Known, Finished
    <2>4. dfs_index[d] < index
      BY <1>1, <2>1 DEF Ordered
    <2>5. \A f \in Framed : f \in Modules /\ f # r
      BY <1>1, <2>2 DEF Searched
    <2>6. \A f \in Framed' : dfs_index'[q] < dfs_index'[f] => dfs_index'[d] < dfs_index'[f]
      BY <1>2, <2>1, <2>3, <2>4, <2>5
    <2> QED
      BY <1>2, <1>3, <2>1, <2>3, <2>6 DEF SeenBy
  <1>4. CASE status[q] \in Finished /\ status[d] \in Finished /\ cycle_root[q] = cycle_root[d]
    <2>1. status'[q] \in Finished /\ status'[d] \in Finished /\ cycle_root'[q] = cycle_root'[d]
      BY <1>2, <1>4 DEF Finished
    <2> QED
      BY <2>1 DEF SeenBy
  <1>5. CASE Known(q, d)
    <2>1. \A x \in Modules : status[x] \in Finished => status'[x] = status[x]
      BY <1>2 DEF Finished
    <2>2. Known(q, d)'
      BY <1>5, <2>1, KnownStays DEF AsyncInv
    <2> QED
      BY <2>2 DEF SeenBy
  <1> QED
    BY <1>3, <1>4, <1>5 DEF SeenBy

LEMMA EnterOutcome ==
    ASSUME SearchInv, AsyncInv, OutcomeInv, NEW r \in Modules, status[r] = "linked",
           phase \in {"evaluate", "inner"}, phase' = "inner",
           status' = [status EXCEPT ![r] = "evaluating"],
           dfs_index' = [dfs_index EXCEPT ![r] = index],
           dfs_ancestor_index' = [dfs_ancestor_index EXCEPT ![r] = index],
           Framed' = Framed \union {r},
           UNCHANGED <<req, async_parent_modules, cycle_root, eval_has_exception, jobs, body, started>>,
           Paths', VisitedFrames', Promised'
    PROVE  OutcomeInv'
  <1>1. StatusTypes /\ GraphTypes
    BY DEF SearchInv, Typed
  <1>2. /\ status'[r] = "evaluating"
        /\ \A x \in Modules : x # r => status'[x] = status[x]
        /\ \A x \in Modules : status'[x] \in Finished <=> status[x] \in Finished
    BY <1>1 DEF StatusTypes, Finished
  <1>3. Edges'
    BY ReachKept DEF OutcomeInv, Edges
  <1>4. Cycles'
    BY <1>2, ReachKept DEF OutcomeInv, Cycles
  <1>5. Persists
    BY DEF Persists
  <1>6. Visited'
    <2> SUFFICES ASSUME NEW q \in Modules, NEW d \in ToSet(req'[q]),
                        status'[q] \in Going \union {"evaluated"}, ~eval_has_exception'[q],
                        q \notin Framed'
                 PROVE  SeenBy(q, d)'
      BY DEF Visited
    <2>1. d \in ToSet(req[q]) /\ d \in Modules
      BY <1>1, ReachRequests
    <2>2. /\ q # r /\ q \notin Framed /\ ~eval_has_exception[q]
          /\ status[q] \in Going \union {"evaluated"}
      BY <1>2
    <2>3. SeenBy(q, d)
      BY <2>1, <2>2 DEF OutcomeInv, Visited
    <2> QED
      BY <2>1, <2>3, EnterSeen
  <1>7. RootsTrue'
    BY <1>2, <1>5, RootsStay DEF OutcomeInv
  <1>8. RequestsRunFirst'
    BY <1>5, FirstStays DEF OutcomeInv
  <1>9. Blames'
    BY <1>5, ThrewStays DEF OutcomeInv, Blames
  <1>10. Throws'
    BY DEF OutcomeInv, Throws
  <1> QED
    BY <1>3, <1>4, <1>6, <1>7, <1>8, <1>9, <1>10 DEF OutcomeInv

LEMMA EvaluateNewOutcome ==
    ASSUME SearchInv, AsyncInv, OutcomeInv, EvaluateNew PROVE OutcomeInv'
  <1>1. PICK r \in Modules : r = entry
    BY EvaluateNewSearch
  <1>2. /\ phase = "evaluate" /\ phase' = "inner" /\ status[r] = "linked" /\ entry' = r
        /\ promise[r] = "none" /\ promise' = [promise EXCEPT ![r] = "pending"]
        /\ frames' = <<[m |-> r, i |-> 1]>> \o frames
        /\ UNCHANGED <<req, async_parent_modules, cycle_root, eval_has_exception, jobs, body, started>>
    BY <1>1 DEF EvaluateNew, Enter, graphVars, jobVars, bodyVars
  <1>3. /\ SearchInv' /\ OnStack' = {r} /\ Framed' = {r}
        /\ status' = [status EXCEPT ![r] = "evaluating"]
        /\ dfs_index' = [dfs_index EXCEPT ![r] = index]
        /\ dfs_ancestor_index' = [dfs_ancestor_index EXCEPT ![r] = index]
    BY <1>1, EvaluateNewSearch
  <1>4. /\ frames = <<>> /\ Framed' = Framed \union {r}
    BY <1>2, <1>3, NoSearch
  <1>5. /\ promise \in [Modules -> {"none", "pending", "fulfilled", "rejected"}]
        /\ status \in [Modules -> Statuses] /\ GraphTypes
        /\ dfs_index \in [Modules -> Nat] /\ dfs_ancestor_index \in [Modules -> Nat] /\ index \in Nat
    BY DEF SearchInv, Typed, ResultTypes, StatusTypes, SearchTypes
  <1>6. Paths'
    <2>1. dfs_index'[r] = index /\ dfs_ancestor_index'[r] = index
      BY <1>3, <1>5
    <2>2. r \in Reachable(r)'
      BY <1>2, ReachSelf, ReachKept
    <2>3. dfs_index'[r] <= dfs_index'[r]
      BY <1>5, <2>1
    <2> QED
      BY <1>3, <2>1, <2>2, <2>3 DEF Paths
  <1>7. VisitedFrames'
    <2>1. frames' = <<[m |-> r, i |-> 1]>>
      BY <1>2, <1>4
    <2>2. ASSUME NEW q \in Modules, NEW d \in Modules PROVE ~Dealt(q, d)'
      BY <2>1 DEF Dealt
    <2> QED
      BY <2>2 DEF VisitedFrames
  <1>8. Promised'
    <2> SUFFICES ASSUME NEW m \in Modules, promise'[m] # "none"
                 PROVE  /\ \/ status'[m] \in Finished /\ cycle_root'[m] = m
                           \/ phase' = "inner" /\ m = entry'
                        /\ promise'[m] = "fulfilled" => status'[m] = "evaluated" /\ ~eval_has_exception'[m]
                        /\ promise'[m] = "rejected" => eval_has_exception'[m]
      BY DEF Promised
    <2>1. CASE m = r
      BY <1>2, <1>5, <2>1
    <2>2. CASE m # r
      <3>1. promise'[m] = promise[m] /\ status'[m] = status[m]
        BY <1>2, <1>3, <1>5, <2>2
      <3> QED
        BY <1>2, <3>1 DEF OutcomeInv, Promised
    <2> QED
      BY <2>1, <2>2
  <1> QED
    BY <1>2, <1>3, <1>4, <1>6, <1>7, <1>8, EnterOutcome

LEMMA InnerEnterOutcome ==
    ASSUME SearchInv, AsyncInv, OutcomeInv, InnerEnter PROVE OutcomeInv'
  <1>1. PICK r \in Modules : r = Request
    BY InnerEnterSearch
  <1>2. PICK t : t = Top.m
    OBVIOUS
  <1>3. /\ phase = "inner" /\ phase' = "inner" /\ status[r] = "linked" /\ ~AtEnd
        /\ frames' = <<[m |-> r, i |-> 1]>> \o frames
        /\ UNCHANGED <<req, async_parent_modules, cycle_root, eval_has_exception, promise, entry,
                       jobs, body, started>>
    BY <1>1 DEF InnerEnter, Enter, graphVars, jobVars, bodyVars, resultVars
  <1>4. /\ SearchInv' /\ r \notin OnStack /\ OnStack' = OnStack \union {r}
        /\ Framed' = Framed \union {r}
        /\ status' = [status EXCEPT ![r] = "evaluating"]
        /\ dfs_index' = [dfs_index EXCEPT ![r] = index]
        /\ dfs_ancestor_index' = [dfs_ancestor_index EXCEPT ![r] = index]
    BY <1>1, InnerEnterSearch
  <1>5. /\ status \in [Modules -> Statuses] /\ GraphTypes /\ SearchTypes
        /\ dfs_index \in [Modules -> Nat] /\ dfs_ancestor_index \in [Modules -> Nat] /\ index \in Nat
        /\ frames \in Seq(FrameSet) /\ frames # <<>> /\ Searched
        /\ \A x \in OnStack : dfs_index[x] < index
    BY <1>3, StackFacts DEF SearchInv, Typed, StatusTypes, SearchTypes, Phases, Shape, Ordered
  <1>6. /\ dfs_index'[r] = index /\ dfs_ancestor_index'[r] = index
        /\ \A x \in OnStack : /\ x \in Modules /\ x # r /\ dfs_index'[x] = dfs_index[x]
                              /\ dfs_ancestor_index'[x] = dfs_ancestor_index[x]
        /\ \A f \in Framed : f \in OnStack
    BY <1>4, <1>5 DEF Searched
  <1>7. /\ t \in OnStack /\ t \in Modules
        /\ \A f \in Framed : dfs_index[f] <= dfs_index[t]
        /\ r \in ToSet(req[t])
    BY <1>1, <1>2, <1>3, <1>5, <1>6, TopFacts, TopIsLast
  <1>8. \A f \in Framed : r \in Reachable(f)
    <2>1. ASSUME NEW f \in Framed PROVE r \in Reachable(f)
      <3>1. t \in Reachable(f)
        BY <1>3, <1>7 DEF OutcomeInv, Paths
      <3> QED
        BY <1>5, <1>7, <3>1, ReachStep
    <2> QED
      BY <2>1
  <1>9. Paths'
    <2>1. ASSUME NEW f \in Framed', NEW x \in OnStack', dfs_index'[f] <= dfs_index'[x]
          PROVE  x \in Reachable(f)'
      <3>1. CASE f = r /\ x = r
        BY <1>3, <3>1, ReachSelf, ReachKept
      <3>2. CASE f = r /\ x # r
        BY <1>4, <1>5, <1>6, <2>1, <3>2
      <3>3. CASE f # r /\ x = r
        BY <1>3, <1>4, <1>8, <3>3, ReachKept
      <3>4. CASE f # r /\ x # r
        <4>1. f \in Framed /\ x \in OnStack /\ dfs_index[f] <= dfs_index[x]
          BY <1>4, <1>6, <2>1, <3>4
        <4> QED
          BY <1>3, <4>1, ReachKept DEF OutcomeInv, Paths
      <3> QED
        BY <3>1, <3>2, <3>3, <3>4
    <2>2. ASSUME NEW x \in OnStack'
          PROVE  \E f \in Framed' : dfs_index'[f] <= dfs_index'[x] /\ f \in Reachable(x)'
      <3>1. CASE x = r
        <4>1. r \in Reachable(r)' /\ dfs_index'[r] <= dfs_index'[r] /\ r \in Framed'
          BY <1>3, <1>4, <1>5, <1>6, ReachSelf, ReachKept
        <4> QED
          BY <3>1, <4>1
      <3>2. CASE x # r
        <4>1. x \in OnStack
          BY <1>4, <3>2
        <4>2. PICK f \in Framed : dfs_index[f] <= dfs_index[x] /\ f \in Reachable(x)
          BY <1>3, <4>1 DEF OutcomeInv, Paths
        <4> QED
          BY <1>3, <1>4, <1>6, <4>1, <4>2, ReachKept
      <3> QED
        BY <3>1, <3>2
    <2>3. ASSUME NEW x \in OnStack'
          PROVE  \E y \in OnStack' : dfs_index'[y] = dfs_ancestor_index'[x] /\ y \in Reachable(x)'
      <3>1. CASE x = r
        <4>1. r \in Reachable(r)' /\ dfs_index'[r] = dfs_ancestor_index'[r] /\ r \in OnStack'
          BY <1>3, <1>4, <1>6, ReachSelf, ReachKept
        <4> QED
          BY <3>1, <4>1
      <3>2. CASE x # r
        <4>1. x \in OnStack
          BY <1>4, <3>2
        <4>2. PICK y \in OnStack : dfs_index[y] = dfs_ancestor_index[x] /\ y \in Reachable(x)
          BY <1>3, <4>1 DEF OutcomeInv, Paths
        <4> QED
          BY <1>3, <1>4, <1>6, <4>1, <4>2, ReachKept
      <3> QED
        BY <3>1, <3>2
    <2> QED
      BY <2>1, <2>2, <2>3 DEF Paths
  <1>10. VisitedFrames'
    <2> SUFFICES ASSUME NEW q \in Modules, NEW d \in Modules, Dealt(q, d)' PROVE SeenBy(q, d)'
      BY DEF VisitedFrames
    <2>1. PICK k \in DOMAIN frames' : /\ frames'[k].m = q
                                      /\ \E i \in 1 .. frames'[k].i - 1 : req'[q][i] = d
      BY DEF Dealt
    <2>2. [m |-> r, i |-> 1] \in FrameSet
      BY DEF FrameSet
    <2>3. /\ DOMAIN frames' = 1 .. Len(frames) + 1 /\ Len(frames) \in Nat
          /\ DOMAIN frames = 1 .. Len(frames)
          /\ frames'[1] = [m |-> r, i |-> 1]
          /\ \A j \in 2 .. Len(frames) + 1 : frames'[j] = frames[j - 1]
      BY <1>3, <1>5, <2>2, HeadAdded
    <2>4. k # 1
      BY <2>1, <2>3
    <2>5. k - 1 \in DOMAIN frames /\ frames'[k] = frames[k - 1]
      BY <2>1, <2>3, <2>4
    <2>6. Dealt(q, d)
      BY <1>3, <2>1, <2>5 DEF Dealt
    <2>7. SeenBy(q, d)
      BY <1>3, <2>6 DEF OutcomeInv, VisitedFrames
    <2> QED
      BY <1>3, <1>4, <2>7, EnterSeen
  <1>11. Promised'
    <2>1. \A m \in Modules : status[m] # "linked" => status'[m] = status[m]
      BY <1>4, <1>3, <1>5
    <2> SUFFICES ASSUME NEW m \in Modules, promise'[m] # "none"
                 PROVE  /\ \/ status'[m] \in Finished /\ cycle_root'[m] = m
                           \/ phase' = "inner" /\ m = entry'
                        /\ promise'[m] = "fulfilled" => status'[m] = "evaluated" /\ ~eval_has_exception'[m]
                        /\ promise'[m] = "rejected" => eval_has_exception'[m]
      BY DEF Promised
    <2>2. /\ \/ status[m] \in Finished /\ cycle_root[m] = m
             \/ phase = "inner" /\ m = entry
          /\ promise[m] = "fulfilled" => status[m] = "evaluated" /\ ~eval_has_exception[m]
          /\ promise[m] = "rejected" => eval_has_exception[m]
      BY <1>3 DEF OutcomeInv, Promised
    <2> QED
      BY <1>3, <2>1, <2>2 DEF Finished
  <1> QED
    BY <1>3, <1>4, <1>9, <1>10, <1>11, EnterOutcome

(***************************************************************************)
(* A request is visited that has been entered or evaluated before.         *)
(***************************************************************************)
\* What is waited for is in a cycle with the request.
LEMMA AwaitedReached ==
    ASSUME SearchInv, AsyncInv, OutcomeInv, NEW r \in Modules, r = Request,
           status[r] \in Finished \union {"evaluating"}, ~RequestFailed
    PROVE  Awaited \in Modules /\ Awaited \in Reachable(r)
  <1>1. CASE status[r] = "evaluating"
    BY <1>1, ReachSelf DEF Awaited
  <1>2. CASE status[r] \in Finished
    <2>1. Awaited = cycle_root[r] /\ ~eval_has_exception[r]
      BY <1>2 DEF Awaited, RequestFailed, Finished
    <2> QED
      BY <1>2, <2>1, RootReached DEF AsyncInv, OutcomeInv
  <1> QED
    BY <1>1, <1>2

LEMMA VisitedKnown ==
    ASSUME SearchInv, AsyncInv, NEW r \in Modules, r = Request, status[r] \in Finished,
           ~RequestFailed
    PROVE  /\ Awaited = cycle_root[r] /\ ~eval_has_exception[cycle_root[r]]
           /\ cycle_root[r] \in Modules
           /\ status[cycle_root[r]] = "evaluated" \/ async_evaluation[cycle_root[r]]
  <1>1. Awaited = cycle_root[r]
    BY DEF Awaited, Finished
  <1>2. ~eval_has_exception[cycle_root[r]]
    BY <1>1 DEF RequestFailed
  <1>3. cycle_root[r] \in Modules /\ status[cycle_root[r]] \in Finished
    BY DEF AsyncInv, Roots
  <1> QED
    BY <1>1, <1>2, <1>3 DEF AsyncInv, Bodies, Finished

LEMMA InnerVisitedOutcome ==
    ASSUME SearchInv, AsyncInv, OutcomeInv, InnerVisited PROVE OutcomeInv'
  <1>1. PICK r \in Modules : r = Request
    BY InnerVisitedSearch
  <1>2. PICK t \in Modules : t = Top.m
    BY InnerVisitedSearch
  <1>3. /\ phase = "inner" /\ phase' = "inner" /\ ~AtEnd /\ frames' = Advance
        /\ status[r] \in Finished \union {"evaluating"} /\ ~RequestFailed
        /\ UNCHANGED <<req, status, dfs_index, cycle_root, eval_has_exception, promise, entry,
                       jobs, body, started>>
    BY <1>1 DEF InnerVisited, graphVars, jobVars, resultVars
  <1>4. PICK a \in Modules : a = Awaited /\ a \in Reachable(r)
    BY <1>1, <1>3, AwaitedReached
  <1>5. /\ SearchInv' /\ OnStack' = OnStack /\ Framed' = Framed
        /\ \A x \in Modules : dfs_ancestor_index'[x] <= dfs_ancestor_index[x]
        /\ \A x \in Modules \ {t} : dfs_ancestor_index'[x] = dfs_ancestor_index[x]
        /\ status[r] = "evaluating" => dfs_ancestor_index'[t] <= dfs_ancestor_index[r]
    BY <1>1, <1>2, InnerVisitedSearch
  <1>6. /\ GraphTypes /\ SearchTypes /\ AsyncTypes /\ Searched /\ Ordered
        /\ dfs_index \in [Modules -> Nat] /\ dfs_ancestor_index \in [Modules -> Nat]
        /\ dfs_ancestor_index' \in [Modules -> Nat]
        /\ frames \in Seq(FrameSet) /\ frames # <<>>
    BY <1>3, <1>5, StackFacts DEF SearchInv, Typed, SearchTypes, Phases, Shape
  <1>7. /\ t \in Framed /\ t \in OnStack
        /\ \A f \in Framed : dfs_index[f] <= dfs_index[t]
        /\ r \in ToSet(req[t])
    BY <1>1, <1>2, <1>3, <1>6, TopFacts, TopIsLast DEF Searched
  <1>8. \/ dfs_ancestor_index'[t] = dfs_ancestor_index[t]
        \/ status[r] = "evaluating" /\ dfs_ancestor_index'[t] = dfs_ancestor_index[r]
    <2>1. CASE status[r] = "evaluating"
      <3>1. dfs_ancestor_index'[t] = LowAncestor(t, r)
        BY <1>1, <1>2, <1>6, <2>1 DEF InnerVisited
      <3> QED
        BY <1>6, <2>1, <3>1, LowAncestorFacts
    <2>2. CASE status[r] # "evaluating"
      BY <1>1, <1>2, <2>2 DEF InnerVisited
    <2> QED
      BY <2>1, <2>2
  <1>9. /\ async_evaluation[a] =>
              async_parent_modules' = [async_parent_modules EXCEPT ![a] = Append(@, t)]
        /\ ~async_evaluation[a] => async_parent_modules' = async_parent_modules
    BY <1>2, <1>4 DEF InnerVisited, IsWaitedFor
  <1>10. /\ \A x \in Modules : \A q : q \in ToSet(async_parent_modules[x])
                                          => q \in ToSet(async_parent_modules'[x])
         /\ \A x \in Modules : \A q : q \in ToSet(async_parent_modules'[x])
                                          => q \in ToSet(async_parent_modules[x]) \/ (x = a /\ q = t)
         /\ async_evaluation[a] => t \in ToSet(async_parent_modules'[a])
    <2>1. async_parent_modules \in [Modules -> Seq(Modules)]
      BY <1>6 DEF AsyncTypes
    <2>2. CASE async_evaluation[a]
      <3>1. /\ async_parent_modules'[a] = Append(async_parent_modules[a], t)
            /\ \A x \in Modules : x # a => async_parent_modules'[x] = async_parent_modules[x]
        BY <1>9, <2>1, <2>2
      <3>2. ToSet(Append(async_parent_modules[a], t)) = ToSet(async_parent_modules[a]) \union {t}
        BY <2>1, ListElements
      <3> QED
        BY <3>1, <3>2
    <2>3. CASE ~async_evaluation[a]
      BY <1>9, <2>3
    <2> QED
      BY <2>2, <2>3
  <1>11. Paths'
    <2>1. ASSUME NEW f \in Framed', NEW x \in OnStack', dfs_index'[f] <= dfs_index'[x]
          PROVE  x \in Reachable(f)'
      BY <1>3, <1>5, <2>1, ReachKept DEF OutcomeInv, Paths
    <2>2. ASSUME NEW x \in OnStack'
          PROVE  \E f \in Framed' : dfs_index'[f] <= dfs_index'[x] /\ f \in Reachable(x)'
      BY <1>3, <1>5, <2>2, ReachKept DEF OutcomeInv, Paths
    <2>3. ASSUME NEW x \in OnStack'
          PROVE  \E y \in OnStack' : dfs_index'[y] = dfs_ancestor_index'[x] /\ y \in Reachable(x)'
      <3>1. CASE dfs_ancestor_index'[x] = dfs_ancestor_index[x]
        BY <1>3, <1>5, <3>1, ReachKept DEF OutcomeInv, Paths
      <3>2. CASE dfs_ancestor_index'[x] # dfs_ancestor_index[x]
        <4>1. x = t /\ status[r] = "evaluating" /\ dfs_ancestor_index'[t] = dfs_ancestor_index[r]
          BY <1>5, <1>6, <1>8, <2>3, <3>2 DEF Searched
        <4>2. r \in OnStack
          BY <1>6, <4>1 DEF Searched
        <4>3. PICK y \in OnStack : dfs_index[y] = dfs_ancestor_index[r] /\ y \in Reachable(r)
          BY <1>3, <4>2 DEF OutcomeInv, Paths
        <4>4. r \in Reachable(t)
          BY <1>6, <1>7, ReachSelf, ReachStep
        <4>5. y \in Reachable(t)
          BY <1>6, <4>3, <4>4, ReachTrans
        <4> QED
          BY <1>3, <1>5, <4>1, <4>3, <4>5, ReachKept
      <3> QED
        BY <3>1, <3>2
    <2> QED
      BY <2>1, <2>2, <2>3 DEF Paths
  <1>12. Edges'
    <2> SUFFICES ASSUME NEW d \in Modules, NEW q \in ToSet(async_parent_modules'[d])
                 PROVE  d \in Reachable(q)
      BY <1>3, ReachKept DEF Edges
    <2>1. CASE q \in ToSet(async_parent_modules[d])
      BY <2>1 DEF OutcomeInv, Edges
    <2>2. CASE d = a /\ q = t
      <3>1. r \in Reachable(t)
        BY <1>6, <1>7, ReachSelf, ReachStep
      <3> QED
        BY <1>4, <1>6, <2>2, <3>1, ReachTrans
    <2> QED
      BY <1>10, <2>1, <2>2
  <1>13. Cycles'
    BY <1>3, ReachKept DEF OutcomeInv, Cycles
  <1>14. ASSUME NEW q \in Modules, NEW d \in Modules, SeenBy(q, d) PROVE SeenBy(q, d)'
    <2>1. CASE status[q] = "evaluating" /\ status[d] = "evaluating"
      <3>1. /\ dfs_ancestor_index[q] <= dfs_index[d]
            /\ \A f \in Framed : dfs_index[q] < dfs_index[f] => dfs_index[d] < dfs_index[f]
        BY <1>14, <2>1 DEF SeenBy, Known, Finished
      <3>2. dfs_ancestor_index'[q] <= dfs_index[d]
        <4>1. dfs_ancestor_index'[q] <= dfs_ancestor_index[q]
          BY <1>5
        <4>2. dfs_ancestor_index'[q] \in Nat /\ dfs_ancestor_index[q] \in Nat /\ dfs_index[d] \in Nat
          BY <1>6
        <4> QED
          BY <3>1, <4>1, <4>2
      <3> QED
        BY <1>3, <1>5, <2>1, <3>1, <3>2 DEF SeenBy
    <2>2. CASE status[q] \in Finished /\ status[d] \in Finished /\ cycle_root[q] = cycle_root[d]
      BY <1>3, <2>2 DEF SeenBy
    <2>3. CASE Known(q, d)
      <3>1. Known(q, d)'
        BY <1>3, <1>10, <2>3, KnownStays DEF AsyncInv
      <3> QED
        BY <3>1 DEF SeenBy
    <2> QED
      BY <1>14, <2>1, <2>2, <2>3 DEF SeenBy
  <1>15. Visited'
    <2> SUFFICES ASSUME NEW q \in Modules, NEW d \in ToSet(req'[q]),
                        status'[q] \in Going \union {"evaluated"}, ~eval_has_exception'[q],
                        q \notin Framed'
                 PROVE  SeenBy(q, d)'
      BY DEF Visited
    <2>1. d \in ToSet(req[q]) /\ d \in Modules
      BY <1>3, <1>6, ReachRequests
    <2>2. SeenBy(q, d)
      BY <1>3, <1>5, <2>1 DEF OutcomeInv, Visited
    <2> QED
      BY <1>14, <2>1, <2>2
  <1>16. SeenBy(t, r)'
    <2>1. CASE status[r] = "evaluating"
      <3>1. r \in OnStack
        BY <1>6, <2>1 DEF Searched
      <3>2. dfs_ancestor_index'[t] <= dfs_index[r]
        <4>1. dfs_ancestor_index[r] <= dfs_index[r] /\ dfs_ancestor_index'[t] <= dfs_ancestor_index[r]
          BY <1>5, <1>6, <2>1, <3>1 DEF Ordered
        <4>2. dfs_ancestor_index'[t] \in Nat /\ dfs_ancestor_index[r] \in Nat /\ dfs_index[r] \in Nat
          BY <1>6
        <4> QED
          BY <4>1, <4>2
      <3>3. \A f \in Framed' : ~(dfs_index'[t] < dfs_index'[f])
        <4>1. \A f \in Framed : f \in Modules
          BY <1>6 DEF Searched
        <4> QED
          BY <1>3, <1>5, <1>6, <1>7, <4>1
      <3>4. status[t] = "evaluating"
        BY <1>3, <1>6, <1>7 DEF Searched
      <3> QED
        BY <1>3, <2>1, <3>2, <3>3, <3>4 DEF SeenBy
    <2>2. CASE status[r] \in Finished
      <3>1. /\ a = cycle_root[r] /\ ~eval_has_exception[a]
            /\ status[a] = "evaluated" \/ async_evaluation[a]
        BY <1>1, <1>3, <1>4, <2>2, VisitedKnown
      <3>2. Known(t, r)'
        BY <1>3, <1>10, <2>2, <3>1 DEF Known
      <3> QED
        BY <3>2 DEF SeenBy
    <2> QED
      BY <1>3, <2>1, <2>2
  <1>17. VisitedFrames'
    <2> SUFFICES ASSUME NEW q \in Modules, NEW d \in Modules, Dealt(q, d)' PROVE SeenBy(q, d)'
      BY DEF VisitedFrames
    <2>0. PICK k \in DOMAIN frames' : /\ frames'[k].m = q
                                      /\ \E i \in 1 .. frames'[k].i - 1 : req'[q][i] = d
      BY DEF Dealt
    <2>1. PICK i \in 1 .. frames'[k].i - 1 : frames'[k].m = q /\ req'[q][i] = d
      BY <2>0
    <2>2. /\ DOMAIN frames' = DOMAIN frames /\ DOMAIN frames = 1 .. Len(frames) /\ Len(frames) \in Nat
          /\ frames'[1] = [m |-> Top.m, i |-> Top.i + 1]
          /\ \A j \in 2 .. Len(frames) : frames'[j] = frames[j]
          /\ Top = frames[1] /\ Top.i \in Nat \ {0} /\ Request = req[Top.m][Top.i]
      BY <1>3, <1>6, AdvanceFacts, TopFacts
    <2>3. CASE k # 1
      <3>1. frames'[k] = frames[k] /\ k \in DOMAIN frames
        BY <2>1, <2>2, <2>3
      <3>2. Dealt(q, d)
        BY <1>3, <2>1, <3>1 DEF Dealt
      <3> QED
        BY <1>3, <1>14, <3>2 DEF OutcomeInv, VisitedFrames
    <2>4. CASE k = 1 /\ i = Top.i
      <3>1. q = t /\ d = r
        BY <1>1, <1>2, <1>3, <2>1, <2>2, <2>4
      <3> QED
        BY <1>16, <3>1
    <2>5. CASE k = 1 /\ i # Top.i
      <3>1. i \in 1 .. frames[1].i - 1 /\ frames[1].m = q /\ 1 \in DOMAIN frames
        BY <2>1, <2>2, <2>5
      <3>2. Dealt(q, d)
        BY <1>3, <2>1, <3>1 DEF Dealt
      <3> QED
        BY <1>3, <1>14, <3>2 DEF OutcomeInv, VisitedFrames
    <2> QED
      BY <2>3, <2>4, <2>5
  <1>18. Persists
    BY <1>3 DEF Persists
  <1>19. RootsTrue' /\ RequestsRunFirst'
    BY <1>3, <1>18, RootsStay, FirstStays DEF OutcomeInv
  <1>20. Promised'
    BY <1>3 DEF OutcomeInv, Promised
  <1>21. Blames' /\ Throws'
    BY <1>3, <1>18, ThrewStays DEF OutcomeInv, Blames, Throws
  <1> QED
    BY <1>11, <1>12, <1>13, <1>15, <1>17, <1>19, <1>20, <1>21 DEF OutcomeInv

(***************************************************************************)
(* Failures of a search.                                                   *)
(***************************************************************************)
LEMMA FailStackOutcome ==
    ASSUME SearchInv, SearchInv', AsyncInv, OutcomeInv, phase = "inner", FailStack,
           UNCHANGED <<req, async_parent_modules, jobs>>, Persists, RequestsRunFirst',
           \A x \in Modules : body'[x] = body[x] \/ (x \in OnStack /\ body'[x] = "threw"),
           NEW t, t = Top.m, Threw(t)'
    PROVE  OutcomeInv'
  <1>1. PICK n \in Modules : n = entry
    BY DEF SearchInv, Phases
  <1>2. /\ promise \in [Modules -> {"none", "pending", "fulfilled", "rejected"}]
        /\ frames # <<>> /\ Searched /\ GraphTypes
        /\ eval_has_exception \in [Modules -> BOOLEAN]
    BY StackFacts DEF SearchInv, Typed, ResultTypes, Phases
  <1>3. /\ \A x \in OnStack : x \in Modules /\ status[x] = "evaluating"
        /\ \A x \in Modules : status[x] = "evaluating" => x \in OnStack
        /\ \A f \in Framed : f \in OnStack
        /\ n \in OnStack
    <2>1. n \in OnStack
      <3>1. stack # <<>> /\ stack[Len(stack)] = entry /\ stack \in Seq(Modules)
        BY <1>2 DEF SearchInv, Shape, Rooted, Typed, SearchTypes
      <3> QED
        BY <1>1, <3>1 DEF OnStack, ToSet
    <2> QED
      BY <1>2, <2>1 DEF Searched
  <1>4. /\ \A x \in Modules : /\ x \in OnStack => /\ status'[x] = "evaluated" /\ cycle_root'[x] = n
                                                  /\ eval_has_exception'[x]
                              /\ x \notin OnStack => /\ status'[x] = status[x]
                                                     /\ cycle_root'[x] = cycle_root[x]
                                                     /\ (eval_has_exception'[x] <=> eval_has_exception[x])
        /\ promise' = [promise EXCEPT ![n] = "rejected"]
        /\ phase' = "idle"
    BY <1>1 DEF FailStack, OnStack
  <1>5. \A x \in Modules : status[x] \in Finished => x \notin OnStack /\ status'[x] = status[x]
    BY <1>3, <1>4 DEF Finished
  <1>6. status[n] \notin Finished
    BY <1>3 DEF Finished
  <1>7. \A m \in Modules : status[m] \in Finished => cycle_root[m] # n
    BY <1>6 DEF AsyncInv, Roots
  <1>8. Paths' /\ VisitedFrames'
    BY <1>4 DEF Paths, VisitedFrames
  <1>9. Edges'
    BY ReachKept DEF OutcomeInv, Edges
  <1>10. Cycles'
    <2> SUFFICES ASSUME NEW m \in Modules, NEW r \in Modules,
                        status'[m] \in Finished, cycle_root'[m] = r,
                        NEW x \in Modules, status'[x] \in Finished,
                        cycle_root'[x] = r, ~eval_has_exception'[x]
                 PROVE  m \in Reachable(r) /\ r \in Reachable(m)
      BY ReachKept DEF Cycles
    <2>1. x \notin OnStack /\ status[x] \in Finished /\ cycle_root[x] = r /\ ~eval_has_exception[x]
      BY <1>4
    <2>2. r # n
      BY <1>7, <2>1
    <2>3. m \notin OnStack
      BY <1>4, <2>2
    <2>4. status[m] \in Finished /\ cycle_root[m] = r
      BY <1>4, <2>3
    <2> QED
      BY <2>1, <2>4 DEF OutcomeInv, Cycles
  <1>11. \A x \in Modules : status[x] \in Finished =>
            /\ status'[x] \in Finished /\ cycle_root'[x] = cycle_root[x]
            /\ \A p \in ToSet(async_parent_modules[x]) : p \in ToSet(async_parent_modules'[x])
            /\ status[x] = "evaluated" => status'[x] = "evaluated"
                                          /\ eval_has_exception'[x] = eval_has_exception[x]
    <2>1. eval_has_exception' \in [Modules -> BOOLEAN]
      BY DEF SearchInv, Typed, ResultTypes
    <2>2. \A x \in Modules : x \notin OnStack => eval_has_exception'[x] = eval_has_exception[x]
      BY <1>2, <1>4, <2>1
    <2> QED
      BY <1>4, <1>5, <2>2
  <1>12. Visited'
    <2> SUFFICES ASSUME NEW q \in Modules, NEW d \in ToSet(req'[q]),
                        status'[q] \in Going \union {"evaluated"}, ~eval_has_exception'[q]
                 PROVE  SeenBy(q, d)'
      BY DEF Visited
    <2>1. d \in ToSet(req[q]) /\ d \in Modules
      BY <1>2, ReachRequests
    <2>2. /\ q \notin OnStack /\ q \notin Framed /\ ~eval_has_exception[q]
          /\ status[q] \in Going \union {"evaluated"} /\ status[q] # "evaluating"
      BY <1>3, <1>4
    <2>3. SeenBy(q, d)
      BY <2>1, <2>2 DEF OutcomeInv, Visited
    <2>4. CASE status[q] \in Finished /\ status[d] \in Finished /\ cycle_root[q] = cycle_root[d]
      <3>1. status'[q] \in Finished /\ status'[d] \in Finished /\ cycle_root'[q] = cycle_root'[d]
        BY <1>11, <2>1, <2>4
      <3> QED
        BY <3>1 DEF SeenBy
    <2>5. CASE Known(q, d)
      <3>1. Known(q, d)'
        BY <1>11, <2>1, <2>5, KnownStays DEF AsyncInv
      <3> QED
        BY <3>1 DEF SeenBy
    <2> QED
      BY <2>2, <2>3, <2>4, <2>5 DEF SeenBy
  <1>13. RootsTrue'
    <2>1. ASSUME NEW r \in Modules, status'[r] = "evaluated", ~eval_has_exception'[r], cycle_root'[r] = r
          PROVE  status[r] = "evaluated" /\ ~eval_has_exception[r] /\ cycle_root[r] = r
      BY <1>4, <2>1
    <2> QED
      BY <2>1, RootsStay DEF OutcomeInv
  <1>14. Promised'
    <2> SUFFICES ASSUME NEW m \in Modules, promise'[m] # "none"
                 PROVE  /\ status'[m] \in Finished /\ cycle_root'[m] = m
                        /\ promise'[m] = "fulfilled" => status'[m] = "evaluated" /\ ~eval_has_exception'[m]
                        /\ promise'[m] = "rejected" => eval_has_exception'[m]
      BY DEF Promised
    <2>1. CASE m = n
      <3>1. promise'[n] = "rejected"
        BY <1>1, <1>2, <1>4
      <3>2. status'[n] = "evaluated" /\ cycle_root'[n] = n /\ eval_has_exception'[n]
        BY <1>1, <1>3, <1>4
      <3> QED
        BY <2>1, <3>1, <3>2 DEF Finished
    <2>2. CASE m # n
      <3>1. promise'[m] = promise[m]
        BY <1>2, <1>4, <2>2
      <3>2. /\ status[m] \in Finished /\ cycle_root[m] = m
            /\ promise[m] = "fulfilled" => status[m] = "evaluated" /\ ~eval_has_exception[m]
            /\ promise[m] = "rejected" => eval_has_exception[m]
        BY <1>1, <2>2, <3>1 DEF OutcomeInv, Promised
      <3> QED
        BY <1>4, <1>5, <3>1, <3>2
    <2> QED
      BY <2>1, <2>2
  <1>15. \A m : Threw(m) => Threw(m)'
    BY ThrewStays
  <1>16. \A x \in OnStack : Threw(x)'
    <2>1. PICK d \in Reachable(t) : body'[d] = "threw"
      BY ReachKept DEF Threw
    <2>2. ASSUME NEW x \in OnStack PROVE d \in Reachable(x)
      <3>1. t \in Reachable(x)
        BY TopReached DEF OutcomeInv
      <3> QED
        BY <1>2, <2>1, <3>1, ReachTrans
    <2> QED
      BY <2>1, <2>2, ReachKept DEF Threw
  <1>17. Blames'
    <2>1. ASSUME NEW m \in Modules, eval_has_exception'[m] PROVE Threw(m)'
      <3>1. CASE m \in OnStack
        BY <1>16, <3>1
      <3>2. CASE m \notin OnStack
        <4>1. eval_has_exception[m]
          BY <1>4, <2>1, <3>2
        <4> QED
          BY <1>15, <4>1 DEF OutcomeInv, Blames
      <3> QED
        BY <3>1, <3>2
    <2> QED
      BY <1>4, <2>1 DEF Blames
  <1>18. Throws'
    <2> SUFFICES ASSUME NEW m \in Modules, body'[m] = "threw", ~eval_has_exception'[m]
                 PROVE  \E k \in DOMAIN jobs : jobs[k].m = m
      BY DEF Throws
    <2>1. m \notin OnStack /\ ~eval_has_exception[m]
      BY <1>4
    <2>2. body[m] = "threw"
      BY <2>1
    <2> QED
      BY <2>1, <2>2 DEF OutcomeInv, Throws
  <1> QED
    BY <1>8, <1>9, <1>10, <1>12, <1>13, <1>14, <1>17, <1>18 DEF OutcomeInv

LEMMA InnerFailOutcome ==
    ASSUME SearchInv, AsyncInv, OutcomeInv, InnerFail PROVE OutcomeInv'
  <1>1. /\ phase = "inner" /\ ~AtEnd /\ RequestFailed /\ FailStack
        /\ UNCHANGED <<req, async_parent_modules, jobs, body, started>>
    BY DEF InnerFail, graphVars, asyncVars, jobVars, bodyVars
  <1>2. SearchInv' /\ frames # <<>> /\ GraphTypes /\ SearchTypes
    BY <1>1, InnerFailSearch DEF SearchInv, Typed, Phases
  <1>3. PICK r \in Modules : r = Request /\ r \in ToSet(req[Top.m])
    BY <1>1, <1>2, TopFacts
  <1>4. PICK t \in Modules : t = Top.m
    BY <1>2, TopFacts
  <1>5. Persists
    BY <1>1 DEF Persists
  <1>6. RequestsRunFirst'
    BY <1>1, <1>5, FirstStays DEF OutcomeInv
  <1>7. Threw(r)
    <2>1. CASE eval_has_exception[r]
      BY <2>1 DEF OutcomeInv, Blames
    <2>2. CASE ~eval_has_exception[r]
      <3>1. status[r] \in Finished /\ eval_has_exception[cycle_root[r]]
        BY <1>1, <1>3, <2>2 DEF RequestFailed, Awaited, Finished
      <3>2. cycle_root[r] \in Modules /\ cycle_root[r] \in Reachable(r)
        BY <2>2, <3>1, RootReached DEF AsyncInv, OutcomeInv
      <3>3. PICK c \in Modules : c = cycle_root[r]
        BY <3>2
      <3>4. Threw(c)
        BY <3>1, <3>3 DEF OutcomeInv, Blames
      <3>5. PICK d \in Reachable(c) : body[d] = "threw"
        BY <3>4 DEF Threw
      <3>6. d \in Reachable(r)
        BY <1>2, <3>2, <3>3, <3>5, ReachTrans
      <3> QED
        BY <3>5, <3>6 DEF Threw
    <2> QED
      BY <2>1, <2>2
  <1>8. Threw(t)
    <2>1. r \in Reachable(t)
      BY <1>2, <1>3, <1>4, ReachSelf, ReachStep
    <2>2. PICK d \in Reachable(r) : body[d] = "threw"
      BY <1>7 DEF Threw
    <2>3. d \in Reachable(t)
      BY <1>2, <2>1, <2>2, ReachTrans
    <2> QED
      BY <2>2, <2>3 DEF Threw
  <1>9. Threw(t)'
    BY <1>1, <1>5, <1>8, ThrewStays
  <1> QED
    BY <1>1, <1>2, <1>4, <1>5, <1>6, <1>9, FailStackOutcome

\* The module on top may be started: below its requests all is complete.
LEMMA TopRuns ==
    ASSUME SearchInv, AsyncInv, OutcomeInv, phase = "inner", AtEnd, ~Waits(Top.m)
    PROVE  /\ Top.m \in Modules /\ Top.m \in OnStack /\ body[Top.m] = "none"
           /\ ~eval_has_exception[Top.m]
           /\ \A d \in ToSet(req[Top.m]) : Top.m \notin Reachable(d) => Complete(d)
  <1>1. frames # <<>> /\ Searched
    BY StackFacts DEF SearchInv, Phases
  <1>2. PICK t \in Framed : t = Top.m
    BY <1>1, TopIsLast
  <1>3. t \in Modules /\ t \in OnStack /\ body[t] = "none" /\ ~eval_has_exception[t]
    BY <1>1, <1>2 DEF Searched, AsyncInv, Fresh, FailedOnly
  <1>4. \A y \in Modules : Blocks(y) => t \notin ToSet(async_parent_modules[y])
    BY <1>2, <1>3, NoBlocker
  <1>5. ASSUME NEW d \in ToSet(req[t]), t \notin Reachable(d) PROVE Complete(d)
    <2>1. SeenBy(t, d)
      BY <1>2, TopSeen DEF OutcomeInv
    <2> QED
      BY <1>2, <1>3, <1>4, <1>5, <2>1, RunsAfter
  <1> QED
    BY <1>2, <1>3, <1>5

LEMMA InnerThrowsOutcome ==
    ASSUME SearchInv, AsyncInv, OutcomeInv, InnerThrows PROVE OutcomeInv'
  <1>1. PICK t \in Modules : t = Top.m
    BY InnerThrowsSearch
  <1>2. /\ phase = "inner" /\ AtEnd /\ ~Waits(t) /\ FailStack
        /\ body' = [body EXCEPT ![t] = "threw"] /\ started' = Append(started, t)
        /\ UNCHANGED <<req, async_parent_modules, jobs>>
    BY <1>1 DEF InnerThrows, Run, graphVars, asyncVars, jobVars
  <1>3. SearchInv' /\ BodyTypes /\ body \in [Modules -> {"none", "awaiting", "returned", "threw"}]
    BY InnerThrowsSearch DEF SearchInv, Typed, BodyTypes
  <1>4. /\ t \in OnStack /\ body[t] = "none"
        /\ \A d \in ToSet(req[t]) : t \notin Reachable(d) => Complete(d)
    BY <1>1, <1>2, TopRuns
  <1>5. /\ Persists /\ body'[t] = "threw"
        /\ \A x \in Modules : body'[x] = body[x] \/ (x \in OnStack /\ body'[x] = "threw")
    BY <1>2, <1>3, <1>4 DEF Persists
  <1>6. RequestsRunFirst'
    BY <1>1, <1>2, <1>3, <1>4, <1>5, FirstAfter DEF OutcomeInv
  <1>7. Threw(t)'
    <2>1. t \in Reachable(t)'
      BY <1>2, ReachSelf, ReachKept
    <2> QED
      BY <1>5, <2>1 DEF Threw
  <1> QED
    BY <1>1, <1>2, <1>3, <1>5, <1>6, <1>7, FailStackOutcome

(***************************************************************************)
(* The module on top is left.                                              *)
(***************************************************************************)
\* When the root of a component has run without waiting, all that is below it has run.
LEMMA DoneRoot ==
    ASSUME SearchInv, AsyncInv, OutcomeInv, phase = "inner", AtEnd, IsRoot(Top.m),
           ~Waits(Top.m), Top.m \notin has_tla
    PROVE  \A e \in Reachable(Top.m) : e = Top.m \/ body[e] = "returned"
  <1>1. frames # <<>> /\ GraphTypes /\ Searched /\ phase # "exec"
    BY StackFacts DEF SearchInv, Phases, Typed
  <1>2. PICK t \in Framed : t = Top.m /\ \A f \in Framed : dfs_index[f] <= dfs_index[t]
    BY <1>1, TopIsLast
  <1>3. /\ t \in Modules /\ t \in OnStack /\ dfs_index[t] = dfs_ancestor_index[t]
        /\ OnStack \subseteq Modules /\ Framed \subseteq OnStack
        /\ \A m \in Modules : status[m] = "evaluating" <=> m \in OnStack
        /\ \A x \in Modules : dfs_index[x] \in Nat /\ dfs_ancestor_index[x] \in Nat
    BY <1>1, <1>2 DEF Searched, IsRoot, SearchInv, Typed, SearchTypes
  <1>4. \A d \in Modules : Blocks(d) => t \notin ToSet(async_parent_modules[d])
    BY <1>2, <1>3, NoBlocker
  <1> DEFINE C == {x \in OnStack : dfs_index[t] <= dfs_index[x]}
             B == {x \in C : x # t /\ async_evaluation[x]}
  <1>5. \A x \in C : x # t => x \notin Framed /\ dfs_index[t] < dfs_index[x]
    <2> SUFFICES ASSUME NEW x \in C, x # t PROVE x \notin Framed /\ dfs_index[t] < dfs_index[x]
      OBVIOUS
    <2>1. dfs_index[t] < dfs_index[x]
      BY <1>3, StackDistinct
    <2> QED
      BY <1>2, <1>3, <2>1
  <1>6. \A x \in C : ~eval_has_exception[x] /\ Blocks(x)
    BY <1>3 DEF AsyncInv, FailedOnly, Blocks, Going
  <1>7. B = {}
    <2> SUFFICES ASSUME B # {} PROVE FALSE
      OBVIOUS
    <2> DEFINE T == {dfs_index[x] : x \in B}
    <2>1. T \subseteq Nat /\ T # {}
      BY <1>3
    <2>2. PICK x \in B : \A z \in B : dfs_index[x] <= dfs_index[z]
      <3>1. \E u \in T : \A w \in T : u <= w
        <4> HIDE DEF T
        <4> QED
          BY <2>1, LeastExists
      <3> QED
        BY <3>1
    <2>3. x \in Modules /\ x \in OnStack /\ x \notin Framed /\ x # t /\ async_evaluation[x]
      BY <1>3, <1>5, <2>2
    <2>4. PICK q \in OnStack : Parent(x, q)
      BY <2>3 DEF AsyncInv, Hanging
    <2>5. dfs_index[q] < dfs_index[x] /\ dfs_index[t] <= dfs_index[q]
          /\ q \in ToSet(async_parent_modules[x])
      BY <1>2, <1>5, <2>2, <2>3, <2>4 DEF Parent
    <2>6. body[q] = "none" /\ q # t
      BY <1>4, <1>6, <2>2, <2>3, <2>5 DEF AsyncInv, Waiting
    <2>7. q \in C /\ q \notin Framed
      BY <1>5, <2>5, <2>6
    <2>8. async_evaluation[q]
      BY <1>3, <2>6, <2>7 DEF AsyncInv, Bodies
    <2>9. dfs_index[x] <= dfs_index[q]
      BY <2>2, <2>6, <2>7, <2>8
    <2> QED
      BY <1>3, <2>3, <2>5, <2>9
  <1>8. \A x \in C : x # t => body[x] = "returned"
    BY <1>3, <1>5, <1>7 DEF AsyncInv, Bodies
  <1>9. \A x \in C : \A d \in Modules : Blocks(d) => x \notin ToSet(async_parent_modules[d])
    BY <1>4, <1>8 DEF AsyncInv, Waiting
  <1>10. \A x \in C : dfs_ancestor_index[t] <= dfs_ancestor_index[x]
    BY <1>2, LowestInComponent DEF AsyncInv
  <1>11. ASSUME NEW x \in C, NEW d \in ToSet(req[x]) PROVE d \in C \/ Complete(d)
    <2>1. x \in Modules /\ d \in Modules /\ status[x] = "evaluating" /\ ~eval_has_exception[x]
      BY <1>1, <1>3, <1>6, ReachRequests
    <2>2. SeenBy(x, d)
      <3>1. CASE x = t
        BY <1>2, <3>1, TopSeen DEF OutcomeInv
      <3>2. CASE x # t
        <4>1. x \notin Framed /\ status[x] \in Going
          BY <1>5, <2>1, <3>2 DEF Going
        <4> QED
          BY <2>1, <4>1 DEF OutcomeInv, Visited
      <3> QED
        BY <3>1, <3>2
    <2>3. CASE status[d] = "evaluating" /\ dfs_ancestor_index[x] <= dfs_index[d]
      BY <1>3, <1>10, <2>1, <2>3
    <2>4. CASE Known(x, d)
      BY <1>1, <1>9, <2>1, <2>4, KnownComplete
    <2> QED
      BY <2>1, <2>2, <2>3, <2>4 DEF SeenBy, Finished
  <1>12. C \subseteq Modules /\ t \in C
    BY <1>3
  <1>13. \A e \in Reachable(t) : e \in C \/ body[e] = "returned"
    <2> HIDE DEF C
    <2> QED
      BY <1>1, <1>3, <1>11, <1>12, CompleteBelow
  <1> QED
    BY <1>2, <1>8, <1>13

LEMMA InnerDoneOutcome ==
    ASSUME SearchInv, SearchInv', AsyncInv, OutcomeInv, InnerDone PROVE OutcomeInv'
  <1>1. /\ phase = "inner" /\ phase' \in {"inner", "idle"} /\ AtEnd
        /\ frames' = Tail(frames) /\ (Tail(frames) = <<>> => phase' = "idle")
        /\ UNCHANGED <<req, has_tla, dfs_index, dfs_ancestor_index, pending_async_dependencies,
                       async_parent_modules, eval_has_exception, work, exec_list, jobs>>
    BY DEF InnerDone, graphVars, jobVars
  <1>2. /\ StatusTypes /\ SearchTypes /\ AsyncTypes /\ ResultTypes /\ BodyTypes /\ frames # <<>>
        /\ work = <<>> /\ exec_list = {}
    BY <1>1 DEF SearchInv, Typed, Phases
  <1>3. PICK t \in Framed : t = Top.m
    BY <1>2, TopIsLast
  <1>4. /\ OnStack \subseteq Modules /\ Framed \subseteq OnStack
        /\ \A m \in Modules : status[m] = "evaluating" <=> m \in OnStack
        /\ \A f \in Framed : dfs_index[f] <= dfs_index[t]
        /\ t \in Modules /\ t \in OnStack
        /\ \A x \in Modules : dfs_index[x] \in Nat /\ dfs_ancestor_index[x] \in Nat
    BY <1>1, <1>2, <1>3, StackFacts, TopIsLast DEF Searched, SearchTypes
  <1>5. PICK root \in BOOLEAN : root <=> IsRoot(t)
    OBVIOUS
  <1>6. PICK C \in SUBSET OnStack :
           /\ root => C = {x \in OnStack : dfs_index[t] <= dfs_index[x]}
           /\ ~root => C = {}
           /\ root => C = Component(t)
    <2>1. SearchTypes /\ Ordered /\ t \in OnStack
      BY <1>2, <1>4 DEF SearchInv, Shape
    <2>2. Component(t) = {x \in OnStack : dfs_index[t] <= dfs_index[x]}
      BY <2>1, ComponentFacts
    <2>3. CASE root
      <3>1. Component(t) \in SUBSET OnStack
        BY <2>2
      <3> QED
        BY <2>2, <2>3, <3>1
    <2>4. CASE ~root
      <3>1. {} \in SUBSET OnStack
        OBVIOUS
      <3> QED
        BY <2>4, <3>1
    <2> QED
      BY <2>3, <2>4
  <1>7. Framed' = Framed \ {t} /\ OnStack' = OnStack \ C
    BY <1>3, <1>5, <1>6, InnerDoneSearch
  <1>8. PICK a \in BOOLEAN : a <=> (Waits(t) \/ t \in has_tla)
    OBVIOUS
  <1>9. /\ ~async_evaluation[t] /\ async_parent_modules[t] = <<>> /\ body[t] = "none"
        /\ ToSet(async_parent_modules[t]) = {}
    <2>1. ~async_evaluation[t] /\ async_parent_modules[t] = <<>> /\ body[t] = "none"
      BY <1>4 DEF AsyncInv, Fresh
    <2> QED
      BY <2>1 DEF ToSet
  <1>10. /\ async_evaluation' \in [Modules -> BOOLEAN]
         /\ async_evaluation'[t] = a
         /\ \A x \in Modules : x # t => async_evaluation'[x] = async_evaluation[x]
    <2>1. async_evaluation' = [async_evaluation EXCEPT ![t] = @ \/ (Waits(t) \/ t \in has_tla)]
      BY <1>3 DEF InnerDone
    <2>2. /\ async_evaluation'[t] <=> (async_evaluation[t] \/ Waits(t) \/ t \in has_tla)
          /\ \A x \in Modules : x # t => async_evaluation'[x] = async_evaluation[x]
      BY <1>2, <1>4, <2>1 DEF AsyncTypes
    <2>3. async_evaluation' \in [Modules -> BOOLEAN]
      BY DEF SearchInv, Typed, AsyncTypes
    <2>4. async_evaluation'[t] \in BOOLEAN
      BY <1>4, <2>3
    <2>5. async_evaluation'[t] <=> a
      BY <1>8, <1>9, <2>2
    <2> QED
      BY <2>2, <2>3, <2>4, <2>5
  <1>11. /\ frames \in Seq(FrameSet) /\ GraphTypes /\ DOMAIN frames = 1 .. Len(frames)
         /\ Len(frames) \in Nat \ {0} /\ DOMAIN frames' = 1 .. Len(frames) - 1
         /\ \A k \in 1 .. Len(frames) - 1 : frames'[k] = frames[k + 1]
         /\ body \in [Modules -> {"none", "awaiting", "returned", "threw"}]
    <2>1. frames \in Seq(FrameSet) /\ GraphTypes
      BY DEF SearchInv, Typed, SearchTypes
    <2> QED
      BY <1>1, <1>2, <2>1, HeadDropped DEF BodyTypes
  <1>12. /\ Waits(t) => body' = body /\ started' = started
         /\ ~Waits(t) => /\ body'[t] = IF t \in has_tla THEN "awaiting" ELSE "returned"
                         /\ started' = Append(started, t)
         /\ \A x \in Modules : x # t => body'[x] = body[x]
    <2>1. CASE Waits(t)
      BY <1>3, <2>1 DEF InnerDone, bodyVars
    <2>2. CASE ~Waits(t)
      <3>1. PICK o \in {"awaiting", "returned", "threw"} :
               o = (IF t \in has_tla THEN "awaiting" ELSE "returned")
        OBVIOUS
      <3>2. Run(t, o)
        BY <1>3, <2>2, <3>1 DEF InnerDone
      <3> QED
        BY <1>4, <1>11, <2>2, <3>1, <3>2 DEF Run
    <2> QED
      BY <2>1, <2>2
  <1>13. /\ \A x \in C : /\ status[x] = "evaluating" /\ cycle_root'[x] = t
                         /\ status'[x] = IF async_evaluation'[x] THEN "evaluating_async" ELSE "evaluated"
         /\ \A x \in Modules \ C : status'[x] = status[x] /\ cycle_root'[x] = cycle_root[x]
         /\ root => t \in C
         /\ \A x \in C : x \in Modules /\ root /\ dfs_index[t] <= dfs_index[x]
    <2>1. CASE root
      <3>1. /\ status' = [x \in Modules |-> IF x \notin C THEN status[x]
                                           ELSE IF async_evaluation'[x] THEN "evaluating_async"
                                           ELSE "evaluated"]
            /\ cycle_root' = [x \in Modules |-> IF x \in C THEN t ELSE cycle_root[x]]
        BY <1>3, <1>5, <1>6, <2>1 DEF InnerDone
      <3> QED
        BY <1>4, <1>6, <2>1, <3>1
    <2>2. CASE ~root
      BY <1>3, <1>5, <1>6, <2>2 DEF InnerDone
    <2> QED
      BY <2>1, <2>2
  <1>14. \A x \in C : x # t => x \notin Framed /\ dfs_index[t] < dfs_index[x]
    <2> SUFFICES ASSUME NEW x \in C, x # t PROVE x \notin Framed /\ dfs_index[t] < dfs_index[x]
      OBVIOUS
    <2>1. dfs_index[t] < dfs_index[x]
      BY <1>4, <1>13, StackDistinct
    <2> QED
      BY <1>4, <1>13, <2>1
  <1>15. \A x \in OnStack : dfs_index[t] <= dfs_index[x] => dfs_ancestor_index[t] <= dfs_ancestor_index[x]
    BY <1>1, <1>3, LowestInComponent DEF AsyncInv
  <1>16. /\ \A x \in C : ~eval_has_exception[x] /\ status'[x] \in Finished
         /\ \A x \in Modules : status[x] \in Finished => x \notin C
         /\ \A x \in OnStack \ C : root => dfs_index[x] < dfs_index[t]
         /\ eval_has_exception' = eval_has_exception
         /\ \A x \in OnStack : dfs_ancestor_index[x] <= dfs_index[x]
    <2>1. \A x \in C : ~eval_has_exception[x]
      BY <1>13 DEF AsyncInv, FailedOnly
    <2>2. \A x \in OnStack : dfs_ancestor_index[x] <= dfs_index[x]
      BY DEF SearchInv, Shape, Ordered
    <2> QED
      BY <1>1, <1>4, <1>6, <1>13, <2>1, <2>2 DEF Finished
  <1>17. Persists
    BY <1>9, <1>12 DEF Persists
  <1>18. ASSUME NEW q \in Modules, NEW d \in Modules, SeenBy(q, d) PROVE SeenBy(q, d)'
    <2>1. CASE status[q] = "evaluating" /\ status[d] = "evaluating"
      <3>1. /\ dfs_ancestor_index[q] <= dfs_index[d] /\ q \in OnStack /\ d \in OnStack
            /\ \A f \in Framed : dfs_index[q] < dfs_index[f] => dfs_index[d] < dfs_index[f]
        BY <1>4, <1>18, <2>1 DEF SeenBy, Known, Finished
      <3>2. CASE q \in C /\ d \in C
        BY <1>13, <1>16, <3>2 DEF SeenBy
      <3>3. CASE q \in C /\ d \notin C
        <4>1. dfs_index[d] < dfs_index[t] /\ dfs_index[t] = dfs_ancestor_index[t]
          BY <1>5, <1>13, <1>16, <3>1, <3>3 DEF IsRoot
        <4>2. dfs_ancestor_index[t] <= dfs_ancestor_index[q]
          BY <1>13, <1>15, <3>1, <3>3
        <4> QED
          BY <1>4, <3>1, <4>1, <4>2
      <3>4. CASE q \notin C /\ d \in C
        <4>1. dfs_index[q] < dfs_index[t] /\ dfs_index[t] <= dfs_index[d]
          BY <1>13, <1>16, <3>1, <3>4
        <4> QED
          BY <1>4, <3>1, <4>1
      <3>5. CASE q \notin C /\ d \notin C
        BY <1>1, <1>7, <1>13, <2>1, <3>1, <3>5 DEF SeenBy
      <3> QED
        BY <3>2, <3>3, <3>4, <3>5
    <2>2. CASE status[q] \in Finished /\ status[d] \in Finished /\ cycle_root[q] = cycle_root[d]
      BY <1>13, <1>16, <2>2 DEF SeenBy
    <2>3. CASE Known(q, d)
      <3>1. \A x \in Modules : status[x] \in Finished =>
              /\ status'[x] \in Finished /\ cycle_root'[x] = cycle_root[x]
              /\ \A p \in ToSet(async_parent_modules[x]) : p \in ToSet(async_parent_modules'[x])
              /\ status[x] = "evaluated" => status'[x] = "evaluated"
                                            /\ eval_has_exception'[x] = eval_has_exception[x]
        BY <1>1, <1>13, <1>16
      <3>2. Known(q, d)'
        BY <2>3, <3>1, KnownStays DEF AsyncInv
      <3> QED
        BY <3>2 DEF SeenBy
    <2> QED
      BY <1>18, <2>1, <2>2, <2>3 DEF SeenBy
  <1>19. Paths'
    <2> SUFFICES ASSUME phase' = "inner" PROVE Paths'
      BY DEF Paths
    <2>1. ASSUME NEW f \in Framed', NEW x \in OnStack', dfs_index'[f] <= dfs_index'[x]
          PROVE  x \in Reachable(f)'
      BY <1>1, <1>7, <2>1, ReachKept DEF OutcomeInv, Paths
    <2>2. ASSUME NEW x \in OnStack'
          PROVE  \E f \in Framed' : dfs_index'[f] <= dfs_index'[x] /\ f \in Reachable(x)'
      <3>1. PICK f \in Framed : dfs_index[f] <= dfs_index[x] /\ f \in Reachable(x)
        BY <1>1, <1>7, <2>2 DEF OutcomeInv, Paths
      <3>2. CASE f # t
        <4>1. f \in Framed'
          BY <1>7, <3>1, <3>2
        <4> QED
          BY <1>1, <3>1, <4>1, ReachKept
      <3>3. CASE f = t
        <4>1. x \in OnStack /\ x \notin C /\ ~root
          BY <1>4, <1>6, <1>7, <2>2, <3>1, <3>3
        <4>2. dfs_ancestor_index[t] < dfs_index[t]
          BY <1>4, <1>5, <1>16, <4>1 DEF IsRoot
        <4>3. PICK y \in OnStack : dfs_index[y] = dfs_ancestor_index[t] /\ y \in Reachable(t)
          BY <1>1, <1>4 DEF OutcomeInv, Paths
        <4>4. PICK g \in Framed : dfs_index[g] <= dfs_index[y] /\ g \in Reachable(y)
          BY <1>1, <4>3 DEF OutcomeInv, Paths
        <4>5. dfs_index[g] < dfs_index[t] /\ dfs_index[g] <= dfs_index[x]
          BY <1>4, <3>1, <3>3, <4>1, <4>2, <4>3, <4>4
        <4>6. y \in Reachable(x)
          BY <1>11, <3>1, <3>3, <4>3, ReachTrans
        <4>7. g \in Reachable(x)
          BY <1>11, <4>4, <4>6, ReachTrans
        <4>8. g \in Framed'
          BY <1>4, <1>7, <4>4, <4>5
        <4> QED
          BY <1>1, <4>5, <4>7, <4>8, ReachKept
      <3> QED
        BY <3>2, <3>3
    <2>3. ASSUME NEW x \in OnStack'
          PROVE  \E y \in OnStack' : dfs_index'[y] = dfs_ancestor_index'[x] /\ y \in Reachable(x)'
      <3>1. x \in OnStack /\ x \notin C
        BY <1>7, <2>3
      <3>2. PICK y \in OnStack : dfs_index[y] = dfs_ancestor_index[x] /\ y \in Reachable(x)
        BY <1>1, <3>1 DEF OutcomeInv, Paths
      <3>3. y \notin C
        BY <1>4, <1>13, <1>16, <3>1, <3>2
      <3>4. y \in OnStack'
        BY <1>7, <3>2, <3>3
      <3> QED
        BY <1>1, <3>2, <3>4, ReachKept
    <2> QED
      BY <2>1, <2>2, <2>3 DEF Paths
  <1>20. Edges'
    BY <1>1, ReachKept DEF OutcomeInv, Edges
  <1>21. Cycles'
    <2> SUFFICES ASSUME NEW m \in Modules, NEW r \in Modules,
                        status'[m] \in Finished, cycle_root'[m] = r,
                        NEW x \in Modules, status'[x] \in Finished,
                        cycle_root'[x] = r, ~eval_has_exception[x]
                 PROVE  m \in Reachable(r) /\ r \in Reachable(m)
      BY <1>1, ReachKept DEF Cycles
    <2>1. CASE m \in C
      <3>1. r = t /\ m \in OnStack /\ dfs_index[t] <= dfs_index[m]
        BY <1>13, <2>1
      <3>2. m \in Reachable(t)
        BY <1>1, <1>3, <3>1 DEF OutcomeInv, Paths
      <3>3. t \in Reachable(m)
        BY <1>1, <1>3, <3>1, TopReached DEF OutcomeInv
      <3> QED
        BY <3>1, <3>2, <3>3
    <2>2. CASE m \notin C
      <3>1. status[m] \in Finished /\ cycle_root[m] = r
        BY <1>13, <2>2
      <3>2. r # t
        BY <1>4, <3>1 DEF AsyncInv, Roots, Finished
      <3>3. x \notin C
        BY <1>13, <3>2
      <3>4. status[x] \in Finished /\ cycle_root[x] = r
        BY <1>13, <3>3
      <3> QED
        BY <3>1, <3>4 DEF OutcomeInv, Cycles
    <2> QED
      BY <2>1, <2>2
  <1>22. Visited'
    <2> SUFFICES ASSUME NEW q \in Modules, NEW d \in ToSet(req'[q]),
                        status'[q] \in Going \union {"evaluated"}, ~eval_has_exception'[q],
                        q \notin Framed'
                 PROVE  SeenBy(q, d)'
      BY DEF Visited
    <2>1. d \in ToSet(req[q]) /\ d \in Modules
      BY <1>1, <1>11, ReachRequests
    <2>2. SeenBy(q, d)
      <3>1. CASE q = t
        BY <1>1, <1>3, <2>1, <3>1, TopSeen DEF OutcomeInv
      <3>2. CASE q # t
        <4>1. q \notin Framed /\ ~eval_has_exception[q]
          BY <1>7, <1>16, <3>2
        <4>2. status[q] \in Going \union {"evaluated"}
          BY <1>13 DEF Going
        <4> QED
          BY <2>1, <4>1, <4>2 DEF OutcomeInv, Visited
      <3> QED
        BY <3>1, <3>2
    <2> QED
      BY <1>18, <2>1, <2>2
  <1>23. VisitedFrames'
    <2> SUFFICES ASSUME NEW q \in Modules, NEW d \in Modules, Dealt(q, d)' PROVE SeenBy(q, d)'
      BY DEF VisitedFrames
    <2>1. PICK k \in DOMAIN frames' : /\ frames'[k].m = q
                                      /\ \E i \in 1 .. frames'[k].i - 1 : req'[q][i] = d
      BY DEF Dealt
    <2>2. k + 1 \in DOMAIN frames /\ frames'[k] = frames[k + 1]
      BY <1>11, <2>1
    <2>3. Dealt(q, d)
      BY <1>1, <2>1, <2>2 DEF Dealt
    <2> QED
      BY <1>1, <1>18, <2>3 DEF OutcomeInv, VisitedFrames
  <1>24. RootsTrue'
    <2> SUFFICES ASSUME NEW r \in Modules, status'[r] = "evaluated", ~eval_has_exception'[r],
                        cycle_root'[r] = r, NEW e \in Reachable(r)'
                 PROVE  body'[e] = "returned"
      BY DEF RootsTrue
    <2>1. e \in Reachable(r) /\ e \in Modules
      BY <1>1, ReachKept, ReachType
    <2>2. CASE r \in C
      <3>1. r = t /\ root /\ ~a
        BY <1>10, <1>13, <2>2
      <3>2. IsRoot(Top.m) /\ ~Waits(Top.m) /\ Top.m \notin has_tla
        BY <1>3, <1>5, <1>8, <3>1
      <3>3. e = t \/ body[e] = "returned"
        BY <1>1, <1>3, <2>1, <3>1, <3>2, DoneRoot
      <3>4. body'[t] = "returned"
        BY <1>3, <1>12, <3>2
      <3> QED
        BY <1>17, <2>1, <3>3, <3>4 DEF Persists
    <2>3. CASE r \notin C
      <3>1. status[r] = "evaluated" /\ ~eval_has_exception[r] /\ cycle_root[r] = r
        BY <1>13, <1>16, <2>3
      <3>2. body[e] = "returned"
        BY <2>1, <3>1 DEF OutcomeInv, RootsTrue
      <3> QED
        BY <1>17, <2>1, <3>2 DEF Persists
    <2> QED
      BY <2>2, <2>3
  <1>25. RequestsRunFirst'
    <2>1. CASE Waits(t)
      BY <1>1, <1>12, <1>17, <2>1, FirstStays DEF OutcomeInv
    <2>2. CASE ~Waits(t)
      <3>1. \A d \in ToSet(req[t]) : t \notin Reachable(d) => Complete(d)
        BY <1>1, <1>3, <2>2, TopRuns
      <3> QED
        BY <1>1, <1>2, <1>4, <1>12, <1>17, <2>2, <3>1, FirstAfter DEF OutcomeInv
    <2> QED
      BY <2>1, <2>2
  <1>26. PICK n \in Modules : n = entry
    BY <1>1 DEF SearchInv, Phases
  <1>27. \A m \in Modules : promise[m] # "none" =>
            /\ (status[m] \in Finished /\ cycle_root[m] = m) \/ m = n
            /\ promise[m] = "fulfilled" => status[m] = "evaluated" /\ ~eval_has_exception[m]
            /\ promise[m] = "rejected" => eval_has_exception[m]
    BY <1>1, <1>26 DEF OutcomeInv, Promised
  <1>28. Promised'
    <2>1. CASE Tail(frames) = <<>>
      <3>1. root /\ t \in C /\ n = t
        BY <1>3, <1>5, <1>13, <1>26, <2>1, InnerDoneSearch
      <3>2. promise' = [promise EXCEPT ![n] = IF a THEN @ ELSE "fulfilled"]
        <4>1. promise' = [promise EXCEPT ![n] = IF async_evaluation'[n] THEN @ ELSE "fulfilled"]
          BY <1>26, <2>1 DEF InnerDone
        <4> QED
          BY <1>10, <3>1, <4>1
      <3>3. promise \in [Modules -> {"none", "pending", "fulfilled", "rejected"}]
        BY <1>2 DEF ResultTypes
      <3> SUFFICES ASSUME NEW m \in Modules, promise'[m] # "none"
                   PROVE  /\ status'[m] \in Finished /\ cycle_root'[m] = m
                          /\ promise'[m] = "fulfilled" =>
                                status'[m] = "evaluated" /\ ~eval_has_exception[m]
                          /\ promise'[m] = "rejected" => eval_has_exception[m]
        BY <1>16 DEF Promised
      <3>4. CASE m = t
        <4>1. /\ status[t] = "evaluating" /\ status'[t] \in Finished /\ cycle_root'[t] = t
              /\ ~eval_has_exception[t]
          BY <1>13, <1>16, <3>1
        <4>2. promise'[t] = IF a THEN promise[t] ELSE "fulfilled"
          BY <1>26, <3>1, <3>2, <3>3
        <4>3. CASE a
          BY <1>4, <1>27, <3>4, <4>1, <4>2, <4>3
        <4>4. CASE ~a
          BY <1>10, <1>13, <3>1, <3>4, <4>1, <4>2, <4>4
        <4> QED
          BY <4>3, <4>4
      <3>5. CASE m # t
        <4>1. promise'[m] = promise[m]
          BY <3>1, <3>2, <3>3, <3>5
        <4>2. m \notin C
          BY <1>16, <1>27, <3>1, <3>5, <4>1
        <4> QED
          BY <1>13, <1>27, <3>1, <3>5, <4>1, <4>2
      <3> QED
        BY <3>4, <3>5
    <2>2. CASE Tail(frames) # <<>>
      <3>1. UNCHANGED <<promise, phase, entry>>
        BY <2>2 DEF InnerDone
      <3>2. \A x \in Modules : /\ status[x] \in Finished => status'[x] = status[x]
                                                            /\ cycle_root'[x] = cycle_root[x]
                               /\ status[x] = "evaluated" => status'[x] = "evaluated"
        BY <1>13, <1>16 DEF Finished
      <3> SUFFICES ASSUME NEW m \in Modules, promise[m] # "none"
                   PROVE  /\ (status'[m] \in Finished /\ cycle_root'[m] = m) \/ m = entry
                          /\ promise[m] = "fulfilled" =>
                                status'[m] = "evaluated" /\ ~eval_has_exception[m]
                          /\ promise[m] = "rejected" => eval_has_exception[m]
        BY <1>1, <1>16, <3>1 DEF Promised
      <3> QED
        BY <1>26, <1>27, <3>2
    <2> QED
      BY <2>1, <2>2
  <1>29. Blames'
    BY <1>1, <1>16, <1>17, ThrewStays DEF OutcomeInv, Blames
  <1>30. Throws'
    <2> SUFFICES ASSUME NEW m \in Modules, body'[m] = "threw", ~eval_has_exception[m]
                 PROVE  \E k \in DOMAIN jobs : jobs[k].m = m
      BY <1>1, <1>16 DEF Throws
    <2>1. body[m] = "threw"
      BY <1>12
    <2> QED
      BY <1>1, <2>1 DEF OutcomeInv, Throws
  <1> QED
    BY <1>19, <1>20, <1>21, <1>22, <1>23, <1>24, <1>25, <1>28, <1>29, <1>30 DEF OutcomeInv

(***************************************************************************)
(* The invariant holds, and what follows from it.                          *)
(***************************************************************************)
LEMMA UnchangedOutcome == ASSUME OutcomeInv, UNCHANGED vars PROVE OutcomeInv'
  <1>1. /\ UNCHANGED <<req, status, dfs_index, dfs_ancestor_index, frames, stack>>
        /\ UNCHANGED <<async_parent_modules, cycle_root, eval_has_exception, promise>>
        /\ UNCHANGED <<phase, entry, work, jobs, body, started>>
    BY DEF vars, graphVars, searchVars, asyncVars, resultVars, jobVars, bodyVars
  <1>2. Framed' = Framed /\ OnStack' = OnStack
    BY <1>1 DEF Framed, OnStack
  <1>3. /\ \A q, d : SeenBy(q, d) => SeenBy(q, d)'
        /\ \A q, d : Dealt(q, d)' => Dealt(q, d)
    BY <1>1, <1>2 DEF SeenBy, Known, Dealt
  <1>4. Paths' /\ Edges' /\ Cycles'
    BY <1>1, <1>2, ReachKept DEF OutcomeInv, Paths, Edges, Cycles
  <1>5. Visited'
    BY <1>1, <1>2, <1>3 DEF OutcomeInv, Visited
  <1>6. VisitedFrames'
    BY <1>1, <1>3 DEF OutcomeInv, VisitedFrames
  <1>7. Persists
    BY <1>1 DEF Persists
  <1>8. RootsTrue' /\ RequestsRunFirst'
    BY <1>1, <1>7, RootsStay, FirstStays DEF OutcomeInv
  <1>9. Promised'
    BY <1>1 DEF OutcomeInv, Promised
  <1>10. Blames' /\ Throws'
    BY <1>1, <1>7, ThrewStays DEF OutcomeInv, Blames, Throws
  <1> QED
    BY <1>4, <1>5, <1>6, <1>8, <1>9, <1>10 DEF OutcomeInv

LEMMA InitOutcome == Init => OutcomeInv
  <1> SUFFICES ASSUME Init PROVE OutcomeInv
    OBVIOUS
  <1>1. /\ \A m \in Modules : /\ status[m] = "unlinked" /\ body[m] = "none"
                              /\ async_parent_modules[m] = <<>> /\ ~eval_has_exception[m]
                              /\ promise[m] = "none"
        /\ phase = "idle" /\ started = <<>>
    BY DEF Init
  <1>2. /\ \A m \in Modules : ToSet(async_parent_modules[m]) = {}
        /\ ToSet(started) = {}
    BY <1>1 DEF ToSet
  <1>3. Paths /\ VisitedFrames /\ Edges /\ Cycles /\ RootsTrue
    BY <1>1, <1>2 DEF Paths, VisitedFrames, Edges, Cycles, RootsTrue, Finished
  <1>4. Visited
    BY <1>1 DEF Visited, Going
  <1>5. RequestsRunFirst
    BY <1>2 DEF RequestsRunFirst
  <1>6. Promised /\ Blames /\ Throws
    BY <1>1 DEF Promised, Blames, Throws
  <1> QED
    BY <1>3, <1>4, <1>5, <1>6 DEF OutcomeInv

LEMMA StepOutcome == SearchInv /\ SearchInv' /\ AsyncInv /\ OutcomeInv /\ [Next]_vars => OutcomeInv'
  <1> SUFFICES ASSUME SearchInv, SearchInv', AsyncInv, OutcomeInv, [Next]_vars PROVE OutcomeInv'
    OBVIOUS
  <1>1. CASE \E m \in Modules : Import(m)
    BY <1>1, ImportOutcome
  <1>2. CASE Link
    BY <1>2, LinkActionsOutcome
  <1>3. CASE Evaluate
    BY <1>3, EvaluateAgainOutcome, EvaluateKnownOutcome, EvaluateNewOutcome, InnerEnterOutcome,
       InnerVisitedOutcome, InnerFailOutcome, InnerDoneOutcome, InnerThrowsOutcome DEF Evaluate
  <1>4. CASE React
    BY <1>4, LateReactionOutcome, FulfilledOutcome, GatherOutcome, GatherDoneOutcome,
       ExecSkipOutcome, ExecAsyncOutcome, ExecSyncOutcome, ExecDoneOutcome, RejectedOutcome,
       RejectOutcome DEF React
  <1>5. CASE \E m \in Modules, ok \in BOOLEAN : BodySettles(m, ok)
    BY <1>5, BodySettlesOutcome
  <1>6. CASE Rest
    BY <1>6, UnchangedOutcome DEF Rest
  <1>7. CASE UNCHANGED vars
    BY <1>7, UnchangedOutcome
  <1> QED
    BY <1>1, <1>2, <1>3, <1>4, <1>5, <1>6, <1>7 DEF Next

\* What the engine knows of an evaluation and its outcome is true of the whole graph
\* below it, in every reachable state.
THEOREM OutcomeInvariant == Spec => [](SearchInv /\ AsyncInv /\ OutcomeInv)
  <1>1. Init => SearchInv /\ AsyncInv /\ OutcomeInv
    BY InitSearch, InitAsync, InitOutcome
  <1>2. SearchInv /\ AsyncInv /\ OutcomeInv /\ [Next]_vars => (SearchInv /\ AsyncInv /\ OutcomeInv)'
    BY StepSearch, StepAsync, StepOutcome
  <1> QED
    BY <1>1, <1>2, PTL DEF Spec

\* A module runs at most once, and only when everything below its requests, but for
\* those that lead back to it, has run to its end (js_inner_module_evaluation and the
\* reactions of asynchronous modules).
THEOREM RequestsRunInTurn == Spec => []RunInTurn
  <1>1. AsyncInv /\ OutcomeInv => RunInTurn
    BY DEF AsyncInv, Runs, OutcomeInv, RunInTurn
  <1> QED
    BY <1>1, OutcomeInvariant, PTL

LEMMA PromisesTold == SearchInv /\ OutcomeInv => PromiseTellsTheTruth
  <1> SUFFICES ASSUME SearchInv, OutcomeInv, NEW m \in Modules
               PROVE  /\ promise[m] = "fulfilled" => \A d \in Reachable(m) : body[d] = "returned"
                      /\ promise[m] = "rejected"  => \E d \in Reachable(m) : body[d] = "threw"
    BY DEF PromiseTellsTheTruth
  <1>1. ASSUME promise[m] = "fulfilled"
        PROVE  \A d \in Reachable(m) : body[d] = "returned"
    <2>1. /\ (status[m] \in Finished /\ cycle_root[m] = m) \/ (phase = "inner" /\ m = entry)
          /\ status[m] = "evaluated" /\ ~eval_has_exception[m]
      BY <1>1 DEF OutcomeInv, Promised
    <2>2. ~(phase = "inner" /\ m = entry)
      <3> SUFFICES ASSUME phase = "inner", m = entry PROVE FALSE
        OBVIOUS
      <3>1. stack # <<>> /\ stack[Len(stack)] = m /\ stack \in Seq(Modules)
        BY DEF SearchInv, Shape, Rooted, Typed, SearchTypes, Phases
      <3>2. m \in OnStack
        BY <3>1 DEF OnStack, ToSet
      <3>3. status[m] = "evaluating"
        BY <3>2, StackFacts DEF Searched
      <3> QED
        BY <2>1, <3>3
    <2> QED
      BY <2>1, <2>2 DEF OutcomeInv, RootsTrue
  <1>2. ASSUME promise[m] = "rejected"
        PROVE  \E d \in Reachable(m) : body[d] = "threw"
    BY <1>2 DEF OutcomeInv, Promised, Blames, Threw
  <1> QED
    BY <1>1, <1>2

\* Where no root has failed, nothing below has thrown.
LEMMA ErrorsSpread == SearchInv /\ AsyncInv /\ OutcomeInv => ErrorReachesRequesters
  <1> SUFFICES ASSUME SearchInv, AsyncInv, OutcomeInv, phase = "idle", jobs = <<>>,
                      NEW m \in Modules, status[m] \in Finished,
                      ~eval_has_exception[cycle_root[m]]
               PROVE  \A d \in Reachable(m) : body[d] # "threw"
    BY DEF ErrorReachesRequesters
  <1> DEFINE S == {x \in Modules : status[x] \in Finished /\ ~eval_has_exception[cycle_root[x]]}
  <1>1. GraphTypes /\ \A x \in Modules : status[x] # "evaluating" /\ x \notin Framed
    BY OutsideFacts, StackFacts DEF SearchInv, Typed, Searched
  <1>2. \A x \in S : ~eval_has_exception[x]
    BY RootFails
  <1>3. ASSUME NEW x \in S, NEW d \in ToSet(req[x]) PROVE d \in S
    <2>1. d \in Modules /\ status[x] \in Going \union {"evaluated"}
      BY <1>1, ReachRequests DEF Finished, Going
    <2>2. SeenBy(x, d)
      BY <1>1, <1>2, <2>1 DEF OutcomeInv, Visited
    <2>3. CASE Known(x, d)
      <3>1. /\ status[d] \in Finished /\ cycle_root[d] \in Modules
        BY <2>1, <2>3 DEF Known, AsyncInv, Roots
      <3>2. ~eval_has_exception[cycle_root[d]]
        BY <1>2, <2>3, <3>1 DEF Known, AsyncInv, Spread
      <3> QED
        BY <2>1, <3>1, <3>2
    <2> QED
      BY <1>1, <2>1, <2>2, <2>3 DEF SeenBy
  <1>4. S \subseteq Modules /\ m \in S
    OBVIOUS
  <1>5. \A d \in Reachable(m) : d \in S
    <2> HIDE DEF S
    <2> QED
      BY <1>3, <1>4, ReachLeast
  <1>6. ASSUME NEW d \in S PROVE body[d] # "threw"
    <2>1. ~eval_has_exception[d] /\ d \in Modules /\ DOMAIN jobs = {}
      BY <1>2
    <2> QED
      BY <2>1 DEF OutcomeInv, Throws
  <1> QED
    BY <1>5, <1>6

\* A fulfilled import has run all that it reaches; a rejected one, and, once all
\* reactions have run, the root of whoever requested a module that threw, has failed
\* (js_async_module_execution_fulfilled and js_async_module_execution_rejected).
THEOREM OutcomesAreTold == Spec => []OutcomesAreTrue
  <1>1. SearchInv /\ AsyncInv /\ OutcomeInv => OutcomesAreTrue
    BY PromisesTold, ErrorsSpread DEF OutcomesAreTrue
  <1> QED
    BY <1>1, OutcomeInvariant, PTL
=============================================================================
