----------------------------- MODULE DataLemmas -----------------------------
(***************************************************************************)
(* Lemmas about lists, numbers and finite sets that the proofs of several  *)
(* components cite: what RemoveAt and Append do, least and greatest        *)
(* elements, and induction with the property given as a set.               *)
(***************************************************************************)
EXTENDS Integers, Sequences, SequencesExt, SequenceTheorems, FiniteSetTheorems, TLAPS

\* Removing an entry of a list keeps the others in order (g_procs.Delete, list_del).
LEMMA RemoveAtFacts ==
    ASSUME NEW S, NEW s \in Seq(S), NEW n \in DOMAIN s
    PROVE  /\ RemoveAt(s, n) \in Seq(S)
           /\ Len(RemoveAt(s, n)) = Len(s) - 1
           /\ \A i \in 1 .. Len(s) - 1 :
                 RemoveAt(s, n)[i] = IF i < n THEN s[i] ELSE s[i + 1]
  <1>1. n \in 1 .. Len(s) /\ Len(s) \in Nat
    OBVIOUS
  <1> DEFINE a == SubSeq(s, 1, n - 1)
             b == SubSeq(s, n + 1, Len(s))
  <1>2. a \in Seq(S) /\ Len(a) = n - 1 /\ \A i \in 1 .. n - 1 : a[i] = s[i]
    BY <1>1
  <1>3. /\ b \in Seq(S) /\ Len(b) = Len(s) - n
        /\ \A i \in 1 .. Len(s) - n : b[i] = s[n + i]
    BY <1>1
  <1> HIDE DEF a, b
  <1>4. RemoveAt(s, n) = a \o b
    BY DEF a, b, RemoveAt
  <1>5. a \o b \in Seq(S) /\ Len(a \o b) = Len(s) - 1
    BY <1>1, <1>2, <1>3
  <1>6. ASSUME NEW i \in 1 .. Len(s) - 1
        PROVE  (a \o b)[i] = IF i < n THEN s[i] ELSE s[i + 1]
    <2>1. CASE i < n
      BY <1>1, <1>2, <1>3, <2>1
    <2>2. CASE ~(i < n)
      <3>1. /\ i \in 1 .. Len(a) + Len(b) /\ ~(i <= Len(a))
            /\ i - Len(a) \in 1 .. Len(s) - n /\ n + (i - Len(a)) = i + 1
        BY <1>1, <1>2, <1>3, <2>2
      <3>2. a \in Seq(S) /\ b \in Seq(S)
        BY <1>2, <1>3
      <3>3. \A j \in 1 .. Len(a) + Len(b) :
               (a \o b)[j] = IF j <= Len(a) THEN a[j] ELSE b[j - Len(a)]
        BY <3>2, ConcatProperties
      <3>4. (a \o b)[i] = b[i - Len(a)]
        BY <3>1, <3>3
      <3>5. b[i - Len(a)] = s[n + (i - Len(a))]
        BY <1>3, <3>1
      <3>6. b[i - Len(a)] = s[i + 1]
        BY <3>1, <3>5
      <3> QED
        BY <2>2, <3>4, <3>6
    <2> QED
      BY <2>1, <2>2
  <1> QED
    BY <1>4, <1>5, <1>6

\* Seen as a map of positions: from a place in the shorter list to the place the
\* entry had, one to one, the removed one left out.
LEMMA RemoveAtPlaces ==
    ASSUME NEW S, NEW s \in Seq(S), NEW n \in DOMAIN s
    PROVE  /\ DOMAIN RemoveAt(s, n) = 1 .. Len(s) - 1
           /\ \A i \in DOMAIN RemoveAt(s, n) :
                 \E j \in DOMAIN s \ {n} :
                    /\ RemoveAt(s, n)[i] = s[j]
                    /\ j = (IF i < n THEN i ELSE i + 1)
           /\ \A j \in DOMAIN s \ {n} :
                 \E i \in DOMAIN RemoveAt(s, n) : RemoveAt(s, n)[i] = s[j]
  <1> DEFINE r == RemoveAt(s, n)
  <1>11. Len(s) \in Nat /\ n \in 1 .. Len(s) /\ DOMAIN s = 1 .. Len(s)
    OBVIOUS
  <1>12. /\ r \in Seq(S) /\ Len(r) = Len(s) - 1
        /\ \A i \in 1 .. Len(s) - 1 : r[i] = IF i < n THEN s[i] ELSE s[i + 1]
    BY RemoveAtFacts
  <1> HIDE DEF r
  <1>1. /\ Len(s) \in Nat /\ n \in 1 .. Len(s) /\ DOMAIN s = 1 .. Len(s)
        /\ r \in Seq(S) /\ Len(r) = Len(s) - 1
        /\ \A i \in 1 .. Len(s) - 1 : r[i] = IF i < n THEN s[i] ELSE s[i + 1]
    BY <1>11, <1>12
  <1>2. DOMAIN r = 1 .. Len(s) - 1
    BY <1>1
  <1>3. ASSUME NEW i \in DOMAIN r
        PROVE  \E j \in DOMAIN s \ {n} :
                  r[i] = s[j] /\ j = (IF i < n THEN i ELSE i + 1)
    <2>1. CASE i < n
      BY <1>1, <1>2, <2>1
    <2>2. CASE ~(i < n)
      BY <1>1, <1>2, <2>2
    <2> QED
      BY <2>1, <2>2
  <1>4. ASSUME NEW j \in DOMAIN s \ {n}
        PROVE  \E i \in DOMAIN r : r[i] = s[j]
    <2>1. CASE j < n
      BY <1>1, <1>2, <2>1
    <2>2. CASE ~(j < n)
      <3>1. j - 1 \in 1 .. Len(s) - 1 /\ ~(j - 1 < n) /\ (j - 1) + 1 = j
        BY <1>1, <2>2
      <3> QED
        BY <1>1, <1>2, <3>1
    <2> QED
      BY <2>1, <2>2
  <1> QED
    BY <1>2, <1>3, <1>4 DEF r

\* Appending to a list keeps what it holds in place.
LEMMA AppendFacts ==
    ASSUME NEW S, NEW s \in Seq(S), NEW e \in S
    PROVE  /\ Append(s, e) \in Seq(S)
           /\ DOMAIN Append(s, e) = 1 .. Len(s) + 1
           /\ \A i \in DOMAIN Append(s, e) :
                 Append(s, e)[i] = IF i = Len(s) + 1 THEN e ELSE s[i]
  <1>1. DOMAIN Append(s, e) = 1 .. Len(s) + 1 /\ Append(s, e) \in Seq(S)
    OBVIOUS
  <1>2. ASSUME NEW i \in 1 .. Len(s) + 1
        PROVE  Append(s, e)[i] = IF i = Len(s) + 1 THEN e ELSE s[i]
    BY AppendProperties
  <1> QED
    BY <1>1, <1>2

\* A set of numbers that is not empty has a least element.  Of the segments 0 .. n that
\* end in the set, one contains no other.
LEMMA LeastExists ==
    ASSUME NEW T, T \subseteq Nat, T # {}
    PROVE  \E x \in T : \A y \in T : x <= y
  <1> DEFINE R == StrictSubsetOrdering(Nat)
             F == FiniteSubsetsOf(Nat)
             Segments == {0 .. n : n \in T}
  <1>1. IsWellFoundedOn(R, F)
    BY FS_StrictSubsetOrderingWellFounded
  <1>2. ASSUME NEW n \in T PROVE 0 .. n \in F
    BY <1>2, FS_Interval DEF FiniteSubsetsOf
  <1>3. Segments \subseteq F /\ Segments # {}
    BY <1>2
  <1> HIDE DEF R, F
  <1>4. \E s \in Segments : \A t \in Segments : ~(<<t, s>> \in R)
    BY <1>1, <1>3, WFMin
  <1>5. PICK x \in T : \A y \in T : ~(<<0 .. y, 0 .. x>> \in R)
    BY <1>4
  <1>6. ASSUME NEW y \in T, ~(x <= y) PROVE FALSE
    <2>1. x \in Nat /\ y \in Nat /\ y < x
      BY <1>6
    <2>2. 0 .. y \subseteq 0 .. x /\ x \in 0 .. x /\ x \notin 0 .. y
      BY <2>1
    <2>3. 0 .. x \subseteq Nat
      BY <2>1
    <2>4. <<0 .. y, 0 .. x>> \in R
      BY <2>2, <2>3 DEF R, StrictSubsetOrdering
    <2> QED
      BY <1>5, <2>4
  <1> QED
    BY <1>6

\* Induction, the property given as the set W of the numbers that have it.
LEMMA Induction ==
    ASSUME NEW W, 0 \in W, \A n \in Nat : n \in W => n + 1 \in W
    PROVE  Nat \subseteq W
  <1> SUFFICES ASSUME NEW n \in Nat, n \notin W PROVE FALSE
    OBVIOUS
  <1> DEFINE T == Nat \ W
  <1>1. PICK x \in T : \A y \in T : x <= y
    BY LeastExists
  <1>2. x \in Nat /\ x # 0 /\ x - 1 \in Nat /\ (x - 1) + 1 = x
    BY <1>1
  <1>3. x - 1 \in W
    BY <1>1, <1>2
  <1> QED
    BY <1>2, <1>3, <1>1

\* The same for the subsets of a finite set, one element at a time.
LEMMA SubsetInduction ==
    ASSUME NEW S, IsFiniteSet(S), NEW W, {} \in W,
           \A T \in SUBSET S, x \in S : T \in W => T \union {x} \in W
    PROVE  S \in W
  <1> DEFINE R == StrictSubsetOrdering(S)
             F == FiniteSubsetsOf(S)
             Bad == F \ W
  <1> SUFFICES ASSUME S \notin W PROVE FALSE
    OBVIOUS
  <1>1. IsWellFoundedOn(R, F) /\ F = SUBSET S
    BY FS_StrictSubsetOrderingWellFounded, FS_FiniteSubsetsOfFinite
  <1>2. Bad \subseteq F /\ Bad # {}
    BY <1>1
  <1>3. PICK T \in Bad : \A U \in Bad : ~(<<U, T>> \in R)
    <2> HIDE DEF R, F, Bad
    <2> QED
      BY <1>1, <1>2, WFMin
  <1>4. PICK x : x \in T
    BY <1>3
  <1>5. T \ {x} \in SUBSET S /\ x \in S /\ T \in SUBSET S
    BY <1>1, <1>3, <1>4
  <1>6. <<T \ {x}, T>> \in R
    BY <1>4, <1>5 DEF StrictSubsetOrdering
  <1>7. T \ {x} \in W
    BY <1>1, <1>3, <1>5, <1>6
  <1>8. (T \ {x}) \union {x} = T
    BY <1>4
  <1> QED
    BY <1>3, <1>5, <1>7, <1>8

\* A finite set of numbers that is not empty has a greatest element.
LEMMA GreatestExists ==
    ASSUME NEW T, IsFiniteSet(T), T \subseteq Int, T # {}
    PROVE  \E x \in T : \A y \in T : y <= x
  <1> DEFINE W == {U \in SUBSET T : U # {} => \E x \in U : \A y \in U : y <= x}
  <1>1. {} \in W
    OBVIOUS
  <1>2. ASSUME NEW U \in SUBSET T, NEW z \in T, U \in W PROVE U \union {z} \in W
    <2>1. CASE U = {}
      BY <2>1
    <2>2. CASE U # {}
      <3>1. PICK x \in U : \A y \in U : y <= x
        BY <1>2, <2>2
      <3>2. CASE z <= x
        <4>1. \A y \in U \union {z} : y <= x
          BY <3>1, <3>2
        <4> QED
          BY <4>1
      <3>3. CASE ~(z <= x)
        <4>1. \A y \in U \union {z} : y <= z
          BY <3>1, <3>3
        <4> QED
          BY <4>1
      <3> QED
        BY <3>2, <3>3
    <2> QED
      BY <2>1, <2>2
  <1>3. T \in W
    <2> HIDE DEF W
    <2> QED
      BY <1>1, <1>2, SubsetInduction
  <1> QED
    BY <1>3

\* How many entries of a list are in a set, kept up as the list grows at its end and
\* shrinks at its head.
Entries(s, A) == {k \in DOMAIN s : s[k] \in A}

LEMMA EntriesFinite ==
    ASSUME NEW S, NEW s \in Seq(S), NEW A
    PROVE  IsFiniteSet(Entries(s, A)) /\ Cardinality(Entries(s, A)) \in Nat
  <1>1. IsFiniteSet(1 .. Len(s)) /\ Entries(s, A) \in SUBSET (1 .. Len(s))
    BY FS_Interval DEF Entries
  <1>2. IsFiniteSet(Entries(s, A))
    BY <1>1, FS_Subset
  <1> QED
    BY <1>2, FS_CardinalityType

LEMMA NoEntries ==
    ASSUME NEW A
    PROVE  Cardinality(Entries(<<>>, A)) = 0
  <1>1. Entries(<<>>, A) = {}
    BY DEF Entries
  <1> QED
    BY <1>1, FS_EmptySet

LEMMA AppendedEntry ==
    ASSUME NEW S, NEW s \in Seq(S), NEW e \in S, NEW A
    PROVE  Cardinality(Entries(Append(s, e), A))
               = Cardinality(Entries(s, A)) + (IF e \in A THEN 1 ELSE 0)
  <1> DEFINE n == Len(s) + 1
  <1>1. /\ DOMAIN Append(s, e) = 1 .. n /\ DOMAIN s = 1 .. Len(s)
        /\ Append(s, e)[n] = e /\ Len(s) \in Nat
        /\ \A k \in 1 .. Len(s) : Append(s, e)[k] = s[k]
    OBVIOUS
  <1>2. IsFiniteSet(Entries(s, A)) /\ n \notin Entries(s, A)
    <2>1. n \notin Entries(s, A)
      BY <1>1 DEF Entries
    <2> QED
      BY <2>1, EntriesFinite
  <1>3. CASE e \in A
    <2>1. Entries(Append(s, e), A) = Entries(s, A) \cup {n}
      BY <1>1, <1>3 DEF Entries
    <2> QED
      BY <1>2, <1>3, <2>1, FS_AddElement
  <1>4. CASE e \notin A
    <2>1. Entries(Append(s, e), A) = Entries(s, A)
      BY <1>1, <1>4 DEF Entries
    <2>2. Cardinality(Entries(s, A)) \in Nat
      BY EntriesFinite
    <2> QED
      BY <1>4, <2>1, <2>2
  <1> QED
    BY <1>3, <1>4

LEMMA DroppedHead ==
    ASSUME NEW S, NEW s \in Seq(S), s # <<>>, NEW A
    PROVE  Cardinality(Entries(s, A))
               = Cardinality(Entries(Tail(s), A)) + (IF Head(s) \in A THEN 1 ELSE 0)
  <1> DEFINE P == Entries(Tail(s), A)
             Q == Entries(s, A) \ {1}
             f == [k \in P |-> k + 1]
  <1>1. /\ Tail(s) \in Seq(S) /\ Len(s) \in Nat \ {0} /\ DOMAIN s = 1 .. Len(s)
        /\ DOMAIN Tail(s) = 1 .. Len(s) - 1 /\ Head(s) = s[1]
        /\ \A k \in 1 .. Len(s) - 1 : Tail(s)[k] = s[k + 1]
    OBVIOUS
  <1>2. IsFiniteSet(P) /\ Cardinality(P) \in Nat
    BY <1>1, EntriesFinite
  <1>3. IsFiniteSet(Entries(s, A)) /\ Cardinality(Entries(s, A)) \in Nat
    BY EntriesFinite
  <1>4. f \in [P -> Q]
    BY <1>1 DEF Entries
  <1>5. \A j, k \in P : f[j] = f[k] => j = k
    BY <1>1 DEF Entries
  <1>6. ASSUME NEW q \in Q PROVE \E k \in P : f[k] = q
    <2>1. q - 1 \in P /\ (q - 1) + 1 = q
      BY <1>1 DEF Entries
    <2> QED
      BY <2>1
  <1> HIDE DEF f
  <1>7. ExistsBijection(P, Q)
    BY <1>4, <1>5, <1>6
       DEF ExistsBijection, Bijection, Injection, Surjection, IsInjective
  <1>8. Cardinality(P) = Cardinality(Q)
    BY <1>2, <1>7, FS_Bijection
  <1>9. Cardinality(Q) = IF 1 \in Entries(s, A) THEN Cardinality(Entries(s, A)) - 1
                                                ELSE Cardinality(Entries(s, A))
    BY <1>3, FS_RemoveElement
  <1>10. 1 \in Entries(s, A) <=> Head(s) \in A
    BY <1>1 DEF Entries
  <1> QED
    BY <1>2, <1>3, <1>8, <1>9, <1>10

\* The elements of a list that is empty, grows at its end or loses its first.
LEMMA ListElements ==
    ASSUME NEW S, NEW s \in Seq(S)
    PROVE  /\ ToSet(s) \subseteq S
           /\ ToSet(<<>>) = {}
           /\ \A e \in S : ToSet(Append(s, e)) = ToSet(s) \union {e}
           /\ s # <<>> => /\ Head(s) \in ToSet(s) /\ Tail(s) \in Seq(S)
                          /\ ToSet(s) = {Head(s)} \union ToSet(Tail(s))
  <1>1. ToSet(s) \subseteq S /\ ToSet(<<>>) = {}
    BY DEF ToSet
  <1>2. ASSUME NEW e \in S PROVE ToSet(Append(s, e)) = ToSet(s) \union {e}
    <2>1. /\ DOMAIN Append(s, e) = 1 .. Len(s) + 1 /\ DOMAIN s = 1 .. Len(s)
          /\ Len(s) \in Nat /\ Append(s, e)[Len(s) + 1] = e
          /\ \A k \in 1 .. Len(s) : Append(s, e)[k] = s[k]
      OBVIOUS
    <2> QED
      BY <2>1 DEF ToSet
  <1>3. ASSUME s # <<>>
        PROVE  /\ Head(s) \in ToSet(s) /\ Tail(s) \in Seq(S)
               /\ ToSet(s) = {Head(s)} \union ToSet(Tail(s))
    <2>1. /\ Tail(s) \in Seq(S) /\ Len(s) \in Nat \ {0} /\ DOMAIN s = 1 .. Len(s)
          /\ DOMAIN Tail(s) = 1 .. Len(s) - 1 /\ Head(s) = s[1]
          /\ \A k \in 1 .. Len(s) - 1 : Tail(s)[k] = s[k + 1]
      BY <1>3
    <2>2. ASSUME NEW k \in 2 .. Len(s) PROVE s[k] \in ToSet(Tail(s))
      <3>1. k - 1 \in 1 .. Len(s) - 1 /\ (k - 1) + 1 = k
        BY <2>1
      <3>2. Tail(s)[k - 1] = s[k]
        BY <2>1, <3>1
      <3> QED
        BY <2>1, <3>1, <3>2 DEF ToSet
    <2>3. \A k \in 1 .. Len(s) - 1 : k + 1 \in 1 .. Len(s)
      BY <2>1
    <2>4. Head(s) \in ToSet(s)
      BY <2>1 DEF ToSet
    <2>5. ToSet(Tail(s)) \subseteq ToSet(s)
      BY <2>1, <2>3 DEF ToSet
    <2>6. ASSUME NEW k \in DOMAIN s PROVE s[k] \in {Head(s)} \union ToSet(Tail(s))
      <3>1. k = 1 \/ k \in 2 .. Len(s)
        BY <2>1
      <3> QED
        BY <2>1, <2>2, <3>1
    <2>7. ToSet(s) \subseteq {Head(s)} \union ToSet(Tail(s))
      BY <2>6 DEF ToSet
    <2> QED
      BY <2>1, <2>4, <2>5, <2>7
  <1> QED
    BY <1>1, <1>2, <1>3

\* A finite set in some order.
LEMMA SetListed ==
    ASSUME NEW S, IsFiniteSet(S)
    PROVE  SetToSeq(S) \in Seq(S) /\ ToSet(SetToSeq(S)) = S /\ IsInjective(SetToSeq(S))
  <1> DEFINE n == Cardinality(S)
             P(f) == f \in [1 .. n -> S] /\ IsInjective(f)
  <1>1. n \in Nat /\ ExistsBijection(1 .. n, S)
    BY FS_CardinalityType
  <1>2. PICK g : P(g)
    BY <1>1 DEF ExistsBijection, Bijection, Injection
  <1>3. P(SetToSeq(S))
    BY <1>2 DEF SetToSeq
  <1>4. SetToSeq(S) \in Injection(1 .. n, S)
    BY <1>3 DEF Injection
  <1>5. IsFiniteSet(1 .. n) /\ Cardinality(1 .. n) = n
    <2>1. IsFiniteSet(1 .. n) /\ Cardinality(1 .. n) = IF 1 > n THEN 0 ELSE n - 1 + 1
      <3>1. n \in Int
        BY <1>1
      <3> QED
        BY <3>1, FS_Interval
    <2> QED
      BY <1>1, <2>1
  <1>6. SetToSeq(S) \in Surjection(1 .. n, S)
    BY <1>4, <1>5, FS_Injection
  <1> QED
    BY <1>1, <1>3, <1>6 DEF Surjection, ToSet

\* The element that Min chooses.
LEMMA LeastChosen ==
    ASSUME NEW T, T \subseteq Nat, T # {}
    PROVE  Min(T) \in T /\ \A y \in T : Min(T) <= y
  <1> DEFINE P(x) == x \in T /\ \A y \in T : x <= y
  <1>1. PICK x : P(x)
    BY LeastExists
  <1>2. Min(T) = CHOOSE z : P(z)
    BY DEF Min
  <1>3. P(CHOOSE z : P(z))
    <2> HIDE DEF P
    <2> QED
      BY <1>1
  <1> QED
    BY <1>2, <1>3

\* The place of an element: the first entry that holds it, 0 if there is none.
Place(s, e) == SelectInSeq(s, LAMBDA v : v = e)

LEMMA PlaceFacts ==
    ASSUME NEW S, NEW s \in Seq(S), NEW e
    PROVE  /\ e \notin ToSet(s) => Place(s, e) = 0
           /\ e \in ToSet(s) => /\ Place(s, e) \in DOMAIN s /\ s[Place(s, e)] = e
                                /\ \A j \in 1 .. Place(s, e) - 1 : s[j] # e
  <1> DEFINE I == {i \in 1 .. Len(s) : s[i] = e}
  <1>1. Place(s, e) = IF I # {} THEN Min(I) ELSE 0
    BY DEF Place, SelectInSeq
  <1>2. CASE I = {}
    BY <1>1, <1>2 DEF ToSet
  <1>3. CASE I # {}
    <2>1. I \subseteq Nat /\ I \subseteq 1 .. Len(s) /\ \A i \in I : s[i] = e
      OBVIOUS
    <2>2. Min(I) \in I /\ \A i \in I : Min(I) <= i
      <3> HIDE DEF I
      <3> QED
        BY <1>3, <2>1, LeastChosen
    <2>3. PICK k : k = Min(I)
      OBVIOUS
    <2>4. Place(s, e) = k /\ k \in I /\ \A i \in I : k <= i
      BY <1>1, <1>3, <2>2, <2>3
    <2>5. k \in DOMAIN s /\ s[k] = e /\ e \in ToSet(s)
      BY <2>1, <2>4 DEF ToSet
    <2>6. ASSUME NEW j \in 1 .. k - 1, s[j] = e PROVE FALSE
      BY <2>4, <2>5, <2>6
    <2> QED
      BY <2>4, <2>5, <2>6
  <1> QED
    BY <1>2, <1>3

\* Taking an element off a list (list_del).
LEMMA RemoveFirstFacts ==
    ASSUME NEW S, NEW s \in Seq(S), NEW e
    PROVE  /\ e \notin ToSet(s) => RemoveFirst(s, e) = s
           /\ e \in ToSet(s) => \E k \in DOMAIN s : /\ s[k] = e
                                                    /\ RemoveFirst(s, e) = RemoveAt(s, k)
  <1> DEFINE There == \E i \in 1 .. Len(s) : s[i] = e
  <1>1. RemoveFirst(s, e) = IF There THEN RemoveAt(s, Place(s, e)) ELSE s
    BY DEF RemoveFirst, Place
  <1>2. There <=> e \in ToSet(s)
    BY DEF ToSet
  <1> HIDE DEF There
  <1> QED
    BY <1>1, <1>2, PlaceFacts

(***************************************************************************)
(* Lists whose head is replaced, as the recursion goes on, in and back.    *)
(***************************************************************************)
LEMMA HeadReplaced ==
    ASSUME NEW S, NEW s \in Seq(S), s # <<>>, NEW e \in S
    PROVE  /\ <<e>> \o Tail(s) \in Seq(S) /\ <<e>> \o Tail(s) # <<>>
           /\ DOMAIN (<<e>> \o Tail(s)) = DOMAIN s /\ DOMAIN s = 1 .. Len(s)
           /\ Len(s) \in Nat \ {0} /\ Head(s) = s[1]
           /\ (<<e>> \o Tail(s))[1] = e
           /\ \A k \in 2 .. Len(s) : (<<e>> \o Tail(s))[k] = s[k]
  <1>1. /\ Len(s) \in Nat \ {0} /\ DOMAIN s = 1 .. Len(s) /\ Head(s) = s[1]
        /\ Tail(s) \in Seq(S) /\ Len(Tail(s)) = Len(s) - 1 /\ <<e>> \in Seq(S)
        /\ Len(<<e>>) = 1 /\ <<e>>[1] = e
        /\ \A k \in 1 .. Len(s) - 1 : Tail(s)[k] = s[k + 1]
    OBVIOUS
  <1>2. /\ <<e>> \o Tail(s) \in Seq(S) /\ Len(<<e>> \o Tail(s)) = Len(s)
        /\ \A k \in 1 .. Len(s) : (<<e>> \o Tail(s))[k]
               = IF k <= 1 THEN <<e>>[k] ELSE Tail(s)[k - 1]
    BY <1>1, ConcatProperties
  <1>3. ASSUME NEW k \in 2 .. Len(s) PROVE (<<e>> \o Tail(s))[k] = s[k]
    <2>1. k - 1 \in 1 .. Len(s) - 1 /\ (k - 1) + 1 = k /\ k \in 1 .. Len(s) /\ ~(k <= 1)
      BY <1>1
    <2> QED
      BY <1>1, <1>2, <2>1
  <1>4. (<<e>> \o Tail(s))[1] = e
    BY <1>1, <1>2
  <1>5. DOMAIN (<<e>> \o Tail(s)) = 1 .. Len(s) /\ <<e>> \o Tail(s) # <<>>
    BY <1>1, <1>2
  <1> QED
    BY <1>1, <1>2, <1>3, <1>4, <1>5

LEMMA HeadAdded ==
    ASSUME NEW S, NEW s \in Seq(S), NEW e \in S
    PROVE  /\ <<e>> \o s \in Seq(S) /\ <<e>> \o s # <<>>
           /\ DOMAIN (<<e>> \o s) = 1 .. Len(s) + 1 /\ Len(<<e>> \o s) = Len(s) + 1
           /\ Len(s) \in Nat /\ DOMAIN s = 1 .. Len(s)
           /\ (<<e>> \o s)[1] = e
           /\ \A k \in 2 .. Len(s) + 1 : (<<e>> \o s)[k] = s[k - 1]
  <1>1. /\ Len(s) \in Nat /\ DOMAIN s = 1 .. Len(s) /\ <<e>> \in Seq(S)
        /\ Len(<<e>>) = 1 /\ <<e>>[1] = e
    OBVIOUS
  <1>2. /\ <<e>> \o s \in Seq(S) /\ Len(<<e>> \o s) = Len(s) + 1
        /\ \A k \in 1 .. Len(s) + 1 : (<<e>> \o s)[k]
               = IF k <= 1 THEN <<e>>[k] ELSE s[k - 1]
    <2>1. Len(<<e>>) + Len(s) = Len(s) + 1
      BY <1>1
    <2>2. /\ <<e>> \o s \in Seq(S) /\ Len(<<e>> \o s) = Len(<<e>>) + Len(s)
          /\ \A k \in 1 .. Len(<<e>>) + Len(s) : (<<e>> \o s)[k]
               = IF k <= Len(<<e>>) THEN <<e>>[k] ELSE s[k - Len(<<e>>)]
      BY <1>1, ConcatProperties
    <2> QED
      BY <1>1, <2>1, <2>2
  <1>3. ASSUME NEW k \in 2 .. Len(s) + 1 PROVE (<<e>> \o s)[k] = s[k - 1]
    BY <1>1, <1>2
  <1>4. (<<e>> \o s)[1] = e
    BY <1>1, <1>2
  <1>5. DOMAIN (<<e>> \o s) = 1 .. Len(s) + 1 /\ <<e>> \o s # <<>>
    BY <1>1, <1>2
  <1> QED
    BY <1>1, <1>2, <1>3, <1>4, <1>5

LEMMA HeadDropped ==
    ASSUME NEW S, NEW s \in Seq(S), s # <<>>
    PROVE  /\ Tail(s) \in Seq(S) /\ DOMAIN Tail(s) = 1 .. Len(s) - 1
           /\ Len(s) \in Nat \ {0} /\ DOMAIN s = 1 .. Len(s)
           /\ Len(Tail(s)) = Len(s) - 1 /\ Head(s) = s[1]
           /\ Tail(s) = <<>> <=> Len(s) = 1
           /\ \A k \in 1 .. Len(s) - 1 : Tail(s)[k] = s[k + 1]
  <1>1. /\ Tail(s) \in Seq(S) /\ DOMAIN Tail(s) = 1 .. Len(s) - 1
        /\ Len(s) \in Nat \ {0} /\ DOMAIN s = 1 .. Len(s)
        /\ Len(Tail(s)) = Len(s) - 1 /\ Head(s) = s[1]
        /\ \A k \in 1 .. Len(s) - 1 : Tail(s)[k] = s[k + 1]
    OBVIOUS
  <1>2. Tail(s) = <<>> <=> Len(Tail(s)) = 0
    BY <1>1
  <1> QED
    BY <1>1, <1>2

\* The second entry becomes the head, changed.
LEMMA NextReplaced ==
    ASSUME NEW S, NEW s \in Seq(S), s # <<>>, Tail(s) # <<>>, NEW e \in S
    PROVE  /\ <<e>> \o Tail(Tail(s)) \in Seq(S) /\ <<e>> \o Tail(Tail(s)) # <<>>
           /\ DOMAIN (<<e>> \o Tail(Tail(s))) = 1 .. Len(s) - 1
           /\ Len(<<e>> \o Tail(Tail(s))) = Len(s) - 1
           /\ Len(s) \in Nat /\ Len(s) > 1 /\ DOMAIN s = 1 .. Len(s)
           /\ Head(s) = s[1] /\ Head(Tail(s)) = s[2]
           /\ (<<e>> \o Tail(Tail(s)))[1] = e
           /\ \A k \in 2 .. Len(s) - 1 : (<<e>> \o Tail(Tail(s)))[k] = s[k + 1]
  <1> DEFINE t == Tail(s)
             u == <<e>> \o Tail(t)
  <1>1. /\ t \in Seq(S) /\ t # <<>> /\ Len(t) = Len(s) - 1 /\ Len(s) \in Nat
        /\ DOMAIN s = 1 .. Len(s) /\ Head(s) = s[1]
        /\ \A k \in 1 .. Len(s) - 1 : t[k] = s[k + 1]
    BY HeadDropped
  <1> HIDE DEF t
  <1>2. /\ u \in Seq(S) /\ u # <<>> /\ DOMAIN u = DOMAIN t /\ DOMAIN t = 1 .. Len(t)
        /\ Len(t) \in Nat \ {0} /\ Head(t) = t[1] /\ u[1] = e
        /\ \A k \in 2 .. Len(t) : u[k] = t[k]
    BY <1>1, HeadReplaced
  <1> HIDE DEF u
  <1>3. Len(u) = Len(t)
    BY <1>2
  <1>4. ASSUME NEW k \in 2 .. Len(s) - 1 PROVE u[k] = s[k + 1]
    BY <1>1, <1>2
  <1>5. Head(t) = s[2] /\ Len(s) > 1
    BY <1>1, <1>2
  <1> QED
    BY <1>1, <1>2, <1>3, <1>4, <1>5 DEF t, u

\* What is left of a list when its first n entries are taken off.
LEMMA FrontDropped ==
    ASSUME NEW S, NEW s \in Seq(S), NEW n \in 0 .. Len(s)
    PROVE  /\ SubSeq(s, n + 1, Len(s)) \in Seq(S)
           /\ Len(SubSeq(s, n + 1, Len(s))) = Len(s) - n
           /\ DOMAIN SubSeq(s, n + 1, Len(s)) = 1 .. Len(s) - n
           /\ \A k \in 1 .. Len(s) - n : SubSeq(s, n + 1, Len(s))[k] = s[n + k]
  <1>1. Len(s) \in Nat /\ n \in Nat /\ n <= Len(s) /\ DOMAIN s = 1 .. Len(s)
    OBVIOUS
  <1> DEFINE r == SubSeq(s, n + 1, Len(s))
  <1>2. n + 1 \in Int /\ Len(s) \in Int /\ \A i \in n + 1 .. Len(s) : s[i] \in S
    BY <1>1
  <1>3. /\ r \in Seq(S) /\ Len(r) = IF n + 1 <= Len(s) THEN Len(s) - (n + 1) + 1 ELSE 0
        /\ \A i \in 1 .. Len(s) - (n + 1) + 1 : r[i] = s[n + 1 + i - 1]
    BY <1>2, SubSeqProperties
  <1> HIDE DEF r
  <1>4. DOMAIN r = 1 .. Len(r)
    BY <1>3
  <1>5. Len(r) = Len(s) - n
    <2> DEFINE l == Len(s)
    <2>1. Len(r) = IF n + 1 <= l THEN l - (n + 1) + 1 ELSE 0
      BY <1>3
    <2>2. l \in Nat /\ n \in Nat /\ n <= l
      BY <1>1
    <2> HIDE DEF l
    <2>3. Len(r) = l - n
      BY <2>1, <2>2
    <2> QED
      BY <2>3 DEF l
  <1>6. ASSUME NEW k \in 1 .. Len(s) - n PROVE r[k] = s[n + k]
    <2>1. k \in 1 .. Len(s) - (n + 1) + 1 /\ n + 1 + k - 1 = n + k
      BY <1>1
    <2>2. r[k] = s[n + 1 + k - 1]
      BY <1>3, <2>1
    <2> QED
      BY <2>1, <2>2
  <1>7. DOMAIN r = 1 .. Len(s) - n
    BY <1>4, <1>5
  <1> QED
    BY <1>3, <1>5, <1>6, <1>7 DEF r
=============================================================================
