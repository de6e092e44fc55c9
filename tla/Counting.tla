------------------------------ MODULE Counting ------------------------------
(***************************************************************************)
(* Lemmas about the two ends of a FIFO queue, which appends and takes the  *)
(* head, about how many of its elements are in a given set, and about sums *)
(* over finite sets.                                                       *)
(***************************************************************************)
EXTENDS FiniteSetsExt, SequenceTheorems, FiniteSetTheorems,
        WellFoundedInduction, TLAPS

\* The elements of a queue and its head after an append.
LEMMA AppendFacts ==
  ASSUME NEW S, NEW q \in Seq(S), NEW m \in S
  PROVE  /\ Append(q, m) \in Seq(S)
         /\ Len(q) \in Nat
         /\ Len(Append(q, m)) = Len(q) + 1
         /\ Append(q, m) # << >>
         /\ \A j \in 1 .. Len(q) : Append(q, m)[j] = q[j]
         /\ Append(q, m)[Len(q) + 1] = m
  <1>1. /\ Append(q, m) \in Seq(S)
        /\ Len(Append(q, m)) = Len(q) + 1
        /\ \A j \in 1 .. Len(q) : Append(q, m)[j] = q[j]
        /\ Append(q, m)[Len(q) + 1] = m
    BY AppendProperties
  <1>2. Len(q) \in Nat
    BY LenProperties
  <1>3. Len(Append(q, m)) # 0
    BY <1>1, <1>2
  <1>4. Append(q, m) # << >>
    BY <1>3, EmptySeq
  <1> QED
    BY <1>1, <1>2, <1>4

\* The elements of a queue that is not empty and of its tail.
LEMMA TakeHeadFacts ==
  ASSUME NEW S, NEW q \in Seq(S), q # << >>
  PROVE  /\ Tail(q) \in Seq(S)
         /\ Head(q) \in S
         /\ Head(q) = q[1]
         /\ Len(q) \in Nat \ {0}
         /\ Len(Tail(q)) = Len(q) - 1
         /\ \A j \in 1 .. Len(q) - 1 : Tail(q)[j] = q[j + 1]
         /\ Len(q) = 1 => Tail(q) = << >>
         /\ Len(q) # 1 => Tail(q) # << >>
  <1>1. /\ Tail(q) \in Seq(S)
        /\ Head(q) \in S
        /\ Len(q) \in Nat \ {0}
        /\ Len(Tail(q)) = Len(q) - 1
        /\ \A j \in 1 .. Len(q) - 1 : Tail(q)[j] = q[j + 1]
    BY HeadTailProperties, EmptySeq
  <1>2. Head(q) = q[1]
    OBVIOUS
  <1>3. Tail(q) = << >> <=> Len(Tail(q)) = 0
    BY <1>1, EmptySeq
  <1> QED
    BY <1>1, <1>2, <1>3

-----------------------------------------------------------------------------
(***************************************************************************)
(* Counting the elements of a queue that are in T.                         *)
(***************************************************************************)
Places(q, T) == {j \in 1 .. Len(q) : q[j] \in T}
HowMany(q, T) == Cardinality(Places(q, T))

\* A queue has finitely many elements in T, and none exactly if none is there.
LEMMA HowManyType ==
  ASSUME NEW S, NEW q \in Seq(S), NEW T
  PROVE  /\ IsFiniteSet(Places(q, T))
         /\ HowMany(q, T) \in Nat
         /\ HowMany(q, T) = 0 <=> \A j \in 1 .. Len(q) : q[j] \notin T
  <1>1. Len(q) \in Nat
    BY LenProperties
  <1>2. IsFiniteSet(1 .. Len(q))
    BY <1>1, FS_Interval
  <1>3. Places(q, T) \in SUBSET (1 .. Len(q))
    BY DEF Places
  <1>4. IsFiniteSet(Places(q, T))
    BY <1>2, <1>3, FS_Subset
  <1>5. HowMany(q, T) \in Nat
    BY <1>4, FS_CardinalityType DEF HowMany
  <1>6. HowMany(q, T) = 0 <=> Places(q, T) = {}
    BY <1>4, FS_EmptySet DEF HowMany
  <1> QED
    BY <1>4, <1>5, <1>6 DEF Places

\* Nothing is in the empty queue.
LEMMA HowManyEmpty == \A T : HowMany(<< >>, T) = 0
  <1>1. Len(<< >>) = 0
    BY EmptySeq
  <1>2. \A T : Places(<< >>, T) = {}
    BY <1>1 DEF Places
  <1> QED
    BY <1>2, FS_EmptySet DEF HowMany

\* An append adds the new element.
LEMMA HowManyAppend ==
  ASSUME NEW S, NEW q \in Seq(S), NEW m \in S, NEW T
  PROVE  HowMany(Append(q, m), T) = HowMany(q, T) + (IF m \in T THEN 1 ELSE 0)
  <1> DEFINE k == Len(q) + 1
  <1>1. /\ Len(q) \in Nat
        /\ Len(Append(q, m)) = k
        /\ \A j \in 1 .. Len(q) : Append(q, m)[j] = q[j]
        /\ Append(q, m)[k] = m
    BY AppendFacts
  <1>2. IsFiniteSet(Places(q, T)) /\ HowMany(q, T) \in Nat
    BY HowManyType
  <1>3. k \notin Places(q, T)
    BY <1>1 DEF Places
  <1>4. CASE m \in T
    <2>1. Places(Append(q, m), T) = Places(q, T) \cup {k}
      BY <1>1, <1>4 DEF Places
    <2> QED
      BY <1>2, <1>3, <1>4, <2>1, FS_AddElement DEF HowMany
  <1>5. CASE m \notin T
    <2>1. Places(Append(q, m), T) = Places(q, T)
      BY <1>1, <1>5 DEF Places
    <2> QED
      BY <1>2, <1>5, <2>1 DEF HowMany
  <1> QED
    BY <1>4, <1>5

\* Taking the head takes the head away.
LEMMA HowManyTail ==
  ASSUME NEW S, NEW q \in Seq(S), q # << >>, NEW T
  PROVE  HowMany(Tail(q), T) = HowMany(q, T) - (IF Head(q) \in T THEN 1 ELSE 0)
  <1>1. /\ Tail(q) \in Seq(S)
        /\ Head(q) = q[1]
        /\ Len(q) \in Nat \ {0}
        /\ Len(Tail(q)) = Len(q) - 1
        /\ \A j \in 1 .. Len(q) - 1 : Tail(q)[j] = q[j + 1]
    BY TakeHeadFacts
  <1>2. IsFiniteSet(Places(q, T)) /\ IsFiniteSet(Places(Tail(q), T))
    BY <1>1, HowManyType
  <1>3. Cardinality(Places(Tail(q), T)) = Cardinality(Places(q, T) \ {1})
    <2> DEFINE f == [j \in Places(Tail(q), T) |-> j + 1]
    <2>1. f \in [Places(Tail(q), T) -> Places(q, T) \ {1}]
      BY <1>1 DEF Places
    <2>2. \A i, j \in Places(Tail(q), T) : f[i] = f[j] => i = j
      BY <1>1 DEF Places
    <2>3. \A k \in Places(q, T) \ {1} : \E j \in Places(Tail(q), T) : f[j] = k
      <3> SUFFICES ASSUME NEW k \in Places(q, T) \ {1}
                   PROVE  k - 1 \in Places(Tail(q), T) /\ f[k - 1] = k
        OBVIOUS
      <3>1. k \in 2 .. Len(q) /\ q[k] \in T
        BY <1>1 DEF Places
      <3>2. k - 1 \in 1 .. Len(q) - 1 /\ (k - 1) + 1 = k
        BY <1>1, <3>1
      <3>3. k - 1 \in Places(Tail(q), T)
        BY <1>1, <3>1, <3>2 DEF Places
      <3> QED
        BY <3>2, <3>3
    <2> HIDE DEF f
    <2>4. ExistsBijection(Places(Tail(q), T), Places(q, T) \ {1})
      BY <2>1, <2>2, <2>3
      DEF ExistsBijection, Bijection, Injection, Surjection, IsInjective
    <2> QED
      BY <1>2, <2>4, FS_Bijection
  <1>4. 1 \in Places(q, T) <=> Head(q) \in T
    BY <1>1 DEF Places
  <1>5. Cardinality(Places(q, T)) \in Nat
    BY <1>2, FS_CardinalityType
  <1>6. Cardinality(Places(q, T) \ {1}) =
          IF 1 \in Places(q, T) THEN Cardinality(Places(q, T)) - 1
                               ELSE Cardinality(Places(q, T))
    BY <1>2, FS_RemoveElement
  <1> QED
    BY <1>3, <1>4, <1>5, <1>6 DEF HowMany

-----------------------------------------------------------------------------
(***************************************************************************)
(* A finite set one of whose elements may come or go.                      *)
(***************************************************************************)
LEMMA CardinalityChange ==
  ASSUME NEW A, IsFiniteSet(A), NEW B, NEW x, B \ {x} = A \ {x}
  PROVE  /\ IsFiniteSet(B)
         /\ Cardinality(A) \in Nat
         /\ Cardinality(B) = Cardinality(A) + (IF x \in B THEN 1 ELSE 0)
                                            - (IF x \in A THEN 1 ELSE 0)
  <1>1. /\ IsFiniteSet(A \ {x})
        /\ Cardinality(A \ {x}) =
             Cardinality(A) - (IF x \in A THEN 1 ELSE 0)
        /\ Cardinality(A) \in Nat
        /\ Cardinality(A \ {x}) \in Nat
    BY FS_RemoveElement, FS_CardinalityType
  <1>2. CASE x \in B
    <2>1. B = (A \ {x}) \cup {x}
      BY <1>2
    <2>2. /\ IsFiniteSet((A \ {x}) \cup {x})
          /\ Cardinality((A \ {x}) \cup {x}) = Cardinality(A \ {x}) + 1
      BY <1>1, FS_AddElement
    <2> QED
      BY <1>1, <1>2, <2>1, <2>2
  <1>3. CASE x \notin B
    <2>1. B = A \ {x}
      BY <1>3
    <2> QED
      BY <1>1, <1>3, <2>1
  <1> QED
    BY <1>2, <1>3

-----------------------------------------------------------------------------
(***************************************************************************)
(* Sums over finite sets.  MapThenSumSet adds the elements in the order    *)
(* CHOOSE takes them; the lemmas below say that the order does not matter. *)
(* They need induction, which WFMin gives for properties that are sets.    *)
(***************************************************************************)
LEMMA SetInduction ==
  ASSUME NEW T, 0 \in T, \A n \in Nat : n \in T => n + 1 \in T
  PROVE  \A n \in Nat : n \in T
  <1> DEFINE R == OpToRel(<, Nat)
             B == Nat \ T
  <1>1. IsWellFoundedOn(R, Nat)
    BY NatLessThanWellFounded
  <1>2. \A x, y \in Nat : x < y => <<x, y>> \in R
    BY DEF OpToRel
  <1>3. SUFFICES ASSUME B # {} PROVE FALSE
    OBVIOUS
  <1> HIDE DEF R
  <1>4. PICK x \in B : \A y \in B : <<y, x>> \notin R
    <2>1. B \subseteq Nat
      OBVIOUS
    <2> HIDE DEF B
    <2> QED
      BY <1>1, <1>3, <2>1, WFMin
  <1>5. x # 0 /\ x - 1 \in Nat /\ x - 1 < x
    BY <1>4
  <1>6. x - 1 \in B
    BY <1>5, <1>4
  <1> QED
    BY <1>4, <1>5, <1>6, <1>2

\* The sum of f over each subset of S, by the recursion of MapThenSumSet.
First(s) == CHOOSE x \in s : TRUE
PartialSum(f, g, s) == IF s = {} THEN 0 ELSE f[First(s)] + g[s \ {First(s)}]
IsSum(g, f, S) == g = [s \in SUBSET S |-> PartialSum(f, g, s)]

SumOf(f, S) == (CHOOSE g : IsSum(g, f, S))[S]

LEMMA SubsetCount ==
  ASSUME NEW S, IsFiniteSet(S)
  PROVE  \A s \in SUBSET S :
           /\ IsFiniteSet(s) /\ Cardinality(s) \in Nat
           /\ Cardinality(s) <= Cardinality(S)
           /\ Cardinality(s) = 0 <=> s = {}
           /\ s # {} => First(s) \in s
           /\ \A x \in s : /\ s \ {x} \in SUBSET S
                           /\ Cardinality(s \ {x}) = Cardinality(s) - 1
  <1> SUFFICES ASSUME NEW s \in SUBSET S
               PROVE  /\ IsFiniteSet(s) /\ Cardinality(s) \in Nat
                      /\ Cardinality(s) <= Cardinality(S)
                      /\ Cardinality(s) = 0 <=> s = {}
                      /\ s # {} => First(s) \in s
                      /\ \A x \in s :
                           /\ s \ {x} \in SUBSET S
                           /\ Cardinality(s \ {x}) = Cardinality(s) - 1
    OBVIOUS
  <1>1. IsFiniteSet(s) /\ Cardinality(s) <= Cardinality(S)
    BY FS_Subset
  <1>2. Cardinality(s) \in Nat
    BY <1>1, FS_CardinalityType
  <1>3. Cardinality(s) = 0 <=> s = {}
    BY <1>1, FS_EmptySet
  <1>4. s # {} => First(s) \in s
    BY DEF First
  <1>5. \A x \in s : Cardinality(s \ {x}) = Cardinality(s) - 1
    BY <1>1, FS_RemoveElement
  <1> QED
    BY <1>1, <1>2, <1>3, <1>4, <1>5

LEMMA AddInAnyOrder ==
  \A a, b, r \in Int : \A p, q : p = a + r /\ q = b + r => b + p = a + q
  OBVIOUS

LEMMA SumExists ==
  ASSUME NEW S, IsFiniteSet(S), NEW f \in [S -> Int]
  PROVE  \E g : IsSum(g, f, S)
  <1> DEFINE Upto(g, n) == \A s \in SUBSET S :
                             Cardinality(s) <= n => g[s] = PartialSum(f, g, s)
             T == { n \in Nat : \E g \in [SUBSET S -> Int] : Upto(g, n) }
  <1>1. 0 \in T
    <2>1. [s \in SUBSET S |-> 0] \in [SUBSET S -> Int]
      OBVIOUS
    <2>2. Upto([s \in SUBSET S |-> 0], 0)
      BY SubsetCount DEF PartialSum
    <2> QED
      BY <2>1, <2>2
  <1>2. ASSUME NEW n \in Nat, n \in T
        PROVE  n + 1 \in T
    <2>1. PICK g \in [SUBSET S -> Int] : Upto(g, n)
      BY <1>2
    <2> DEFINE h == [s \in SUBSET S |-> PartialSum(f, g, s)]
    <2>2. h \in [SUBSET S -> Int]
      <3> SUFFICES ASSUME NEW s \in SUBSET S
                   PROVE  PartialSum(f, g, s) \in Int
        OBVIOUS
      <3>1. CASE s = {}
        BY <3>1 DEF PartialSum
      <3>2. CASE s # {}
        <4>1. First(s) \in S /\ s \ {First(s)} \in SUBSET S
          BY <3>2, SubsetCount
        <4> QED
          BY <3>2, <4>1 DEF PartialSum
      <3> QED
        BY <3>1, <3>2
    <2>3. ASSUME NEW s \in SUBSET S, Cardinality(s) <= n + 1
          PROVE  h[s] = PartialSum(f, h, s)
      <3>1. CASE s = {}
        BY <3>1 DEF PartialSum
      <3>2. CASE s # {}
        <4>1. /\ s \ {First(s)} \in SUBSET S
              /\ Cardinality(s \ {First(s)}) = Cardinality(s) - 1
              /\ Cardinality(s) \in Nat
          BY <3>2, SubsetCount
        <4>2. Cardinality(s \ {First(s)}) <= n
          BY <4>1, <2>3
        <4>3. g[s \ {First(s)}] = h[s \ {First(s)}]
          BY <2>1, <4>1, <4>2
        <4> QED
          BY <3>2, <4>3 DEF PartialSum
      <3> QED
        BY <3>1, <3>2
    <2>4. n + 1 \in Nat
      OBVIOUS
    <2> QED
      BY <2>2, <2>3, <2>4
  <1> HIDE DEF T
  <1>3. \A n \in Nat : n \in T
    BY <1>1, <1>2, SetInduction
  <1>4. Cardinality(S) \in Nat
    BY FS_CardinalityType
  <1>5. PICK g \in [SUBSET S -> Int] : Upto(g, Cardinality(S))
    BY <1>3, <1>4 DEF T
  <1>6. g = [s \in SUBSET S |-> PartialSum(f, g, s)]
    BY <1>5, SubsetCount
  <1> QED
    BY <1>6 DEF IsSum

LEMMA SumType ==
  ASSUME NEW S, IsFiniteSet(S), NEW f \in [S -> Int], NEW g, IsSum(g, f, S)
  PROVE  \A s \in SUBSET S : g[s] \in Int
  <1> DEFINE T == { n \in Nat : \A s \in SUBSET S :
                                  Cardinality(s) = n => g[s] \in Int }
  <1>0. \A s \in SUBSET S : g[s] = PartialSum(f, g, s)
    BY DEF IsSum
  <1>1. 0 \in T
    <2>1. ASSUME NEW s \in SUBSET S, Cardinality(s) = 0
          PROVE  g[s] \in Int
      <3>1. s = {}
        BY <2>1, SubsetCount
      <3>2. PartialSum(f, g, s) = 0
        BY <3>1 DEF PartialSum
      <3> QED
        BY <3>2, <1>0
    <2> QED
      BY <2>1
  <1>2. ASSUME NEW n \in Nat, n \in T
        PROVE  n + 1 \in T
    <2>1. ASSUME NEW s \in SUBSET S, Cardinality(s) = n + 1
          PROVE  g[s] \in Int
      <3>1. /\ s # {} /\ First(s) \in S /\ s \ {First(s)} \in SUBSET S
            /\ Cardinality(s \ {First(s)}) = n
        BY <2>1, SubsetCount
      <3>2. g[s \ {First(s)}] \in Int
        BY <3>1, <1>2
      <3>3. PartialSum(f, g, s) \in Int
        BY <3>1, <3>2 DEF PartialSum
      <3> QED
        BY <3>3, <1>0
    <2> QED
      BY <2>1
  <1> HIDE DEF T
  <1>3. \A n \in Nat : n \in T
    BY <1>1, <1>2, SetInduction
  <1>4. \A s \in SUBSET S : Cardinality(s) \in T
    BY <1>3, SubsetCount
  <1> TAKE s \in SUBSET S
  <1> QED
    BY <1>4 DEF T

\* Any element may be added last.
Splits(g, f, S) ==
  \A s \in SUBSET S : \A x \in s : g[s] = f[x] + g[s \ {x}]

LEMMA SumSplit ==
  ASSUME NEW S, IsFiniteSet(S), NEW f \in [S -> Int], NEW g, IsSum(g, f, S)
  PROVE  Splits(g, f, S)
  <1> DEFINE Good(s) == \A x \in s : g[s] = f[x] + g[s \ {x}]
             T == { n \in Nat : \A s \in SUBSET S : Cardinality(s) = n => Good(s) }
  <1>0. \A s \in SUBSET S : g[s] = PartialSum(f, g, s)
    BY DEF IsSum
  <1>1. 0 \in T
    BY SubsetCount
  <1>2. ASSUME NEW n \in Nat, n \in T
        PROVE  n + 1 \in T
    <2>1. ASSUME NEW s \in SUBSET S, Cardinality(s) = n + 1, NEW x \in s
          PROVE  g[s] = f[x] + g[s \ {x}]
      <3> DEFINE c == First(s)
      <3>1. s # {} /\ c \in s /\ c \in S /\ x \in S
        BY <2>1, SubsetCount
      <3>2. g[s] = f[c] + g[s \ {c}]
        BY <1>0, <3>1 DEF PartialSum
      <3>3. \A y \in s : /\ s \ {y} \in SUBSET S
                         /\ Cardinality(s \ {y}) = n
        BY <2>1, SubsetCount
      <3> HIDE DEF c
      <3>4. CASE x = c
        BY <3>2, <3>4
      <3>5. CASE x # c
        <4>1. g[s \ {c}] = f[x] + g[(s \ {c}) \ {x}]
          BY <3>3, <1>2, <3>1, <3>5
        <4>2. g[s \ {x}] = f[c] + g[(s \ {x}) \ {c}]
          BY <3>3, <1>2, <3>1, <3>5
        <4>3. (s \ {c}) \ {x} = (s \ {x}) \ {c} /\ (s \ {x}) \ {c} \in SUBSET S
          OBVIOUS
        <4>4. /\ g[(s \ {c}) \ {x}] \in Int
              /\ g[s \ {x}] = f[c] + g[(s \ {c}) \ {x}]
          BY <4>2, <4>3, SumType
        <4>5. f[x] \in Int /\ f[c] \in Int
          BY <3>1
        <4>6. f[c] + g[s \ {c}] = f[x] + g[s \ {x}]
          BY <4>1, <4>4, <4>5, AddInAnyOrder
        <4> QED
          BY <4>6, <3>2
      <3> QED
        BY <3>4, <3>5
    <2> QED
      BY <2>1
  <1> HIDE DEF T
  <1>3. \A n \in Nat : n \in T
    BY <1>1, <1>2, SetInduction
  <1>4. \A s \in SUBSET S : Cardinality(s) \in T
    BY <1>3, SubsetCount
  <1>5. \A s \in SUBSET S : Good(s)
    BY <1>4 DEF T
  <1> QED
    BY <1>5 DEF Splits

\* Two functions that agree on s have the same sum over s.
LEMMA SumAgrees ==
  ASSUME NEW S, IsFiniteSet(S), NEW f \in [S -> Int], NEW h \in [S -> Int],
         NEW g, IsSum(g, f, S), NEW k, IsSum(k, h, S)
  PROVE  \A s \in SUBSET S : (\A x \in s : f[x] = h[x]) => g[s] = k[s]
  <1> DEFINE Agree(s) == (\A x \in s : f[x] = h[x]) => g[s] = k[s]
             T == { n \in Nat : \A s \in SUBSET S : Cardinality(s) = n => Agree(s) }
  <1>0. \A s \in SUBSET S : g[s] = PartialSum(f, g, s) /\ k[s] = PartialSum(h, k, s)
    BY DEF IsSum
  <1>1. 0 \in T
    BY <1>0, SubsetCount DEF PartialSum
  <1>2. ASSUME NEW n \in Nat, n \in T
        PROVE  n + 1 \in T
    <2>1. ASSUME NEW s \in SUBSET S, Cardinality(s) = n + 1,
                 \A x \in s : f[x] = h[x]
          PROVE  g[s] = k[s]
      <3>1. /\ s # {} /\ First(s) \in s /\ s \ {First(s)} \in SUBSET S
            /\ Cardinality(s \ {First(s)}) = n
        BY <2>1, SubsetCount
      <3>2. g[s \ {First(s)}] = k[s \ {First(s)}]
        BY <3>1, <1>2, <2>1
      <3> QED
        BY <3>1, <3>2, <2>1, <1>0 DEF PartialSum
    <2> QED
      BY <2>1
  <1> HIDE DEF T
  <1>3. \A n \in Nat : n \in T
    BY <1>1, <1>2, SetInduction
  <1>4. \A s \in SUBSET S : Cardinality(s) \in T
    BY <1>3, SubsetCount
  <1> TAKE s \in SUBSET S
  <1> QED
    BY <1>4 DEF T

Sums(g, f, S) ==
  IsSum(g, f, S) /\ Splits(g, f, S) /\ g \in [SUBSET S -> Int]

LEMMA SumOfFacts ==
  ASSUME NEW S, IsFiniteSet(S), NEW f \in [S -> Int]
  PROVE  \E g : Sums(g, f, S) /\ SumOf(f, S) = g[S]
  <1>1. PICK g : IsSum(g, f, S) /\ SumOf(f, S) = g[S]
    BY SumExists DEF SumOf
  <1>2. IsSum(g, f, S)
    BY <1>1
  <1>3. \A s \in SUBSET S : g[s] \in Int
    BY <1>2, SumType
  <1>4. Splits(g, f, S)
    BY <1>2, SumSplit
  <1>5. g = [s \in SUBSET S |-> g[s]]
    BY <1>2 DEF IsSum
  <1>6. g \in [SUBSET S -> Int]
    BY <1>3, <1>5
  <1> QED
    BY <1>1, <1>2, <1>4, <1>6 DEF Sums

LEMMA SumUnique ==
  ASSUME NEW S, IsFiniteSet(S), NEW f \in [S -> Int], NEW k, IsSum(k, f, S)
  PROVE  SumOf(f, S) = k[S]
  <1>1. PICK g : Sums(g, f, S) /\ SumOf(f, S) = g[S]
    BY SumOfFacts
  <1>2. IsSum(g, f, S)
    BY <1>1 DEF Sums
  <1>3. \A s \in SUBSET S : (\A x \in s : f[x] = f[x]) => g[s] = k[s]
    BY <1>2, SumAgrees
  <1>4. S \in SUBSET S
    OBVIOUS
  <1> QED
    BY <1>1, <1>3, <1>4

LEMMA SumOfType ==
  ASSUME NEW S, IsFiniteSet(S), NEW f \in [S -> Int]
  PROVE  SumOf(f, S) \in Int
  <1>1. PICK g : Sums(g, f, S) /\ SumOf(f, S) = g[S]
    BY SumOfFacts
  <1> QED
    BY <1>1 DEF Sums

\* A change of one summand.
LEMMA SumOfChange ==
  ASSUME NEW S, IsFiniteSet(S), NEW f \in [S -> Int], NEW h \in [S -> Int],
         NEW a \in S, \A x \in S : x # a => h[x] = f[x]
  PROVE  SumOf(h, S) = SumOf(f, S) - f[a] + h[a]
  <1>0. S \in SUBSET S /\ S \ {a} \in SUBSET S
    OBVIOUS
  <1>1. PICK g : Sums(g, f, S) /\ SumOf(f, S) = g[S]
    BY SumOfFacts
  <1>2. PICK k : Sums(k, h, S) /\ SumOf(h, S) = k[S]
    BY SumOfFacts
  <1>3. g[S] = f[a] + g[S \ {a}] /\ k[S] = h[a] + k[S \ {a}]
    BY <1>0, <1>1, <1>2 DEF Sums, Splits
  <1>4. IsSum(g, f, S) /\ IsSum(k, h, S)
    BY <1>1, <1>2 DEF Sums
  <1>5. \A s \in SUBSET S : (\A x \in s : f[x] = h[x]) => g[s] = k[s]
    BY <1>4, SumAgrees
  <1>6. g[S \ {a}] = k[S \ {a}]
    BY <1>0, <1>5
  <1>7. g[S \ {a}] \in Int /\ f[a] \in Int /\ h[a] \in Int
    BY <1>0, <1>1 DEF Sums
  <1> QED
    BY <1>1, <1>2, <1>3, <1>6, <1>7

LEMMA SumOfSame ==
  ASSUME NEW S, IsFiniteSet(S), NEW f \in [S -> Int], NEW h \in [S -> Int],
         \A x \in S : h[x] = f[x]
  PROVE  SumOf(h, S) = SumOf(f, S)
  <1>1. h = f
    OBVIOUS
  <1> QED
    BY <1>1

LEMMA SumOfZeroes ==
  ASSUME NEW S, IsFiniteSet(S), NEW f \in [S -> Int], \A x \in S : f[x] = 0
  PROVE  SumOf(f, S) = 0
  <1>1. PICK g : Sums(g, f, S) /\ SumOf(f, S) = g[S]
    BY SumOfFacts
  <1> DEFINE T == { n \in Nat : \A s \in SUBSET S : Cardinality(s) = n => g[s] = 0 }
  <1>2. \A s \in SUBSET S : g[s] = PartialSum(f, g, s)
    BY <1>1 DEF Sums, IsSum
  <1>3. 0 \in T
    BY <1>2, SubsetCount DEF PartialSum
  <1>4. ASSUME NEW n \in Nat, n \in T
        PROVE  n + 1 \in T
    <2>1. ASSUME NEW s \in SUBSET S, Cardinality(s) = n + 1
          PROVE  g[s] = 0
      <3>1. /\ s # {} /\ First(s) \in S /\ s \ {First(s)} \in SUBSET S
            /\ Cardinality(s \ {First(s)}) = n
        BY <2>1, SubsetCount
      <3>2. g[s \ {First(s)}] = 0 /\ f[First(s)] = 0
        BY <3>1, <1>4
      <3>3. PartialSum(f, g, s) = 0
        BY <3>1, <3>2 DEF PartialSum
      <3> QED
        BY <3>3, <1>2
    <2> QED
      BY <2>1
  <1> HIDE DEF T
  <1>5. \A n \in Nat : n \in T
    BY <1>3, <1>4, SetInduction
  <1> QED
    BY <1>1, <1>5, SubsetCount DEF T

\* The larger the terms, the larger the sum.
LEMMA SumOfLarger ==
  ASSUME NEW S, IsFiniteSet(S), NEW f \in [S -> Int], NEW h \in [S -> Int],
         \A x \in S : f[x] <= h[x]
  PROVE  SumOf(f, S) <= SumOf(h, S)
  <1>1. PICK g : Sums(g, f, S) /\ SumOf(f, S) = g[S]
    BY SumOfFacts
  <1>2. PICK k : Sums(k, h, S) /\ SumOf(h, S) = k[S]
    BY SumOfFacts
  <1> DEFINE T == { n \in Nat : \A s \in SUBSET S : Cardinality(s) = n => g[s] <= k[s] }
  <1>3. /\ \A s \in SUBSET S : g[s] = PartialSum(f, g, s) /\ k[s] = PartialSum(h, k, s)
        /\ \A s \in SUBSET S : g[s] \in Int /\ k[s] \in Int
    BY <1>1, <1>2 DEF Sums, IsSum
  <1>4. 0 \in T
    <2>1. ASSUME NEW s \in SUBSET S, Cardinality(s) = 0
          PROVE  g[s] <= k[s]
      <3>1. s = {}
        BY <2>1, SubsetCount
      <3>2. g[s] = 0 /\ k[s] = 0
        BY <3>1, <1>3 DEF PartialSum
      <3> QED
        BY <3>2
    <2> QED
      BY <2>1
  <1>5. ASSUME NEW n \in Nat, n \in T
        PROVE  n + 1 \in T
    <2>1. ASSUME NEW s \in SUBSET S, Cardinality(s) = n + 1
          PROVE  g[s] <= k[s]
      <3>1. /\ s # {} /\ First(s) \in S /\ s \ {First(s)} \in SUBSET S
            /\ Cardinality(s \ {First(s)}) = n
        BY <2>1, SubsetCount
      <3>2. /\ g[s \ {First(s)}] <= k[s \ {First(s)}]
            /\ g[s \ {First(s)}] \in Int /\ k[s \ {First(s)}] \in Int
        BY <3>1, <1>3, <1>5
      <3>3. /\ f[First(s)] <= h[First(s)]
            /\ f[First(s)] \in Int /\ h[First(s)] \in Int
        BY <3>1
      <3>4. /\ g[s] = f[First(s)] + g[s \ {First(s)}]
            /\ k[s] = h[First(s)] + k[s \ {First(s)}]
        BY <1>3, <3>1 DEF PartialSum
      <3> QED
        BY <3>2, <3>3, <3>4
    <2> QED
      BY <2>1
  <1> HIDE DEF T
  <1>6. \A n \in Nat : n \in T
    BY <1>4, <1>5, SetInduction
  <1> QED
    BY <1>1, <1>2, <1>6, SubsetCount DEF T
=============================================================================
