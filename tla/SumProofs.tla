----------------------------- MODULE SumProofs -----------------------------
(***************************************************************************)
(* What SumOver computes, for every finite set: the lemmas about sums that *)
(* the proofs about rewards rest on.                                       *)
(***************************************************************************)
EXTENDS Sums, FiniteSetTheorems, TLAPS

\* Induction over a finite set, for a property given as a set of sets.
LEMMA FiniteInduction ==
  ASSUME NEW S, IsFiniteSet(S), NEW P,
         \A T \in SUBSET S : (\A U \in (SUBSET T) \ {T} : U \in P) => T \in P
  PROVE  S \in P
<1> DEFINE Bad == {T \in SUBSET S : T \notin P}
<1>1. SUFFICES ASSUME S \notin P PROVE FALSE
  OBVIOUS
<1>2. Bad \subseteq FiniteSubsetsOf(S) /\ Bad # {}
  BY <1>1, FS_Subset DEF FiniteSubsetsOf
<1>3. IsWellFoundedOn(StrictSubsetOrdering(S), FiniteSubsetsOf(S))
  BY FS_StrictSubsetOrderingWellFounded
<1>4. PICK T \in Bad : \A U \in Bad : ~(<<U, T>> \in StrictSubsetOrdering(S))
  <2> HIDE DEF Bad
  <2> QED
    BY <1>2, <1>3, WFMin
<1>5. \A U \in (SUBSET T) \ {T} : U \in P
  <2> SUFFICES ASSUME NEW U \in (SUBSET T) \ {T}, U \notin P PROVE FALSE
    OBVIOUS
  <2>1. U \in Bad
    BY <1>4
  <2>2. <<U, T>> \in StrictSubsetOrdering(S)
    BY <1>4, <2>1 DEF StrictSubsetOrdering
  <2> QED
    BY <1>4, <2>1, <2>2
<1> QED
  BY <1>4, <1>5
----------------------------------------------------------------------------
(* The recursive function behind MapThenSumSet exists and is unique. *)

First(s) == CHOOSE x \in s : TRUE

\* g is that function for the subsets of W.
Partial(F, W, g) ==
  g = [s \in SUBSET W |-> IF s = {} THEN 0 ELSE F[First(s)] + g[s \ {First(s)}]]

\* The sum is the value of such a function.
LEMMA SumIsPartial ==
  ASSUME NEW F, NEW W
  PROVE  SumOver(F, W) = (CHOOSE g : Partial(F, W, g))[W]
  BY DEF SumOver, MapThenSumSet, MapThenFoldSet, Partial, First

\* What it is at one set.
LEMMA PartialAt ==
  ASSUME NEW F, NEW W, NEW g, Partial(F, W, g), NEW s \in SUBSET W
  PROVE  g[s] = IF s = {} THEN 0 ELSE F[First(s)] + g[s \ {First(s)}]
<1> DEFINE body(t) == IF t = {} THEN 0 ELSE F[First(t)] + g[t \ {First(t)}]
<1>1. g = [t \in SUBSET W |-> body(t)]
  BY DEF Partial
<1> HIDE DEF body
<1>2. g[s] = body(s)
  BY <1>1
<1> QED
  BY <1>2 DEF body

\* First is an element.
LEMMA FirstIn == ASSUME NEW s, s # {} PROVE First(s) \in s
  BY DEF First

\* Two such functions agree where both are defined.
LEMMA PartialUnique ==
  ASSUME NEW F, NEW W, NEW V, NEW g, NEW h, Partial(F, W, g), Partial(F, V, h),
         NEW S \in SUBSET (W \cap V), IsFiniteSet(S)
  PROVE  g[S] = h[S]
<1> DEFINE P == {T \in SUBSET S : g[T] = h[T]}
<1>1. ASSUME NEW T \in SUBSET S, \A U \in (SUBSET T) \ {T} : U \in P
      PROVE  g[T] = h[T]
  <2>1. T \in SUBSET W /\ T \in SUBSET V
    OBVIOUS
  <2>2. CASE T = {}
    BY <2>1, <2>2, PartialAt
  <2>3. CASE T # {}
    <3> DEFINE U == T \ {First(T)}
    <3>1. U \in (SUBSET T) \ {T}
      BY <2>3, FirstIn
    <3>2. g[U] = h[U]
      BY <1>1, <3>1
    <3>3. g[T] = F[First(T)] + g[U] /\ h[T] = F[First(T)] + h[U]
      BY <2>1, <2>3, PartialAt
    <3> QED
      BY <3>2, <3>3
  <2> QED
    BY <2>2, <2>3
<1>2. \A T \in SUBSET S : (\A U \in (SUBSET T) \ {T} : U \in P) => T \in P
  BY <1>1
<1> HIDE DEF P
<1>3. S \in P
  BY <1>2, FiniteInduction
<1> QED
  BY <1>3 DEF P

\* Such a function exists for every finite set.
LEMMA PartialExists ==
  ASSUME NEW F, NEW W, IsFiniteSet(W)
  PROVE  \E g : Partial(F, W, g)
<1> DEFINE P == {T \in SUBSET W : \E g : Partial(F, T, g)}
           at(s) == (CHOOSE g : Partial(F, s, g))[s]
<1>1. ASSUME NEW T \in SUBSET W, \A U \in (SUBSET T) \ {T} : U \in P
      PROVE  T \in P
  \* The values at the smaller sets are those of their own functions.
  <2>1. ASSUME NEW s \in SUBSET T, s # T
        PROVE  at(s) = IF s = {} THEN 0 ELSE F[First(s)] + at(s \ {First(s)})
    <3> DEFINE r == s \ {First(s)}
               g == CHOOSE f : Partial(F, s, f)
               h == CHOOSE f : Partial(F, r, f)
    <3>1. s \in P
      BY <1>1, <2>1
    <3>2. Partial(F, s, g)
      BY <3>1
    <3>3. g[s] = IF s = {} THEN 0 ELSE F[First(s)] + g[r]
      <4> HIDE DEF g
      <4> QED
        BY <3>2, PartialAt
    <3>4. CASE s = {}
      BY <3>3, <3>4
    <3>5. CASE s # {}
      <4>1. r \in (SUBSET T) \ {T} /\ r \in SUBSET s
        BY <2>1, <3>5, FirstIn
      <4>2. r \in P
        BY <1>1, <4>1
      <4>3. Partial(F, r, h)
        BY <4>2
      <4>4. IsFiniteSet(r)
        BY <4>1, FS_Subset
      <4>5. r \in SUBSET (s \cap r)
        BY <4>1
      <4> HIDE DEF g, h, r
      <4>6. g[r] = h[r]
        BY <3>2, <4>3, <4>4, <4>5, PartialUnique
      <4> QED
        BY <3>3, <3>5, <4>6 DEF g, h, r
    <3> QED
      BY <3>4, <3>5
  <2> DEFINE top == IF T = {} THEN 0 ELSE F[First(T)] + at(T \ {First(T)})
             val(s) == IF s = T THEN top ELSE at(s)
             g == [s \in SUBSET T |-> val(s)]
  <2>2. ASSUME NEW s \in SUBSET T
        PROVE  val(s) = IF s = {} THEN 0 ELSE F[First(s)] + g[s \ {First(s)}]
    <3> DEFINE r == s \ {First(s)}
    <3> HIDE DEF at
    <3>1. CASE s = {}
      BY <2>1, <3>1
    <3>2. CASE s # {}
      <4>1. r \in SUBSET T /\ r # T
        BY <3>2, FirstIn
      <4>2. g[r] = at(r)
        BY <4>1
      <4>3. val(s) = F[First(s)] + at(r)
        <5>1. CASE s = T
          BY <3>2, <5>1
        <5>2. CASE s # T
          BY <2>1, <3>2, <5>2
        <5> QED
          BY <5>1, <5>2
      <4> QED
        BY <3>2, <4>2, <4>3
    <3> QED
      BY <3>1, <3>2
  <2>3. Partial(F, T, g)
    <3> DEFINE body(s) == IF s = {} THEN 0 ELSE F[First(s)] + g[s \ {First(s)}]
    <3>1. \A s \in SUBSET T : val(s) = body(s)
      BY <2>2
    <3>2. g = [s \in SUBSET T |-> body(s)]
      <4> HIDE DEF body, val
      <4> QED
        BY <3>1
    <3> HIDE DEF g
    <3> QED
      BY <3>2 DEF Partial
  <2> HIDE DEF g
  <2> QED
    BY <2>3
<1>2. \A T \in SUBSET W : (\A U \in (SUBSET T) \ {T} : U \in P) => T \in P
  BY <1>1
<1> HIDE DEF P
<1>3. W \in P
  BY <1>2, FiniteInduction
<1> QED
  BY <1>3 DEF P
----------------------------------------------------------------------------
(* Sums. *)

\* The sum over a finite set, unfolded once.
LEMMA SumUnfold ==
  ASSUME NEW F, NEW W, IsFiniteSet(W)
  PROVE  SumOver(F, W) =
           IF W = {} THEN 0 ELSE F[First(W)] + SumOver(F, W \ {First(W)})
<1> DEFINE V == W \ {First(W)}
           g == CHOOSE f : Partial(F, W, f)
           h == CHOOSE f : Partial(F, V, f)
<1>1. IsFiniteSet(V) /\ V \in SUBSET (W \cap V)
  BY FS_Subset
<1>2. Partial(F, W, g)
  BY PartialExists
<1> HIDE DEF V
<1>3. Partial(F, V, h)
  BY <1>1, PartialExists
<1>4. SumOver(F, W) = g[W] /\ SumOver(F, V) = h[V]
  BY SumIsPartial
<1> HIDE DEF g, h
<1>5. g[V] = h[V]
  BY <1>1, <1>2, <1>3, PartialUnique
<1>6. g[W] = IF W = {} THEN 0 ELSE F[First(W)] + g[V]
  BY <1>2, PartialAt DEF V
<1> QED
  BY <1>4, <1>5, <1>6 DEF V

\* A sum of natural numbers is one.
LEMMA SumType ==
  ASSUME NEW F, NEW W, IsFiniteSet(W), \A w \in W : F[w] \in Nat
  PROVE  SumOver(F, W) \in Nat
<1> DEFINE P == {T \in SUBSET W : SumOver(F, T) \in Nat}
<1>1. ASSUME NEW T \in SUBSET W, \A U \in (SUBSET T) \ {T} : U \in P
      PROVE  T \in P
  <2>1. IsFiniteSet(T)
    BY FS_Subset
  <2>2. CASE T = {}
    <3>1. SumOver(F, T) = 0
      BY <2>1, <2>2, SumUnfold
    <3> QED
      BY <3>1
  <2>3. CASE T # {}
    <3>1. First(T) \in T /\ T \ {First(T)} \in (SUBSET T) \ {T}
      BY <2>3, FirstIn
    <3>2. SumOver(F, T) = F[First(T)] + SumOver(F, T \ {First(T)})
      BY <2>1, <2>3, SumUnfold
    <3>3. SumOver(F, T \ {First(T)}) \in Nat /\ F[First(T)] \in Nat
      BY <1>1, <3>1
    <3> QED
      BY <3>2, <3>3
  <2> QED
    BY <2>2, <2>3
<1>2. \A T \in SUBSET W : (\A U \in (SUBSET T) \ {T} : U \in P) => T \in P
  BY <1>1
<1> HIDE DEF P
<1>3. W \in P
  BY <1>2, FiniteInduction
<1> QED
  BY <1>3 DEF P

\* A sum depends on the summands only.
LEMMA SumSame ==
  ASSUME NEW F, NEW G, NEW W, IsFiniteSet(W), \A w \in W : F[w] = G[w]
  PROVE  SumOver(F, W) = SumOver(G, W)
<1> DEFINE P == {T \in SUBSET W : SumOver(F, T) = SumOver(G, T)}
<1>1. ASSUME NEW T \in SUBSET W, \A U \in (SUBSET T) \ {T} : U \in P
      PROVE  T \in P
  <2>1. IsFiniteSet(T)
    BY FS_Subset
  <2>2. CASE T = {}
    BY <2>1, <2>2, SumUnfold
  <2>3. CASE T # {}
    <3> DEFINE V == T \ {First(T)}
    <3>1. First(T) \in T /\ V \in (SUBSET T) \ {T}
      BY <2>3, FirstIn
    <3>2. SumOver(F, T) = F[First(T)] + SumOver(F, V)
          /\ SumOver(G, T) = G[First(T)] + SumOver(G, V)
      BY <2>1, <2>3, SumUnfold
    <3>3. SumOver(F, V) = SumOver(G, V) /\ F[First(T)] = G[First(T)]
      BY <1>1, <3>1
    <3> QED
      BY <3>2, <3>3
  <2> QED
    BY <2>2, <2>3
<1>2. \A T \in SUBSET W : (\A U \in (SUBSET T) \ {T} : U \in P) => T \in P
  BY <1>1
<1> HIDE DEF P
<1>3. W \in P
  BY <1>2, FiniteInduction
<1> QED
  BY <1>3 DEF P

\* Any summand may be taken first.
LEMMA SumTake ==
  ASSUME NEW F, NEW W, IsFiniteSet(W), \A w \in W : F[w] \in Nat, NEW x \in W
  PROVE  SumOver(F, W) = F[x] + SumOver(F, W \ {x})
<1> DEFINE P == {T \in SUBSET W :
                   \A y \in T : SumOver(F, T) = F[y] + SumOver(F, T \ {y})}
<1>1. ASSUME NEW T \in SUBSET W, \A U \in (SUBSET T) \ {T} : U \in P
      PROVE  T \in P
  <2> SUFFICES ASSUME NEW y \in T
               PROVE  SumOver(F, T) = F[y] + SumOver(F, T \ {y})
    OBVIOUS
  <2> DEFINE z == First(T)
             V == T \ {z}
             U == T \ {y}
             C == V \ {y}
  <2>1. IsFiniteSet(T) /\ IsFiniteSet(V) /\ IsFiniteSet(U) /\ IsFiniteSet(C)
    BY FS_Subset
  <2>2. z \in T /\ V \in (SUBSET T) \ {T} /\ U \in (SUBSET T) \ {T}
    BY FirstIn
  <2>3. SumOver(F, T) = F[z] + SumOver(F, V)
    BY <2>1, SumUnfold
  <2>4. CASE y = z
    BY <2>3, <2>4
  <2>5. CASE y # z
    <3>1. y \in V /\ z \in U /\ U \ {z} = C
      BY <2>2, <2>5
    <3>2. SumOver(F, V) = F[y] + SumOver(F, C)
      BY <1>1, <2>2, <3>1
    <3>3. SumOver(F, U) = F[z] + SumOver(F, C)
      BY <1>1, <2>2, <3>1
    <3>4. SumOver(F, C) \in Nat /\ F[y] \in Nat /\ F[z] \in Nat
      BY <2>1, <2>2, SumType
    <3> HIDE DEF z, V, U, C
    <3>5. F[z] + (F[y] + SumOver(F, C)) = F[y] + (F[z] + SumOver(F, C))
      BY <3>4
    <3> QED
      BY <2>3, <3>2, <3>3, <3>5 DEF U
  <2> QED
    BY <2>4, <2>5
<1>2. \A T \in SUBSET W : (\A U \in (SUBSET T) \ {T} : U \in P) => T \in P
  BY <1>1
<1> HIDE DEF P
<1>3. W \in P
  BY <1>2, FiniteInduction
<1> QED
  BY <1>3 DEF P

\* The same amount for each of the elements in A.
LEMMA SumEqual ==
  ASSUME NEW F, NEW W, IsFiniteSet(W), NEW A \in SUBSET W, NEW c \in Nat,
         \A w \in W : F[w] = IF w \in A THEN c ELSE 0
  PROVE  SumOver(F, W) = c * Cardinality(A)
<1> DEFINE P == {T \in SUBSET W : SumOver(F, T) = c * Cardinality(A \cap T)}
<1>1. ASSUME NEW T \in SUBSET W, \A U \in (SUBSET T) \ {T} : U \in P
      PROVE  T \in P
  <2>1. IsFiniteSet(T)
    BY FS_Subset
  <2>2. CASE T = {}
    <3>1. Cardinality(A \cap T) = 0
      BY <2>2, FS_EmptySet, A \cap {} = {}
    <3>2. SumOver(F, T) = 0
      BY <2>1, <2>2, SumUnfold
    <3>3. SumOver(F, T) = c * Cardinality(A \cap T)
      BY <3>1, <3>2
    <3> QED
      BY <3>3
  <2>3. CASE T # {}
    <3> DEFINE x == First(T)
               V == T \ {x}
               B == A \cap V
    <3>1. x \in T /\ V \in (SUBSET T) \ {T} /\ V \in SUBSET W /\ x \in W
      BY <2>3, FirstIn
    <3>2. SumOver(F, T) = F[x] + SumOver(F, V)
      BY <2>1, <2>3, SumUnfold
    <3>3. SumOver(F, V) = c * Cardinality(B)
      BY <1>1, <3>1
    <3>4. IsFiniteSet(B) /\ Cardinality(B) \in Nat /\ x \notin B
      BY <2>1, FS_Subset, FS_CardinalityType
    <3>5. A \cap T = IF x \in A THEN B \cup {x} ELSE B
      BY <3>1
    <3> HIDE DEF x, V, B
    <3>k. PICK k \in Nat : k = Cardinality(B)
      BY <3>4
    <3>6. CASE x \in A
      <4>1. Cardinality(A \cap T) = k + 1
        BY <3>4, <3>5, <3>6, <3>k, FS_AddElement
      <4>2. SumOver(F, T) = c + c * k
        BY <3>1, <3>2, <3>3, <3>6, <3>k
      <4>3. c * (k + 1) = c + c * k
        OBVIOUS
      <4>4. SumOver(F, T) = c * Cardinality(A \cap T)
        BY <4>1, <4>2, <4>3
      <4> QED
        BY <4>4
    <3>7. CASE x \notin A
      <4>1. Cardinality(A \cap T) = k
        BY <3>5, <3>7, <3>k
      <4>2. c * k \in Nat
        OBVIOUS
      <4>3. SumOver(F, T) = 0 + c * k
        BY <3>1, <3>2, <3>3, <3>7, <3>k
      <4>4. SumOver(F, T) = c * Cardinality(A \cap T)
        BY <4>1, <4>2, <4>3
      <4> QED
        BY <4>4
    <3> QED
      BY <3>6, <3>7
  <2> QED
    BY <2>2, <2>3
<1>2. \A T \in SUBSET W : (\A U \in (SUBSET T) \ {T} : U \in P) => T \in P
  BY <1>1
<1> HIDE DEF P
<1>3. W \in P
  BY <1>2, FiniteInduction
<1>4. A \cap W = A
  OBVIOUS
<1> QED
  BY <1>3, <1>4 DEF P
----------------------------------------------------------------------------
(* Sums as they grow, one summand after the other. *)

\* Induction from a set to the set with one element more.
LEMMA AddInduction ==
  ASSUME NEW S, IsFiniteSet(S), NEW P, {} \in P,
         \A T \in SUBSET S : \A x \in S \ T : T \in P => T \cup {x} \in P
  PROVE  S \in P
<1>1. ASSUME NEW T \in SUBSET S, \A U \in (SUBSET T) \ {T} : U \in P
      PROVE  T \in P
  <2>1. CASE T = {}
    BY <2>1
  <2>2. CASE T # {}
    <3>1. PICK x \in T : TRUE
      BY <2>2
    <3> DEFINE U == T \ {x}
    <3>2. U \in (SUBSET T) \ {T} /\ U \in SUBSET S /\ x \in S \ U /\ T = U \cup {x}
      BY <3>1
    <3> HIDE DEF U
    <3>3. U \in P
      BY <1>1, <3>2
    <3> QED
      BY <3>2, <3>3
  <2> QED
    BY <2>1, <2>2
<1> QED
  BY <1>1, FiniteInduction

\* Nothing adds up to nothing.
LEMMA SumEmpty == ASSUME NEW F PROVE SumOver(F, {}) = 0
  BY SumUnfold, FS_EmptySet

\* One summand more.
LEMMA SumAdd ==
  ASSUME NEW F, NEW T, IsFiniteSet(T), NEW x, x \notin T,
         \A w \in T \cup {x} : F[w] \in Nat
  PROVE  /\ SumOver(F, T \cup {x}) = F[x] + SumOver(F, T)
         /\ F[x] \in Nat /\ SumOver(F, T) \in Nat
<1> DEFINE W == T \cup {x}
<1>1. IsFiniteSet(W) /\ x \in W /\ W \ {x} = T
  BY FS_AddElement
<1>2. SumOver(F, T) \in Nat
  BY SumType
<1> HIDE DEF W
<1>3. SumOver(F, W) = F[x] + SumOver(F, T)
  <2>1. \A w \in W : F[w] \in Nat
    BY DEF W
  <2>2. SumOver(F, W) = F[x] + SumOver(F, W \ {x})
    BY <1>1, <2>1, SumTake
  <2> QED
    BY <1>1, <2>2
<1> QED
  BY <1>2, <1>3 DEF W

\* The sum over two sets apart.
LEMMA SumUnion ==
  ASSUME NEW F, NEW A, NEW B, IsFiniteSet(A), IsFiniteSet(B), A \cap B = {},
         \A w \in A \cup B : F[w] \in Nat
  PROVE  SumOver(F, A \cup B) = SumOver(F, A) + SumOver(F, B)
<1> DEFINE P == {T \in SUBSET B : SumOver(F, A \cup T) = SumOver(F, A) + SumOver(F, T)}
<1>1. {} \in P
  <2>1. SumOver(F, A) \in Nat /\ SumOver(F, {}) = 0 /\ A \cup {} = A
    BY SumType, SumEmpty
  <2> QED
    BY <2>1
<1>2. ASSUME NEW T \in SUBSET B, NEW x \in B \ T, T \in P PROVE T \cup {x} \in P
  <2> DEFINE C == A \cup T
  <2>1. IsFiniteSet(T) /\ IsFiniteSet(C) /\ x \notin C /\ A \cup (T \cup {x}) = C \cup {x}
    BY FS_Subset, FS_Union
  <2>2. SumOver(F, C) = SumOver(F, A) + SumOver(F, T)
    BY <1>2
  <2>3. \A w \in C \cup {x} : F[w] \in Nat
    OBVIOUS
  <2> HIDE DEF C
  <2>4. SumOver(F, C \cup {x}) = F[x] + SumOver(F, C)
    BY <2>1, <2>3, SumAdd
  <2>5. /\ SumOver(F, T \cup {x}) = F[x] + SumOver(F, T)
        /\ F[x] \in Nat /\ SumOver(F, T) \in Nat
    BY <2>1, SumAdd
  <2>6. SumOver(F, A) \in Nat
    BY SumType
  <2>7. F[x] + (SumOver(F, A) + SumOver(F, T)) = SumOver(F, A) + (F[x] + SumOver(F, T))
    BY <2>5, <2>6
  <2>8. SumOver(F, A \cup (T \cup {x})) = SumOver(F, A) + SumOver(F, T \cup {x})
    BY <2>1, <2>2, <2>4, <2>5, <2>7
  <2> QED
    BY <2>8
<1> HIDE DEF P
<1>3. B \in P
  BY <1>1, <1>2, AddInduction
<1> QED
  BY <1>3 DEF P

\* Summands that are zero do not matter.
LEMMA SumZeros ==
  ASSUME NEW F, NEW A, IsFiniteSet(A), NEW B \in SUBSET A,
         \A w \in B : F[w] \in Nat, \A w \in A \ B : F[w] = 0
  PROVE  SumOver(F, A) = SumOver(F, B)
<1>1. IsFiniteSet(B) /\ IsFiniteSet(A \ B) /\ B \cap (A \ B) = {} /\ B \cup (A \ B) = A
  BY FS_Subset
<1>2. \A w \in A : F[w] \in Nat
  OBVIOUS
<1>3. SumOver(F, A) = SumOver(F, B) + SumOver(F, A \ B)
  BY <1>1, <1>2, SumUnion
<1>4. SumOver(F, A \ B) = 0 * Cardinality({})
  BY <1>1, SumEqual
<1>5. SumOver(F, A \ B) = 0
  BY <1>4, FS_EmptySet
<1>6. SumOver(F, B) \in Nat
  BY <1>1, SumType
<1> QED
  BY <1>3, <1>5, <1>6

\* A sum that is not zero has a summand that is not.
LEMMA SumPositive ==
  ASSUME NEW F, NEW A, IsFiniteSet(A), \A w \in A : F[w] \in Nat, SumOver(F, A) > 0
  PROVE  \E w \in A : F[w] > 0
<1> SUFFICES ASSUME \A w \in A : ~(F[w] > 0) PROVE FALSE
  OBVIOUS
<1>1. \A w \in A \ {} : F[w] = 0
  OBVIOUS
<1>2. SumOver(F, A) = SumOver(F, {})
  BY <1>1, SumZeros
<1> QED
  BY <1>2, SumEmpty

\* The sum of sums.
LEMMA SumPlus ==
  ASSUME NEW F, NEW G, NEW H, NEW W, IsFiniteSet(W),
         \A w \in W : F[w] \in Nat /\ G[w] \in Nat /\ H[w] = F[w] + G[w]
  PROVE  SumOver(H, W) = SumOver(F, W) + SumOver(G, W)
<1> DEFINE P == {T \in SUBSET W : SumOver(H, T) = SumOver(F, T) + SumOver(G, T)}
<1>1. {} \in P
  <2>1. SumOver(H, {}) = 0 /\ SumOver(F, {}) = 0 /\ SumOver(G, {}) = 0
    BY SumEmpty
  <2> QED
    BY <2>1
<1>2. ASSUME NEW T \in SUBSET W, NEW x \in W \ T, T \in P PROVE T \cup {x} \in P
  <2>1. IsFiniteSet(T) /\ \A w \in T \cup {x} : H[w] \in Nat
    BY FS_Subset
  <2>2. /\ SumOver(F, T \cup {x}) = F[x] + SumOver(F, T)
        /\ F[x] \in Nat /\ SumOver(F, T) \in Nat
    BY <2>1, SumAdd
  <2>3. /\ SumOver(G, T \cup {x}) = G[x] + SumOver(G, T)
        /\ G[x] \in Nat /\ SumOver(G, T) \in Nat
    BY <2>1, SumAdd
  <2>4. SumOver(H, T \cup {x}) = H[x] + SumOver(H, T)
    BY <2>1, SumAdd
  <2>5. SumOver(H, T \cup {x}) = SumOver(F, T \cup {x}) + SumOver(G, T \cup {x})
    BY <1>2, <2>2, <2>3, <2>4
  <2> QED
    BY <2>5
<1> HIDE DEF P
<1>3. W \in P
  BY <1>1, <1>2, AddInduction
<1> QED
  BY <1>3 DEF P

\* What holds of each summand, up to d, holds of the sums, up to d for each.
LEMMA SumBound ==
  ASSUME NEW F, NEW G, NEW W, IsFiniteSet(W), NEW b \in Nat, NEW c \in Nat, NEW d \in Nat,
         \A w \in W : F[w] \in Nat /\ G[w] \in Nat /\ b * F[w] <= c * G[w] + d
  PROVE  b * SumOver(F, W) <= c * SumOver(G, W) + d * Cardinality(W)
<1> DEFINE P == {T \in SUBSET W :
                   b * SumOver(F, T) <= c * SumOver(G, T) + d * Cardinality(T)}
<1>1. {} \in P
  <2>1. SumOver(F, {}) = 0 /\ SumOver(G, {}) = 0 /\ Cardinality({}) = 0
    BY SumEmpty, FS_EmptySet
  <2>2. b * SumOver(F, {}) <= c * SumOver(G, {}) + d * Cardinality({})
    BY <2>1
  <2> QED
    BY <2>2
<1>2. ASSUME NEW T \in SUBSET W, NEW x \in W \ T, T \in P PROVE T \cup {x} \in P
  <2>1. IsFiniteSet(T)
    BY FS_Subset
  <2>2. /\ SumOver(F, T \cup {x}) = F[x] + SumOver(F, T)
        /\ F[x] \in Nat /\ SumOver(F, T) \in Nat
    BY <2>1, SumAdd
  <2>3. /\ SumOver(G, T \cup {x}) = G[x] + SumOver(G, T)
        /\ G[x] \in Nat /\ SumOver(G, T) \in Nat
    BY <2>1, SumAdd
  <2>4. Cardinality(T) \in Nat /\ Cardinality(T \cup {x}) = Cardinality(T) + 1
    BY <2>1, FS_AddElement, FS_CardinalityType
  <2>5. PICK f \in Nat, g \in Nat, u \in Nat, v \in Nat, k \in Nat :
          /\ f = F[x] /\ u = SumOver(F, T) /\ g = G[x] /\ v = SumOver(G, T)
          /\ k = Cardinality(T)
    BY <2>2, <2>3, <2>4
  <2>6. b * f <= c * g + d /\ b * u <= c * v + d * k
    BY <1>2, <2>5
  <2>7. b * (f + u) = b * f + b * u /\ c * (g + v) = c * g + c * v /\ d * (k + 1) = d * k + d
    OBVIOUS
  <2>8. {b * f, b * u, c * g, c * v, d * k} \subseteq Nat
    OBVIOUS
  <2>9. b * (f + u) <= c * (g + v) + d * (k + 1)
    BY <2>6, <2>7, <2>8
  <2>10. b * SumOver(F, T \cup {x})
           <= c * SumOver(G, T \cup {x}) + d * Cardinality(T \cup {x})
    BY <2>2, <2>3, <2>4, <2>5, <2>9
  <2> QED
    BY <2>10
<1> HIDE DEF P
<1>3. W \in P
  BY <1>1, <1>2, AddInduction
<1> QED
  BY <1>3 DEF P

\* The rows with key k.
RowsAt(W, key, k) == {w \in W : key[w] = k}

\* The rows, summed up key by key.
LEMMA SumByKey ==
  ASSUME NEW F, NEW W, IsFiniteSet(W), \A w \in W : F[w] \in Nat,
         NEW K, IsFiniteSet(K), NEW key, \A w \in W : key[w] \in K, NEW H,
         \A k \in K : H[k] = SumOver(F, RowsAt(W, key, k))
  PROVE  SumOver(H, K) = SumOver(F, W)
<1> DEFINE Of(T) == {w \in W : key[w] \in T}
           P == {T \in SUBSET K : SumOver(H, T) = SumOver(F, Of(T))}
<1>1. {} \in P
  <2>1. Of({}) = {}
    OBVIOUS
  <2>2. SumOver(H, {}) = SumOver(F, Of({}))
    BY <2>1, SumEmpty
  <2> QED
    BY <2>2
<1>2. ASSUME NEW T \in SUBSET K, NEW x \in K \ T, T \in P PROVE T \cup {x} \in P
  <2> DEFINE A == RowsAt(W, key, x)
  <2>1. IsFiniteSet(T) /\ IsFiniteSet(A) /\ IsFiniteSet(Of(T))
    <3>1. A \in SUBSET W /\ Of(T) \in SUBSET W
      BY DEF RowsAt
    <3> QED
      BY <3>1, FS_Subset
  <2>2. Of(T \cup {x}) = A \cup Of(T) /\ A \cap Of(T) = {} /\ A \cup Of(T) \in SUBSET W
    BY DEF RowsAt
  <2>3. \A k \in T \cup {x} : H[k] \in Nat
    <3> SUFFICES ASSUME NEW k \in K PROVE H[k] \in Nat
      OBVIOUS
    <3> DEFINE V == RowsAt(W, key, k)
    <3>1. IsFiniteSet(V) /\ (\A w \in V : F[w] \in Nat) /\ H[k] = SumOver(F, V)
      <4>1. V \in SUBSET W
        BY DEF RowsAt
      <4> QED
        BY <4>1, FS_Subset
    <3> HIDE DEF V
    <3> QED
      BY <3>1, SumType
  <2>4. SumOver(H, T \cup {x}) = H[x] + SumOver(H, T)
    BY <2>1, <2>3, SumAdd
  <2>5. SumOver(H, T) = SumOver(F, Of(T)) /\ H[x] = SumOver(F, A)
    BY <1>2
  <2> HIDE DEF A, Of
  <2>6. SumOver(F, A \cup Of(T)) = SumOver(F, A) + SumOver(F, Of(T))
    BY <2>1, <2>2, SumUnion
  <2>7. SumOver(H, T \cup {x}) = SumOver(F, Of(T \cup {x}))
    BY <2>2, <2>4, <2>5, <2>6
  <2> QED
    BY <2>7
<1>3. K \in P
  <2> HIDE DEF P
  <2> QED
    BY <1>1, <1>2, AddInduction
<1>4. Of(K) = W
  OBVIOUS
<1> QED
  BY <1>3, <1>4
=============================================================================
