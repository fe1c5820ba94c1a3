---------------------------- MODULE OnlineProofs ----------------------------
(***************************************************************************)
(* What OnlineParts says of its parts, for every value of their constants. *)
(* Each part's module states its inductive invariant; here it holds at     *)
(* first, every step keeps it, and it implies what is promised.  The limits*)
(* and the status page are about sums over sets that change with every     *)
(* step, so sums come first.                                               *)
(***************************************************************************)
EXTENDS OnlineParts, Sequences, FiniteSetTheorems, Folds, Functions,
        WellFoundedInduction, TLAPS

-----------------------------------------------------------------------------
(* Sums over finite sets.                                                  *)

(* Induction over the subsets of a finite set.                             *)
LEMMA SubsetInduction ==
  ASSUME NEW S, IsFiniteSet(S), NEW G, {} \in G,
         \A T \in SUBSET S : \A x \in S \ T : T \in G => T \cup {x} \in G
  PROVE  \A T \in SUBSET S : T \in G
<1> SUFFICES ASSUME NEW U \in SUBSET S, U \notin G PROVE FALSE
  OBVIOUS
<1> DEFINE Out == {T \in SUBSET S : T \notin G}
<1>1. Out \subseteq FiniteSubsetsOf(S) /\ Out # {}
  BY FS_FiniteSubsetsOfFinite
<1>2. PICK T \in Out : \A V \in Out : <<V, T>> \notin StrictSubsetOrdering(S)
  BY <1>1, FS_StrictSubsetOrderingWellFounded, WFMin
<1>3. PICK x \in T : TRUE
  BY <1>2
<1>4. T \ {x} \in SUBSET S /\ T \ {x} # T /\ x \in S \ (T \ {x}) /\ (T \ {x}) \cup {x} = T
  BY <1>2, <1>3
<1>5. T \ {x} \in G
  <2>1. <<T \ {x}, T>> \in StrictSubsetOrdering(S) <=>
          <<T \ {x}, T>> \in (SUBSET S) \X (SUBSET S) /\ T \ {x} \subseteq T /\ T \ {x} # T
    BY DEF StrictSubsetOrdering
  <2> QED
    BY <1>2, <1>4, <2>1
<1> QED
  BY <1>2, <1>4, <1>5

(* m adds up f over the subsets of S.                                      *)
AddsUp(m, f, S) ==
  /\ m \in [SUBSET S -> Int]
  /\ m[{}] = 0
  /\ \A T \in SUBSET S : \A x \in S \ T : m[T \cup {x}] = m[T] + f[x]

LEMMA MeasureExists ==
  ASSUME NEW S, IsFiniteSet(S), NEW f, \A x \in S : f[x] \in Int
  PROVE  \E m : AddsUp(m, f, S)
<1> DEFINE G == {T \in SUBSET S : \E m : AddsUp(m, f, T)}
<1>1. {} \in G
  <2> DEFINE m == [T \in SUBSET {} |-> 0]
  <2>1. AddsUp(m, f, {})
    BY DEF AddsUp
  <2> QED
    BY <2>1
<1>2. ASSUME NEW T \in SUBSET S, NEW y \in S \ T, T \in G PROVE T \cup {y} \in G
  <2>1. PICK m : AddsUp(m, f, T)
    BY <1>2
  <2> DEFINE h == [V \in SUBSET (T \cup {y}) |->
                     IF y \in V THEN m[V \ {y}] + f[y] ELSE m[V]]
  <2>2. \A V \in SUBSET (T \cup {y}) : (y \notin V => V \in SUBSET T) /\ V \ {y} \in SUBSET T
    OBVIOUS
  <2>3. h \in [SUBSET (T \cup {y}) -> Int] /\ h[{}] = 0
    BY <2>1, <2>2 DEF AddsUp
  <2>4. ASSUME NEW V \in SUBSET (T \cup {y}), NEW x \in (T \cup {y}) \ V
        PROVE  h[V \cup {x}] = h[V] + f[x]
    <3>0. V \cup {x} \in SUBSET (T \cup {y}) /\ {f[x], f[y]} \subseteq Int
      OBVIOUS
    <3>1. CASE x = y
      <4>1. (V \cup {x}) \ {y} = V /\ y \notin V
        BY <2>4, <3>1
      <4> QED
        BY <3>0, <3>1, <4>1
    <3>2. CASE x # y /\ y \in V
      <4>1. (V \cup {x}) \ {y} = (V \ {y}) \cup {x} /\ x \in T \ (V \ {y}) /\ V \ {y} \in SUBSET T
        BY <2>2, <2>4, <3>2
      <4>2. m[(V \ {y}) \cup {x}] = m[V \ {y}] + f[x] /\ m[V \ {y}] \in Int
        BY <2>1, <4>1 DEF AddsUp
      <4>3. h[V \cup {x}] = m[(V \cup {x}) \ {y}] + f[y] /\ h[V] = m[V \ {y}] + f[y]
        BY <3>0, <3>2
      <4>4. h[V \cup {x}] = (m[V \ {y}] + f[x]) + f[y]
        BY <4>1, <4>2, <4>3
      <4> HIDE DEF h
      <4> QED
        BY <3>0, <4>2, <4>3, <4>4
    <3>3. CASE x # y /\ y \notin V
      <4>1. V \in SUBSET T /\ x \in T \ V /\ y \notin V \cup {x}
        BY <2>2, <2>4, <3>3
      <4>2. m[V \cup {x}] = m[V] + f[x]
        BY <2>1, <4>1 DEF AddsUp
      <4> QED
        BY <3>0, <3>3, <4>1, <4>2
    <3> QED
      BY <3>1, <3>2, <3>3
  <2>5. AddsUp(h, f, T \cup {y})
    BY <2>3, <2>4 DEF AddsUp
  <2> QED
    BY <2>5
<1>3. S \in G
  <2> HIDE DEF G
  <2> QED
    BY <1>1, <1>2, SubsetInduction
<1> QED
  BY <1>3

LEMMA SumIsMeasure ==
  ASSUME NEW S, IsFiniteSet(S), NEW f, NEW m, AddsUp(m, f, S), \A x \in S : f[x] \in Int
  PROVE  SumFunctionOnSet(f, S) = m[S]
<1> DEFINE First(T) == CHOOSE x \in T : TRUE
           IsIter(g) == g = [T \in SUBSET S |->
                               IF T = {} THEN 0 ELSE f[First(T)] + g[T \ {First(T)}]]
           it == CHOOSE g : IsIter(g)
<1>1. SumFunctionOnSet(f, S) = it[S]
  BY Zenon DEF SumFunctionOnSet, FoldFunctionOnSet, MapThenFoldSet
<1>2. \A T \in SUBSET S : T # {} => First(T) \in T
  OBVIOUS
<1> HIDE DEF First
<1>3. IsIter(m)
  <2>1. ASSUME NEW T \in SUBSET S, T # {} PROVE m[T] = f[First(T)] + m[T \ {First(T)}]
    <3>1. First(T) \in T /\ T \ {First(T)} \in SUBSET S /\ First(T) \in S \ (T \ {First(T)})
          /\ (T \ {First(T)}) \cup {First(T)} = T
      BY <1>2, <2>1
    <3>2. m[T \ {First(T)}] \in Int /\ f[First(T)] \in Int
      BY <3>1 DEF AddsUp
    <3>3. m[(T \ {First(T)}) \cup {First(T)}] = m[T \ {First(T)}] + f[First(T)]
      BY <3>1 DEF AddsUp
    <3>4. m[(T \ {First(T)}) \cup {First(T)}] = m[T]
      BY <3>1
    <3> QED
      BY <3>2, <3>3, <3>4
  <2>2. m \in [SUBSET S -> Int] /\ m[{}] = 0
    BY DEF AddsUp
  <2> QED
    BY <2>1, <2>2
<1>4. IsIter(it)
  <2> HIDE DEF IsIter
  <2> QED
    BY <1>3
<1>5. \A T \in SUBSET S : it[T] = IF T = {} THEN 0 ELSE f[First(T)] + it[T \ {First(T)}]
  <2> HIDE DEF it
  <2> QED
    BY <1>4
<1> HIDE DEF it
<1> DEFINE G == {T \in SUBSET S : it[T] = m[T]}
<1>6. S \in G
  <2> SUFFICES ASSUME S \notin G PROVE FALSE
    OBVIOUS
  <2> DEFINE Out == {T \in SUBSET S : T \notin G}
  <2>1. Out \subseteq FiniteSubsetsOf(S) /\ Out # {}
    BY FS_FiniteSubsetsOfFinite
  <2>2. PICK T \in Out : \A V \in Out : <<V, T>> \notin StrictSubsetOrdering(S)
    BY <2>1, FS_StrictSubsetOrderingWellFounded, WFMin
  <2>3. T # {}
    BY <1>5, <2>2 DEF AddsUp
  <2>4. First(T) \in T /\ T \ {First(T)} \in SUBSET S /\ T \ {First(T)} # T
    BY <1>2, <2>2, <2>3
  <2>5. T \ {First(T)} \in G
    <3>1. <<T \ {First(T)}, T>> \in StrictSubsetOrdering(S) <=>
            /\ <<T \ {First(T)}, T>> \in (SUBSET S) \X (SUBSET S)
            /\ T \ {First(T)} \subseteq T /\ T \ {First(T)} # T
      BY DEF StrictSubsetOrdering
    <3> QED
      BY <2>2, <2>4, <3>1
  <2>6. it[T] = m[T]
    <3>1. T \in SUBSET S
      BY <2>2
    <3>2. m[T] = f[First(T)] + m[T \ {First(T)}]
      BY <1>3, <2>3, <3>1
    <3>3. it[T] = f[First(T)] + it[T \ {First(T)}]
      BY <1>5, <2>3, <3>1
    <3> QED
      BY <2>5, <3>2, <3>3
  <2> QED
    BY <2>2, <2>6
<1> QED
  BY <1>1, <1>6

(* What a sum over a finite set is, element by element.                    *)
LEMMA SumSteps ==
  ASSUME NEW S, IsFiniteSet(S), NEW f, \A x \in S : f[x] \in Int
  PROVE  /\ SumFunctionOnSet(f, {}) = 0
         /\ \A T \in SUBSET S : SumFunctionOnSet(f, T) \in Int
         /\ \A T \in SUBSET S : \A x \in S \ T :
              SumFunctionOnSet(f, T \cup {x}) = SumFunctionOnSet(f, T) + f[x]
<1>1. PICK m : AddsUp(m, f, S)
  BY MeasureExists
<1>2. ASSUME NEW T \in SUBSET S PROVE SumFunctionOnSet(f, T) = m[T]
  <2> DEFINE n == [V \in SUBSET T |-> m[V]]
  <2>1. AddsUp(n, f, T)
    <3>1. n \in [SUBSET T -> Int] /\ n[{}] = 0
      BY <1>1 DEF AddsUp
    <3>2. ASSUME NEW V \in SUBSET T, NEW x \in T \ V PROVE n[V \cup {x}] = n[V] + f[x]
      BY <1>1 DEF AddsUp
    <3> QED
      BY <3>1, <3>2 DEF AddsUp
  <2>2. IsFiniteSet(T) /\ n[T] = m[T]
    BY FS_Subset
  <2> HIDE DEF n
  <2>3. \A x \in T : f[x] \in Int
    OBVIOUS
  <2> QED
    BY <2>1, <2>2, <2>3, SumIsMeasure
<1>3. \A T \in SUBSET S : \A x \in S \ T : T \cup {x} \in SUBSET S
  OBVIOUS
<1> QED
  BY <1>1, <1>2, <1>3 DEF AddsUp

LEMMA SumGrows ==
  ASSUME NEW S, IsFiniteSet(S), NEW f, \A x \in S : f[x] \in Nat
  PROVE  \A T \in SUBSET S : \A V \in SUBSET T :
           0 <= SumFunctionOnSet(f, V) /\ SumFunctionOnSet(f, V) <= SumFunctionOnSet(f, T)
<1> DEFINE s(T) == SumFunctionOnSet(f, T)
           G == {T \in SUBSET S : \A V \in SUBSET T : 0 <= s(V) /\ s(V) <= s(T)}
<1>1. /\ s({}) = 0
      /\ \A T \in SUBSET S : s(T) \in Int
      /\ \A T \in SUBSET S : \A x \in S \ T : s(T \cup {x}) = s(T) + f[x]
  <2>1. \A x \in S : f[x] \in Int
    OBVIOUS
  <2> QED
    BY <2>1, SumSteps
<1> HIDE DEF s
<1>2. {} \in G
  BY <1>1
<1>3. ASSUME NEW T \in SUBSET S, NEW x \in S \ T, T \in G PROVE T \cup {x} \in G
  <2> SUFFICES ASSUME NEW V \in SUBSET (T \cup {x})
               PROVE  0 <= s(V) /\ s(V) <= s(T \cup {x})
    OBVIOUS
  <2>1. f[x] \in Nat /\ s(T \cup {x}) = s(T) + f[x] /\ s(T) \in Int
    BY <1>1
  <2>2. CASE x \notin V
    <3>1. V \in SUBSET T /\ s(V) \in Int
      BY <1>1, <2>2
    <3>2. 0 <= s(V) /\ s(V) <= s(T)
      BY <1>3, <3>1
    <3> QED
      BY <2>1, <3>1, <3>2
  <2>3. CASE x \in V
    <3> DEFINE W == V \ {x}
    <3>1. W \in SUBSET T /\ W \in SUBSET S /\ x \in S \ W /\ W \cup {x} = V
      BY <2>3
    <3> HIDE DEF W
    <3>2. 0 <= s(W) /\ s(W) <= s(T) /\ s(W) \in Int /\ s(W \cup {x}) = s(W) + f[x]
      BY <1>1, <1>3, <3>1
    <3>3. s(V) = s(W) + f[x]
      BY <3>1, <3>2
    <3> QED
      BY <2>1, <3>2, <3>3
  <2> QED
    BY <2>2, <2>3
<1>4. \A T \in SUBSET S : T \in G
  <2> HIDE DEF G
  <2> QED
    BY <1>2, <1>3, SubsetInduction
<1> QED
  BY <1>4 DEF s

LEMMA SumWithin ==
  ASSUME NEW S, IsFiniteSet(S), NEW f, NEW g,
         \A x \in S : f[x] \in Int /\ g[x] \in Int /\ f[x] <= g[x]
  PROVE  SumFunctionOnSet(f, S) <= SumFunctionOnSet(g, S)
<1> DEFINE s(T) == SumFunctionOnSet(f, T)
           t(T) == SumFunctionOnSet(g, T)
           G == {T \in SUBSET S : s(T) <= t(T)}
<1>1. /\ s({}) = 0
      /\ \A T \in SUBSET S : s(T) \in Int
      /\ \A T \in SUBSET S : \A x \in S \ T : s(T \cup {x}) = s(T) + f[x]
  BY SumSteps
<1>2. /\ t({}) = 0
      /\ \A T \in SUBSET S : t(T) \in Int
      /\ \A T \in SUBSET S : \A x \in S \ T : t(T \cup {x}) = t(T) + g[x]
  BY SumSteps
<1> HIDE DEF s, t
<1>3. {} \in G
  BY <1>1, <1>2
<1>4. ASSUME NEW T \in SUBSET S, NEW x \in S \ T, T \in G PROVE T \cup {x} \in G
  <2>1. s(T \cup {x}) = s(T) + f[x] /\ t(T \cup {x}) = t(T) + g[x]
    BY <1>1, <1>2
  <2>2. s(T) \in Int /\ t(T) \in Int /\ s(T) <= t(T)
    BY <1>1, <1>2, <1>4
  <2>3. s(T \cup {x}) <= t(T \cup {x})
    BY <2>1, <2>2
  <2> QED
    BY <2>3
<1>5. \A T \in SUBSET S : T \in G
  <2> HIDE DEF G
  <2> QED
    BY <1>3, <1>4, SubsetInduction
<1>6. s(S) <= t(S)
  BY <1>5
<1> QED
  BY <1>6 DEF s, t

LEMMA SumOfBoth ==
  ASSUME NEW S, IsFiniteSet(S), NEW f, NEW g, NEW h,
         \A x \in S : f[x] \in Int /\ g[x] \in Int /\ h[x] = f[x] + g[x]
  PROVE  SumFunctionOnSet(h, S) = SumFunctionOnSet(f, S) + SumFunctionOnSet(g, S)
<1> DEFINE s(T) == SumFunctionOnSet(f, T)
           t(T) == SumFunctionOnSet(g, T)
           u(T) == SumFunctionOnSet(h, T)
           G == {T \in SUBSET S : u(T) = s(T) + t(T)}
<1>1. /\ s({}) = 0
      /\ \A T \in SUBSET S : s(T) \in Int
      /\ \A T \in SUBSET S : \A x \in S \ T : s(T \cup {x}) = s(T) + f[x]
  BY SumSteps
<1>2. /\ t({}) = 0
      /\ \A T \in SUBSET S : t(T) \in Int
      /\ \A T \in SUBSET S : \A x \in S \ T : t(T \cup {x}) = t(T) + g[x]
  BY SumSteps
<1>3. /\ u({}) = 0
      /\ \A T \in SUBSET S : \A x \in S \ T : u(T \cup {x}) = u(T) + h[x]
  <2>1. \A x \in S : h[x] \in Int
    OBVIOUS
  <2> QED
    BY <2>1, SumSteps
<1> HIDE DEF s, t, u
<1>4. {} \in G
  BY <1>1, <1>2, <1>3
<1>5. ASSUME NEW T \in SUBSET S, NEW x \in S \ T, T \in G PROVE T \cup {x} \in G
  <2>1. s(T \cup {x}) = s(T) + f[x] /\ t(T \cup {x}) = t(T) + g[x] /\ u(T \cup {x}) = u(T) + h[x]
    BY <1>1, <1>2, <1>3
  <2>2. s(T) \in Int /\ t(T) \in Int /\ u(T) = s(T) + t(T) /\ h[x] = f[x] + g[x]
        /\ f[x] \in Int /\ g[x] \in Int
    BY <1>1, <1>2, <1>5
  <2>3. u(T \cup {x}) = s(T \cup {x}) + t(T \cup {x})
    BY <2>1, <2>2
  <2> QED
    BY <2>3
<1>6. \A T \in SUBSET S : T \in G
  <2> HIDE DEF G
  <2> QED
    BY <1>4, <1>5, SubsetInduction
<1>7. u(S) = s(S) + t(S)
  BY <1>6
<1> QED
  BY <1>7 DEF s, t, u

LEMMA SumSame ==
  ASSUME NEW S, IsFiniteSet(S), NEW f, NEW g, \A x \in S : f[x] \in Int /\ g[x] = f[x]
  PROVE  SumFunctionOnSet(f, S) = SumFunctionOnSet(g, S)
<1>1. SumFunctionOnSet(f, S) \in Int /\ SumFunctionOnSet(g, S) \in Int
  <2>1. \A x \in S : g[x] \in Int
    OBVIOUS
  <2> QED
    BY <2>1, SumSteps
<1>2. SumFunctionOnSet(f, S) <= SumFunctionOnSet(g, S)
  BY SumWithin
<1>3. SumFunctionOnSet(g, S) <= SumFunctionOnSet(f, S)
  BY SumWithin
<1> QED
  BY <1>1, <1>2, <1>3

(* A function changed at one point.                                        *)
LEMMA SumChanges ==
  ASSUME NEW S, IsFiniteSet(S), NEW f, NEW g, NEW y \in S,
         \A x \in S : f[x] \in Int /\ g[x] \in Int,
         \A x \in S \ {y} : g[x] = f[x]
  PROVE  SumFunctionOnSet(g, S) = SumFunctionOnSet(f, S) - f[y] + g[y]
<1> DEFINE T == S \ {y}
<1>1. T \in SUBSET S /\ y \in S \ T /\ T \cup {y} = S /\ IsFiniteSet(T)
  BY FS_Subset
<1>2. SumFunctionOnSet(f, T) = SumFunctionOnSet(g, T)
  BY <1>1, SumSame
<1> HIDE DEF T
<1>3. /\ SumFunctionOnSet(f, T \cup {y}) = SumFunctionOnSet(f, T) + f[y]
      /\ SumFunctionOnSet(f, T) \in Int
  BY <1>1, SumSteps
<1>4. SumFunctionOnSet(g, T \cup {y}) = SumFunctionOnSet(g, T) + g[y]
  BY <1>1, SumSteps
<1>5. /\ SumFunctionOnSet(f, S) = SumFunctionOnSet(f, T) + f[y]
      /\ SumFunctionOnSet(g, S) = SumFunctionOnSet(f, T) + g[y]
  BY <1>1, <1>2, <1>3, <1>4
<1>6. f[y] \in Int /\ g[y] \in Int
  OBVIOUS
<1> QED
  BY <1>3, <1>5, <1>6

(* Elements that add nothing may be left out.                              *)
LEMMA SumOfPart ==
  ASSUME NEW S, IsFiniteSet(S), NEW f, NEW P \in SUBSET S,
         \A x \in S : f[x] \in Int, \A x \in S \ P : f[x] = 0
  PROVE  SumFunctionOnSet(f, S) = SumFunctionOnSet(f, P)
<1> DEFINE s(T) == SumFunctionOnSet(f, T)
           G == {T \in SUBSET S : s(T) = s(T \cap P)}
<1>1. /\ s({}) = 0
      /\ \A T \in SUBSET S : s(T) \in Int
      /\ \A T \in SUBSET S : \A x \in S \ T : s(T \cup {x}) = s(T) + f[x]
  BY SumSteps
<1> HIDE DEF s
<1>2. {} \in G
  <2>1. {} \cap P = {}
    OBVIOUS
  <2> QED
    BY <2>1
<1>3. ASSUME NEW T \in SUBSET S, NEW x \in S \ T, T \in G PROVE T \cup {x} \in G
  <2> DEFINE W == T \cap P
  <2>1. s(T \cup {x}) = s(T) + f[x] /\ s(T) \in Int /\ s(T) = s(W)
    BY <1>1, <1>3
  <2>2. CASE x \in P
    <3>1. (T \cup {x}) \cap P = W \cup {x} /\ W \in SUBSET S /\ x \in S \ W
      BY <2>2
    <3> HIDE DEF W
    <3>2. s(W \cup {x}) = s(W) + f[x]
      BY <1>1, <3>1
    <3>3. s(T \cup {x}) = s((T \cup {x}) \cap P)
      BY <2>1, <3>1, <3>2
    <3> QED
      BY <3>3
  <2>3. CASE x \notin P
    <3>1. (T \cup {x}) \cap P = W /\ f[x] = 0
      BY <2>3
    <3> HIDE DEF W
    <3>2. s(T \cup {x}) = s(T)
      BY <2>1, <3>1
    <3>3. s((T \cup {x}) \cap P) = s(W)
      BY <3>1
    <3> QED
      BY <2>1, <3>2, <3>3
  <2> QED
    BY <2>2, <2>3
<1>4. \A T \in SUBSET S : T \in G
  <2> HIDE DEF G
  <2> QED
    BY <1>2, <1>3, SubsetInduction
<1>5. s(S) = s(S \cap P) /\ S \cap P = P
  BY <1>4
<1> QED
  BY <1>5 DEF s

(* Sums over sets that have no element in common.                          *)
LEMMA SumApart ==
  ASSUME NEW S, IsFiniteSet(S), NEW f, \A x \in S : f[x] \in Int,
         NEW T \in SUBSET S, NEW V \in SUBSET S, T \cap V = {}
  PROVE  SumFunctionOnSet(f, T \cup V) = SumFunctionOnSet(f, T) + SumFunctionOnSet(f, V)
<1> DEFINE s(W) == SumFunctionOnSet(f, W)
           G == {W \in SUBSET V : s(T \cup W) = s(T) + s(W)}
<1>1. /\ s({}) = 0
      /\ \A W \in SUBSET S : s(W) \in Int
      /\ \A W \in SUBSET S : \A x \in S \ W : s(W \cup {x}) = s(W) + f[x]
  BY SumSteps
<1> HIDE DEF s
<1>2. {} \in G
  <2>1. T \cup {} = T
    OBVIOUS
  <2> QED
    BY <1>1, <2>1
<1>3. ASSUME NEW W \in SUBSET V, NEW x \in V \ W, W \in G PROVE W \cup {x} \in G
  <2>1. T \cup W \in SUBSET S /\ x \in S \ (T \cup W) /\ W \in SUBSET S /\ x \in S \ W
        /\ T \cup (W \cup {x}) = (T \cup W) \cup {x}
    OBVIOUS
  <2>2. s((T \cup W) \cup {x}) = s(T \cup W) + f[x] /\ s(W \cup {x}) = s(W) + f[x]
    BY <1>1, <2>1
  <2>3. s(T \cup W) = s(T) + s(W) /\ s(T) \in Int /\ s(W) \in Int /\ f[x] \in Int
    BY <1>1, <1>3, <2>1
  <2>4. s(T \cup (W \cup {x})) = s((T \cup W) \cup {x})
    BY <2>1
  <2>5. s(T \cup (W \cup {x})) = s(T) + s(W \cup {x})
    BY <2>2, <2>3, <2>4
  <2> QED
    BY <2>5
<1>4. IsFiniteSet(V)
  BY FS_Subset
<1>5. \A W \in SUBSET V : W \in G
  <2> HIDE DEF G
  <2> QED
    BY <1>2, <1>3, <1>4, SubsetInduction
<1>6. s(T \cup V) = s(T) + s(V)
  BY <1>5
<1> QED
  BY <1>6 DEF s

-----------------------------------------------------------------------------
(* Division.                                                               *)

LEMMA DivisionIs ==
  ASSUME NEW t \in Int, NEW m \in Nat \ {0}
  PROVE  t % m \in 0..(m - 1) /\ t = m * (t \div m) + (t % m) /\ t \div m \in Int
  BY SMT

LEMMA DivisionIsUnique ==
  ASSUME NEW m \in Nat \ {0}, NEW q \in Int, NEW r \in 0..(m - 1),
         NEW k \in Int, NEW s \in 0..(m - 1), m * q + r = m * k + s
  PROVE  q = k /\ r = s
<1>1. m * (q - k) = s - r
  OBVIOUS
<1>2. q - k >= 1 => m * (q - k) >= m
  OBVIOUS
<1>3. q - k <= -1 => m * (q - k) <= -m
  OBVIOUS
<1>4. q = k
  BY <1>1, <1>2, <1>3
<1> QED
  BY <1>1, <1>4

LEMMA NextRemainder ==
  ASSUME NEW t \in Int, NEW m \in Nat \ {0}
  PROVE  (t + 1) % m = IF t % m = m - 1 THEN 0 ELSE (t % m) + 1
<1> DEFINE q == t \div m
           r == t % m
           k == (t + 1) \div m
           s == (t + 1) % m
<1>1. r \in 0..(m - 1) /\ t = m * q + r /\ q \in Int
  BY DivisionIs
<1>2. s \in 0..(m - 1) /\ t + 1 = m * k + s /\ k \in Int
  <2>1. t + 1 \in Int
    OBVIOUS
  <2> QED
    BY <2>1, DivisionIs
<1> HIDE DEF q, r, k, s
<1>3. CASE r = m - 1
  <2>1. m * (q + 1) + 0 = m * k + s
    BY <1>1, <1>2, <1>3
  <2>2. s = 0
    BY <1>1, <1>2, <2>1, DivisionIsUnique
  <2> QED
    BY <2>2, <1>3 DEF s, r
<1>4. CASE r # m - 1
  <2>1. m * q + (r + 1) = m * k + s /\ r + 1 \in 0..(m - 1)
    BY <1>1, <1>2, <1>4
  <2>2. s = r + 1
    BY <1>1, <1>2, <2>1, DivisionIsUnique
  <2> QED
    BY <2>2, <1>4 DEF s, r
<1> QED
  BY <1>3, <1>4

LEMMA SameQuotient ==
  ASSUME NEW t \in Int, NEW m \in Nat \ {0}, (t + 1) % m # 0
  PROVE  (t + 1 + m) \div m = (t + m) \div m
<1> DEFINE q == (t + m) \div m
           r == (t + m) % m
           k == (t + 1 + m) \div m
           s == (t + 1 + m) % m
           a == (t + 1) \div m
           b == (t + 1) % m
<1>0. t + m \in Int /\ t + 1 + m \in Int /\ t + 1 \in Int
  OBVIOUS
<1>1. r \in 0..(m - 1) /\ t + m = m * q + r /\ q \in Int
  BY <1>0, DivisionIs
<1>2. s \in 0..(m - 1) /\ t + 1 + m = m * k + s /\ k \in Int
  BY <1>0, DivisionIs
<1>3. b \in 0..(m - 1) /\ t + 1 = m * a + b /\ a \in Int /\ b # 0
  BY <1>0, DivisionIs
<1> HIDE DEF q, r, k, s, a, b
<1> DEFINE j == k - 1
<1>4. m * j + s = m * a + b /\ j \in Int
  BY <1>2, <1>3
<1> HIDE DEF j
<1>5. s # 0
  <2>0. s \in 0..(m - 1) /\ b \in 0..(m - 1) /\ a \in Int
    BY <1>2, <1>3
  <2>1. j = a /\ s = b
    BY <1>4, <2>0, DivisionIsUnique
  <2> QED
    BY <1>3, <2>1
<1>6. m * k + (s - 1) = m * q + r /\ s - 1 \in 0..(m - 1)
  BY <1>1, <1>2, <1>5
<1>7. k = q
  BY <1>1, <1>2, <1>6, DivisionIsUnique
<1> QED
  BY <1>7 DEF k, q

-----------------------------------------------------------------------------
(* The request budget.                                                     *)

LEMMA BudgetConstants ==
  /\ IsFiniteSet(Requests) /\ \A r \in Requests : WeightOf[r] \in Nat
  /\ BudgetLimit \in Nat /\ BudgetEnd \in Nat /\ MaxSkew \in Nat /\ MaxOthers \in Nat
  /\ Minutes \in Nat \ {0} /\ MaxSkew < Minutes
<1>1. Budget!IsFiniteSet(Requests) => IsFiniteSet(Requests)
  BY DEF Budget!IsFiniteSet, IsFiniteSet
<1> QED
  BY <1>1, BudgetAssumption DEF Budget!BudgetAssumption

LEMMA OursIs == \A R : Budget!Ours(R) = SumFunctionOnSet(WeightOf, R)
  BY DEF Budget!Ours, Budget!SumFunctionOnSet, SumFunctionOnSet, Budget!FoldFunctionOnSet,
    FoldFunctionOnSet, Budget!MapThenFoldSet, MapThenFoldSet

(* Our weight of a set of requests.                                        *)
LEMMA OursAddsUp ==
  /\ Budget!Ours({}) = 0
  /\ \A T \in SUBSET Requests : Budget!Ours(T) \in Nat
  /\ \A T \in SUBSET Requests : \A r \in Requests \ T :
       Budget!Ours(T \cup {r}) = Budget!Ours(T) + WeightOf[r]
  /\ \A T \in SUBSET Requests : \A V \in SUBSET T : Budget!Ours(V) <= Budget!Ours(T)
  /\ \A T \in SUBSET Requests : \A V \in SUBSET Requests :
       T \cap V = {} => Budget!Ours(T \cup V) = Budget!Ours(T) + Budget!Ours(V)
<1>1. ASSUME NEW r \in Requests PROVE WeightOf[r] \in Int
  <2>1. WeightOf[r] \in Nat
    BY BudgetConstants
  <2> QED
    BY <2>1
<1>2. /\ Budget!Ours({}) = 0
      /\ \A T \in SUBSET Requests : Budget!Ours(T) \in Int
      /\ \A T \in SUBSET Requests : \A r \in Requests \ T :
           Budget!Ours(T \cup {r}) = Budget!Ours(T) + WeightOf[r]
  BY <1>1, BudgetConstants, SumSteps, OursIs
<1>3. \A T \in SUBSET Requests : \A V \in SUBSET T :
        0 <= Budget!Ours(V) /\ Budget!Ours(V) <= Budget!Ours(T)
  BY BudgetConstants, SumGrows, OursIs
<1>4. \A T \in SUBSET Requests : \A V \in SUBSET Requests :
       T \cap V = {} => Budget!Ours(T \cup V) = Budget!Ours(T) + Budget!Ours(V)
  BY <1>1, BudgetConstants, SumApart, OursIs
<1>5. \A T \in SUBSET Requests : Budget!Ours(T) \in Nat
  BY <1>2, <1>3
<1> QED
  BY <1>2, <1>3, <1>4, <1>5

LEMMA LargerOf == ASSUME NEW i \in Int, NEW j \in Int
                  PROVE  Budget!Max({i, j}) = IF i <= j THEN j ELSE i
<1>1. \E x \in {i, j} : \A y \in {i, j} : x >= y
  OBVIOUS
<1> QED
  BY <1>1 DEF Budget!Max

LEMMA BudgetStarts == ASSUME Budget!Init PROVE Budget!BudgetInv
<1> USE BudgetConstants DEF Budget!Init
<1>1. Budget!TypeOK
  BY DEF Budget!TypeOK
<1>2. Budget!Waiting = {} /\ Budget!Sent = {}
  BY DEF Budget!Waiting, Budget!Sent
<1>3. \A x : Budget!Ours(Budget!Untold(x)) = 0
  <2>1. \A x : Budget!Untold(x) = {}
    BY DEF Budget!Untold
  <2> QED
    BY <2>1, OursAddsUp
<1>4. Budget!Rolled = 0
  BY DEF Budget!Rolled
<1>5. Budget!Forgotten \in Nat
  BY DEF Budget!Forgotten
<1>6. Budget!FlightIsCounted /\ Budget!BudgetIsKept
  BY <1>2, <1>5, OursAddsUp DEF Budget!FlightIsCounted, Budget!BudgetIsKept
<1>7. Budget!UseIsKnown
  <2> SUFFICES ASSUME NEW x \in Budget!Rolled .. (Budget!Rolled + v8) PROVE Budget!Explained(x)
    BY DEF Budget!UseIsKnown
  <2>1. x = 0
    BY <1>4
  <2>2. Budget!Ours(Budget!Untold(x)) = 0
    BY <1>3
  <2> QED
    BY <1>5, <2>1, <2>2 DEF Budget!Explained
<1> QED
  BY <1>1, <1>6, <1>7 DEF Budget!BudgetInv

(* The bounds of what is told are no bounds.                               *)
LEMMA ExplainedBeyond ==
  ASSUME Budget!BudgetInv, NEW x \in Nat, Budget!Rolled <= x
  PROVE  Budget!Explained(x)
<1> USE BudgetConstants DEF Budget!BudgetInv, Budget!TypeOK
<1>1. Budget!Rolled \in Nat
  BY DEF Budget!Rolled
<1>2. CASE x <= Budget!Rolled + v8
  BY <1>1, <1>2 DEF Budget!UseIsKnown
<1>3. CASE x > Budget!Rolled + v8
  <2>1. Budget!Untold(x) \in SUBSET Requests
    BY DEF Budget!Untold
  <2>2. Budget!Ours(Budget!Untold(x)) \in Nat
    BY <2>1, OursAddsUp
  <2>3. Budget!Forgotten \in Nat
    BY DEF Budget!Forgotten
  <2>4. v9 <= v8
    BY DEF Budget!UseIsKnown
  <2> QED
    BY <1>1, <1>3, <2>2, <2>3, <2>4 DEF Budget!Explained
<1> QED
  BY <1>1, <1>2, <1>3

(* A tick of the clocks.                                                   *)
LEMMA MinutesPass ==
  ASSUME Budget!TypeOK, ~ ((v1 + 1 - v2) % Minutes = 0 /\ v1 + 1 >= v2)
  PROVE  /\ Budget!Minute(v1 + 1) = Budget!Minute(v1)
         /\ \/ Budget!Window(v1 + 1) = Budget!Window(v1) /\ (Budget!Crossed => (v1 + 1) % Minutes < (v1 + 1 - v2) % Minutes)
            \/ ~ Budget!Crossed /\ (v1 + 1) % Minutes < (v1 + 1 - v2) % Minutes
<1> DEFINE a == v1 % Minutes
           b == (v1 - v2) % Minutes
           c == (v1 + 1) % Minutes
           d == (v1 - v2 + 1) % Minutes
<1>0. v1 \in Int /\ v1 - v2 \in Int /\ v1 + 1 - v2 = v1 - v2 + 1 /\ Minutes \in Nat \ {0}
  BY BudgetConstants DEF Budget!TypeOK
<1>a. v1 \in Nat /\ v2 \in Nat /\ v2 < Minutes
  BY BudgetConstants DEF Budget!TypeOK
<1>1. d # 0
  <2> SUFFICES ASSUME d = 0, v1 + 1 < v2 PROVE FALSE
    BY <1>0, <1>a
  <2> DEFINE t == v1 - v2 + 1
             q == t \div Minutes
  <2>1. t \in Int /\ -Minutes < t /\ t < 0
    BY <1>0, <1>a
  <2>2. t = Minutes * q + (t % Minutes) /\ q \in Int
    BY <1>0, <2>1, DivisionIs
  <2>3. t % Minutes = 0
    OBVIOUS
  <2> HIDE DEF t, q
  <2>4. Minutes * q + 0 = Minutes * (-1) + (t + Minutes) /\ t + Minutes \in 0..(Minutes - 1)
    BY <1>0, <2>1, <2>2, <2>3
  <2>5. t + Minutes = 0
    BY <1>0, <2>2, <2>4, DivisionIsUnique
  <2> QED
    BY <1>0, <2>1, <2>5
<1>2. c = IF a = Minutes - 1 THEN 0 ELSE a + 1
  BY <1>0, NextRemainder
<1>3. d = IF b = Minutes - 1 THEN 0 ELSE b + 1
  BY <1>0, NextRemainder
<1>4. a \in 0..(Minutes - 1) /\ b \in 0..(Minutes - 1)
  BY <1>0, DivisionIs
<1>5. Budget!Minute(v1 + 1) = Budget!Minute(v1)
  <2>1. (v1 - v2 + 1 + Minutes) \div Minutes = (v1 - v2 + Minutes) \div Minutes
    BY <1>0, <1>1, SameQuotient
  <2> QED
    BY <1>0, <1>a, <2>1 DEF Budget!Minute
<1>6. (v1 + 1 - v2) % Minutes = d
  BY <1>0
<1>7. Budget!Window(v1 + 1) = v1 + 1 - c /\ Budget!Window(v1) = v1 - a
  BY <1>0 DEF Budget!Window
<1>9. Budget!Crossed <=> a < b
  BY DEF Budget!Crossed
<1> HIDE DEF a, b, c, d
<1>8. \/ v1 + 1 - c = v1 - a /\ (a < b => c < d)
      \/ ~ (a < b) /\ c < d
  BY <1>0, <1>a, <1>1, <1>2, <1>3, <1>4
<1> QED
  BY <1>5, <1>6, <1>7, <1>8, <1>9 DEF c

LEMMA BudgetTypes ==
  ASSUME Budget!TypeOK, Budget!Next
  PROVE  Budget!TypeOK'
<1> USE BudgetConstants DEF Budget!TypeOK
<1>1. CASE Budget!Tick
  BY <1>1 DEF Budget!Tick
<1>2. CASE Budget!Others
  BY <1>2 DEF Budget!Others
<1>3. ASSUME NEW r \in Requests, UNCHANGED <<v1, v2, v11>>,
             Budget!Acquire(r) \/ Budget!Execute(r) \/ Budget!Respond(r) \/ Budget!GiveUp(r)
               \/ Budget!ArriveLate(r)
      PROVE  Budget!TypeOK'
  <2> DEFINE Steps == {"idle", "sent", "done", "late", "over"}
             Record == [step : Steps, header : Nat, minute : Int]
  <2>0. v7[r] \in Record /\ WeightOf[r] \in Nat
    OBVIOUS
  <2>1. Budget!Rolled \in Nat /\ Budget!Window(v1) \in Nat
    <3>1. v1 % Minutes \in 0..(Minutes - 1) /\ v1 = Minutes * (v1 \div Minutes) + (v1 % Minutes)
          /\ v1 \div Minutes \in Int
      <4>1. v1 \in Int
        OBVIOUS
      <4> QED
        BY <4>1, DivisionIs
    <3>2. v1 - (v1 % Minutes) >= 0
      <4> DEFINE q == v1 \div Minutes
                 a == v1 % Minutes
      <4>1. a < Minutes /\ v1 = Minutes * q + a /\ v1 >= 0 /\ q \in Int /\ a \in Int
        BY <3>1
      <4> HIDE DEF a, q
      <4>2. q >= 0
        <5>1. q <= -1 => Minutes * q <= -Minutes
          BY <4>1
        <5> QED
          BY <4>1, <5>1
      <4>3. Minutes * q >= 0 /\ Minutes * q \in Int
        BY <4>1, <4>2
      <4>4. v1 - a >= 0
        BY <4>1, <4>3
      <4> QED
        BY <4>4 DEF a
    <3> QED
      BY <3>1, <3>2 DEF Budget!Rolled, Budget!Window
  <2>2. \A n, m \in Nat : Budget!Max({n, m}) \in Nat
    <3> SUFFICES ASSUME NEW n \in Nat, NEW m \in Nat PROVE Budget!Max({n, m}) \in Nat
      OBVIOUS
    <3> QED
      BY LargerOf
  <2>3. Budget!Landed(r) \in Nat
    <3>1. v5 - WeightOf[r] \in Int
      BY <2>0
    <3> QED
      BY <3>1, LargerOf DEF Budget!Landed
  <2>4. Budget!Minute(v1) \in Int
    <3>1. v1 - v2 + Minutes \in Int
      OBVIOUS
    <3> QED
      BY <3>1, DivisionIs DEF Budget!Minute
  <2>5. v7' \in [Requests -> Record]
    <3>1. \A e \in Record : [v7 EXCEPT ![r] = e] \in [Requests -> Record]
      OBVIOUS
    <3>2. \A x \in Steps : [v7[r] EXCEPT !.step = x] \in Record
      BY <2>0
    <3>3. CASE Budget!Execute(r)
      <4>1. v8' \in Nat /\ v7' = [v7 EXCEPT ![r] = [step |-> "done", header |-> v8', minute |-> Budget!Minute(v1)]]
        BY <2>0, <3>3 DEF Budget!Execute, Budget!Executed
      <4>2. [step |-> "done", header |-> v8', minute |-> Budget!Minute(v1)] \in Record
        BY <2>4, <4>1
      <4> QED
        BY <3>1, <4>1, <4>2
    <3>4. CASE ~ Budget!Execute(r)
      <4>1. PICK x \in Steps : v7' = [v7 EXCEPT ![r].step = x]
        BY <1>3, <3>4 DEF Budget!Acquire, Budget!Respond, Budget!GiveUp, Budget!ArriveLate
      <4>2. v7' = [v7 EXCEPT ![r] = [v7[r] EXCEPT !.step = x]]
        BY <4>1
      <4> QED
        BY <3>1, <3>2, <4>2
    <3> QED
      BY <3>3, <3>4
  <2>6. {v4', v5'} \subseteq Nat
    <3>1. v7[r].header \in Nat
      BY <2>0
    <3> QED
      BY <1>3, <2>0, <2>1, <2>2, <2>3, <3>1 DEF Budget!Acquire, Budget!Execute, Budget!Respond,
        Budget!GiveUp, Budget!ArriveLate, Budget!Executed, Budget!Release, Budget!ReleaseUnanswered
  <2>7. {v3', v6'} \subseteq Nat
    <3>1. v1 + Minutes \in Nat
      OBVIOUS
    <3> QED
      BY <1>3, <2>1, <2>2, <3>1 DEF Budget!Acquire, Budget!Execute, Budget!Respond,
        Budget!GiveUp, Budget!ArriveLate, Budget!Executed, Budget!Release, Budget!ReleaseUnanswered, Budget!Roll
  <2>8. {v8', v9', v10'} \subseteq Nat
    BY <1>3, <2>0 DEF Budget!Acquire, Budget!Execute, Budget!Respond,
        Budget!GiveUp, Budget!ArriveLate, Budget!Executed
  <2> QED
    BY <1>3, <2>5, <2>6, <2>7, <2>8
<1> QED
  BY <1>1, <1>2, <1>3 DEF Budget!Next, Budget!RequestStep

(* The sets of requests the invariant speaks of, and their weight.         *)
LEMMA RequestSets ==
  ASSUME Budget!BudgetInv
  PROVE  /\ Budget!Sent \in SUBSET Requests /\ Budget!Waiting \in SUBSET Requests
         /\ \A x : Budget!Untold(x) \in SUBSET Requests
         /\ Budget!Ours(Budget!Sent) \in Nat /\ Budget!Ours(Budget!Waiting) \in Nat
         /\ \A x : Budget!Ours(Budget!Untold(x)) \in Nat
         /\ \A x : Budget!Ours(Budget!Sent) + Budget!Ours(Budget!Untold(x)) <= Budget!Ours(Budget!Waiting)
         /\ Budget!Forgotten \in Nat /\ Budget!Rolled \in Nat
<1>1. /\ Budget!Sent \in SUBSET Requests /\ Budget!Waiting \in SUBSET Requests
      /\ \A x : Budget!Untold(x) \in SUBSET Requests
  BY DEF Budget!Sent, Budget!Waiting, Budget!Untold
<1>2. /\ Budget!Ours(Budget!Sent) \in Nat /\ Budget!Ours(Budget!Waiting) \in Nat
      /\ \A x : Budget!Ours(Budget!Untold(x)) \in Nat
  BY <1>1, OursAddsUp
<1>3. ASSUME NEW x
      PROVE  Budget!Ours(Budget!Sent) + Budget!Ours(Budget!Untold(x)) <= Budget!Ours(Budget!Waiting)
  <2> DEFINE S == Budget!Sent
             U == Budget!Untold(x)
  <2>1. S \cap U = {} /\ S \cup U \in SUBSET Budget!Waiting
    BY DEF Budget!Sent, Budget!Waiting, Budget!Untold
  <2>2. S \in SUBSET Requests /\ U \in SUBSET Requests
    BY <1>1
  <2> HIDE DEF S, U
  <2>3. Budget!Ours(S \cup U) = Budget!Ours(S) + Budget!Ours(U)
    BY <2>1, <2>2, OursAddsUp
  <2>4. Budget!Ours(S \cup U) <= Budget!Ours(Budget!Waiting)
    BY <1>1, <2>1, OursAddsUp
  <2>5. Budget!Ours(S) + Budget!Ours(U) <= Budget!Ours(Budget!Waiting)
    BY <2>3, <2>4
  <2> QED
    BY <2>5 DEF S, U
<1>4. Budget!Forgotten \in Nat /\ Budget!Rolled \in Nat
  BY BudgetConstants DEF Budget!Forgotten, Budget!Rolled, Budget!BudgetInv, Budget!TypeOK
<1> QED
  BY <1>1, <1>2, <1>3, <1>4

LEMMA BudgetTick ==
  ASSUME Budget!BudgetInv, Budget!Tick, Budget!TypeOK'
  PROVE  Budget!BudgetInv'
<1> DEFINE new == (v1 + 1 - v2) % Minutes = 0 /\ v1 + 1 >= v2
<1>0. /\ v1' = v1 + 1 /\ v2' = v2 /\ v3' = v3 /\ v4' = v4 /\ v5' = v5 /\ v7' = v7
      /\ v8' = IF new THEN 0 ELSE v8
      /\ v9' = IF new THEN 0 ELSE v9
      /\ v10' = IF new THEN 0 ELSE v10
  BY DEF Budget!Tick, Budget!BudgetInv, Budget!TypeOK
<1>1. Budget!TypeOK
  BY DEF Budget!BudgetInv
<1>a. v8 \in Nat /\ v9 \in Nat /\ v10 \in Nat /\ v5 \in Nat /\ BudgetLimit \in Nat
  BY <1>1, BudgetConstants DEF Budget!TypeOK
<1>2. Budget!Sent' = Budget!Sent /\ Budget!Waiting' = Budget!Waiting
  BY <1>0 DEF Budget!Sent, Budget!Waiting
<1>3. Budget!FlightIsCounted'
  BY <1>0, <1>2 DEF Budget!FlightIsCounted, Budget!BudgetInv, Budget!Ours
<1>4. \A x : Budget!Untold(x)' \in SUBSET Requests
  BY <1>0 DEF Budget!Untold
<1>5. \A x : Budget!Ours(Budget!Untold(x)') \in Nat
  BY <1>4, OursAddsUp
<1>6. Budget!Forgotten' \in Nat /\ Budget!Rolled' \in Nat
  BY BudgetConstants DEF Budget!Forgotten, Budget!Rolled, Budget!TypeOK
<1>7. Budget!UseIsKnown' /\ Budget!BudgetIsKept'
  <2>1. CASE new
    <3>1. v9' = 0 /\ v10' = 0 /\ v8' = 0
      BY <1>0, <2>1
    <3>2. Budget!BudgetIsKept'
      <4>1. Budget!Ours(Budget!Sent) <= Budget!Ours(Budget!Waiting)
        BY RequestSets
      <4>2. Budget!Ours(Budget!Waiting) <= v5 /\ v5 <= BudgetLimit
        BY DEF Budget!BudgetInv, Budget!FlightIsCounted
      <4>3. Budget!Ours(Budget!Sent) \in Nat /\ Budget!Ours(Budget!Waiting) \in Nat
        BY RequestSets
      <4>4. 0 + Budget!Ours(Budget!Sent) <= 0 + BudgetLimit + Budget!Forgotten'
        BY <1>a, <1>6, <4>1, <4>2, <4>3
      <4> QED
        BY <1>2, <3>1, <4>4 DEF Budget!BudgetIsKept, Budget!Ours
    <3>3. ASSUME NEW x \in Nat PROVE Budget!Explained(x)'
      BY <1>5, <1>6, <3>1 DEF Budget!Explained, Budget!Ours
    <3>4. \A x \in Budget!Rolled' .. (Budget!Rolled' + v8') : Budget!Explained(x)'
      BY <1>6, <3>1, <3>3
    <3> QED
      BY <3>1, <3>2, <3>4 DEF Budget!UseIsKnown
  <2>2. CASE ~ new
    <3>1. v9' = v9 /\ v10' = v10 /\ v8' = v8
      BY <1>0, <2>2
    <3>2. /\ Budget!Minute(v1 + 1) = Budget!Minute(v1)
          /\ \/ /\ Budget!Window(v1 + 1) = Budget!Window(v1)
                /\ Budget!Crossed => (v1 + 1) % Minutes < (v1 + 1 - v2) % Minutes
             \/ ~ Budget!Crossed /\ (v1 + 1) % Minutes < (v1 + 1 - v2) % Minutes
      BY <1>1, <2>2, MinutesPass
    <3>3. Budget!Crossed' <=> (v1 + 1) % Minutes < (v1 + 1 - v2) % Minutes
      BY <1>0, <1>1 DEF Budget!Crossed, Budget!TypeOK
    <3>4. Budget!Forgotten <= Budget!Forgotten'
      BY <1>a, <3>2, <3>3 DEF Budget!Forgotten
    <3>5. Budget!BudgetIsKept'
      <4>1. v9 + Budget!Ours(Budget!Sent) <= v10 + BudgetLimit + Budget!Forgotten
        BY DEF Budget!BudgetInv, Budget!BudgetIsKept
      <4>2. Budget!Ours(Budget!Sent) \in Nat /\ Budget!Forgotten \in Nat
        BY RequestSets
      <4>3. v9 + Budget!Ours(Budget!Sent) <= v10 + BudgetLimit + Budget!Forgotten'
        BY <1>a, <1>6, <3>4, <4>1, <4>2
      <4> QED
        BY <1>2, <3>1, <4>3 DEF Budget!BudgetIsKept, Budget!Ours
    <3>6. \A x : Budget!Untold(x)' = Budget!Untold(x)
      <4>1. Budget!Minute(v1)' = Budget!Minute(v1 + 1)
        BY <1>0 DEF Budget!Minute
      <4> QED
        BY <1>0, <3>2, <4>1 DEF Budget!Untold
    <3>7. ASSUME NEW x \in Nat, Budget!Rolled' <= x PROVE Budget!Explained(x)'
      <4>0. Budget!Ours(Budget!Untold(x)) \in Nat /\ Budget!Forgotten \in Nat
        BY RequestSets
      <4>1. CASE Budget!Window(v1 + 1) = Budget!Window(v1)
        <5>1. Budget!Rolled' = Budget!Rolled
          BY <1>0, <4>1 DEF Budget!Rolled, Budget!Window
        <5>2. Budget!Explained(x)
          BY <3>7, <5>1, ExplainedBeyond
        <5>3. v9 <= v10 + Budget!Forgotten + x + Budget!Ours(Budget!Untold(x))
          BY <5>2 DEF Budget!Explained
        <5>4. v9 <= v10 + Budget!Forgotten' + x + Budget!Ours(Budget!Untold(x))
          BY <1>a, <1>6, <3>4, <4>0, <5>3
        <5> QED
          BY <3>1, <3>6, <5>4 DEF Budget!Explained, Budget!Ours
      <4>2. CASE ~ Budget!Crossed /\ (v1 + 1) % Minutes < (v1 + 1 - v2) % Minutes
        <5>1. Budget!Forgotten = 0 /\ Budget!Forgotten' = BudgetLimit
          BY <3>3, <4>2 DEF Budget!Forgotten
        <5>2. v9 + Budget!Ours(Budget!Sent) <= v10 + BudgetLimit + 0
          BY <5>1 DEF Budget!BudgetInv, Budget!BudgetIsKept
        <5>3. Budget!Ours(Budget!Sent) \in Nat
          BY RequestSets
        <5>4. v9 <= v10 + Budget!Forgotten' + x + Budget!Ours(Budget!Untold(x))
          BY <1>a, <4>0, <5>1, <5>2, <5>3
        <5> QED
          BY <3>1, <3>6, <5>4 DEF Budget!Explained, Budget!Ours
      <4> QED
        BY <3>2, <4>1, <4>2
    <3>8. v9' <= v8'
      BY <3>1 DEF Budget!BudgetInv, Budget!UseIsKnown
    <3>9. \A x \in Budget!Rolled' .. (Budget!Rolled' + v8') : Budget!Explained(x)'
      BY <1>6, <1>a, <3>1, <3>7
    <3> QED
      BY <3>5, <3>8, <3>9 DEF Budget!UseIsKnown
  <2> QED
    BY <2>1, <2>2
<1> QED
  BY <1>3, <1>7 DEF Budget!BudgetInv

(* What is known of the use, after a step that does not tick: for every    *)
(* number that is no less than what was told.                              *)
LEMMA UseStaysKnown ==
  ASSUME Budget!TypeOK', v9' <= v8',
         \A x \in Nat : Budget!Rolled' <= x => Budget!Explained(x)'
  PROVE  Budget!UseIsKnown'
<1>1. Budget!Rolled' \in Nat /\ v8' \in Nat
  BY DEF Budget!Rolled, Budget!TypeOK
<1>2. \A x \in Budget!Rolled' .. (Budget!Rolled' + v8') : Budget!Explained(x)'
  BY <1>1
<1> QED
  BY <1>2 DEF Budget!UseIsKnown

LEMMA BudgetOthers ==
  ASSUME Budget!BudgetInv, Budget!Others, Budget!TypeOK'
  PROVE  Budget!BudgetInv'
<1>1. v1' = v1 /\ v2' = v2 /\ v3' = v3 /\ v4' = v4 /\ v5' = v5 /\ v7' = v7 /\ v8' = v8 + 1
      /\ v9' = v9 /\ v10' = v10
  BY DEF Budget!Others
<1>2. v8 \in Nat /\ v9 \in Nat /\ v9 <= v8
  BY DEF Budget!BudgetInv, Budget!TypeOK, Budget!UseIsKnown
<1>3. Budget!Rolled' = Budget!Rolled /\ Budget!Forgotten' = Budget!Forgotten
  BY <1>1 DEF Budget!Rolled, Budget!Window, Budget!Forgotten, Budget!Crossed
<1>4. ASSUME NEW x \in Nat, Budget!Rolled' <= x PROVE Budget!Explained(x)'
  <2>1. Budget!Explained(x)
    BY <1>3, <1>4, ExplainedBeyond
  <2>2. Budget!Untold(x)' = Budget!Untold(x)
    BY <1>1 DEF Budget!Untold, Budget!Minute
  <2> QED
    BY <1>1, <1>3, <2>1, <2>2 DEF Budget!Explained, Budget!Ours
<1>5. v9' <= v8'
  BY <1>1, <1>2
<1>6. Budget!UseIsKnown'
  BY <1>4, <1>5, UseStaysKnown
<1>7. Budget!FlightIsCounted' /\ Budget!BudgetIsKept'
  <2>1. Budget!Sent' = Budget!Sent /\ Budget!Waiting' = Budget!Waiting
    BY <1>1 DEF Budget!Sent, Budget!Waiting
  <2> QED
    BY <1>1, <1>3, <2>1 DEF Budget!FlightIsCounted, Budget!BudgetIsKept, Budget!BudgetInv, Budget!Ours
<1> QED
  BY <1>6, <1>7 DEF Budget!BudgetInv

(* A step of one request r.                                                *)
OfRequest(r) == r \in Requests /\ UNCHANGED <<v1, v2, v11>>

LEMMA RequestFrame ==
  ASSUME NEW r, OfRequest(r), Budget!BudgetInv
  PROVE  /\ Budget!Forgotten' = Budget!Forgotten
         /\ Budget!Minute(v1)' = Budget!Minute(v1)
         /\ Budget!Roll => Budget!Rolled' = v4'
         /\ UNCHANGED <<v3, v4>> => Budget!Rolled' = Budget!Rolled
         /\ {v1, v4, v5, v8, v9, v10, WeightOf[r], BudgetLimit, v7[r].header} \subseteq Nat
<1>1. /\ Budget!Forgotten' = Budget!Forgotten
      /\ Budget!Minute(v1)' = Budget!Minute(v1)
  BY DEF OfRequest, Budget!Forgotten, Budget!Crossed, Budget!Minute
<1>2. /\ Budget!Roll => Budget!Rolled' = v4'
      /\ UNCHANGED <<v3, v4>> => Budget!Rolled' = Budget!Rolled
  BY DEF OfRequest, Budget!Roll, Budget!Rolled, Budget!Window
<1>3. {v1, v4, v5, v8, v9, v10, WeightOf[r], BudgetLimit, v7[r].header} \subseteq Nat
  BY BudgetConstants DEF OfRequest, Budget!BudgetInv, Budget!TypeOK
<1> QED
  BY <1>1, <1>2, <1>3

LEMMA BudgetAcquire ==
  ASSUME NEW r, OfRequest(r), Budget!BudgetInv, Budget!Acquire(r), Budget!TypeOK'
  PROVE  Budget!BudgetInv'
<1>1. /\ v4' = Budget!Rolled /\ v5' = v5 + WeightOf[r] /\ v8' = v8 /\ v9' = v9 /\ v10' = v10
      /\ Budget!Roll /\ r \in Requests /\ v7[r].step = "idle"
      /\ v7' = [v7 EXCEPT ![r].step = "sent"]
      /\ Budget!Rolled + v5 + WeightOf[r] <= BudgetLimit
  BY DEF Budget!Acquire, OfRequest, Budget!Fits
<1>2. /\ v7'[r].step = "sent"
      /\ \A q \in Requests \ {r} : v7'[q] = v7[q]
  BY <1>1 DEF Budget!BudgetInv, Budget!TypeOK
<1>3. /\ Budget!Waiting' = Budget!Waiting \cup {r} /\ r \notin Budget!Waiting
      /\ Budget!Sent' = Budget!Sent \cup {r} /\ r \notin Budget!Sent
  BY <1>1, <1>2 DEF Budget!Waiting, Budget!Sent
<1>4. \A x : Budget!Untold(x)' = Budget!Untold(x)
  BY <1>1, <1>2, RequestFrame DEF Budget!Untold
<1>5. /\ Budget!Ours(Budget!Waiting \cup {r}) = Budget!Ours(Budget!Waiting) + WeightOf[r]
      /\ Budget!Ours(Budget!Sent \cup {r}) = Budget!Ours(Budget!Sent) + WeightOf[r]
  BY <1>1, <1>3, RequestSets, OursAddsUp
<1>6. /\ Budget!Ours(Budget!Sent) \in Nat /\ Budget!Ours(Budget!Waiting) \in Nat
      /\ Budget!Forgotten \in Nat /\ Budget!Rolled \in Nat
  BY RequestSets
<1>7. /\ Budget!Forgotten' = Budget!Forgotten /\ Budget!Rolled' = Budget!Rolled
      /\ {v1, v4, v5, v8, v9, v10, WeightOf[r], BudgetLimit} \subseteq Nat
  BY <1>1, RequestFrame
<1>8. Budget!FlightIsCounted'
  <2>1. Budget!Ours(Budget!Waiting) <= v5
    BY DEF Budget!BudgetInv, Budget!FlightIsCounted
  <2>2. Budget!Ours(Budget!Waiting) + WeightOf[r] <= v5 + WeightOf[r] /\ v5 + WeightOf[r] <= BudgetLimit
    BY <1>1, <1>6, <1>7, <2>1
  <2> QED
    BY <1>1, <1>3, <1>5, <2>2 DEF Budget!FlightIsCounted, Budget!Ours
<1>9. Budget!UseIsKnown'
  <2>1. ASSUME NEW x \in Nat, Budget!Rolled' <= x PROVE Budget!Explained(x)'
    <3>1. Budget!Explained(x)
      BY <1>7, <2>1, ExplainedBeyond
    <3> QED
      BY <1>1, <1>4, <1>7, <3>1 DEF Budget!Explained, Budget!Ours
  <2>2. v9' <= v8'
    BY <1>1 DEF Budget!BudgetInv, Budget!UseIsKnown
  <2> QED
    BY <2>1, <2>2, UseStaysKnown
<1>10. Budget!BudgetIsKept'
  <2> DEFINE R == Budget!Rolled
             U == Budget!Untold(R)
  <2>1. v9 <= v10 + Budget!Forgotten + R + Budget!Ours(U)
    <3>1. Budget!Explained(R)
      BY <1>6, ExplainedBeyond
    <3> QED
      BY <3>1 DEF Budget!Explained
  <2>2. Budget!Ours(Budget!Sent) + Budget!Ours(U) <= v5 /\ Budget!Ours(U) \in Nat
    <3>1. /\ Budget!Ours(Budget!Sent) + Budget!Ours(U) <= Budget!Ours(Budget!Waiting)
          /\ Budget!Ours(U) \in Nat
      BY RequestSets
    <3>2. Budget!Ours(Budget!Waiting) <= v5
      BY DEF Budget!BudgetInv, Budget!FlightIsCounted
    <3> QED
      BY <1>6, <1>7, <3>1, <3>2
  <2>3. R + v5 + WeightOf[r] <= BudgetLimit
    BY <1>1
  <2> HIDE DEF U
  <2>4. v9 + (Budget!Ours(Budget!Sent) + WeightOf[r]) <= v10 + BudgetLimit + Budget!Forgotten
    BY <1>6, <1>7, <2>1, <2>2, <2>3
  <2> QED
    BY <1>1, <1>3, <1>5, <1>7, <2>4 DEF Budget!BudgetIsKept, Budget!Ours
<1> QED
  BY <1>8, <1>9, <1>10 DEF Budget!BudgetInv

LEMMA BudgetExecute ==
  ASSUME NEW r, OfRequest(r), Budget!BudgetInv, Budget!Execute(r), Budget!TypeOK'
  PROVE  Budget!BudgetInv'
<1> DEFINE e == [step |-> "done", header |-> v8', minute |-> Budget!Minute(v1)]
<1>1. /\ v3' = v3 /\ v4' = v4 /\ v5' = v5 /\ v8' = v8 + WeightOf[r] /\ v9' = v9 + WeightOf[r] /\ v10' = v10
      /\ r \in Requests /\ v7[r].step = "sent"
      /\ v7' = [v7 EXCEPT ![r] = e]
  BY DEF Budget!Execute, Budget!Executed, OfRequest
<1>2. /\ v7'[r] = e
      /\ \A q \in Requests \ {r} : v7'[q] = v7[q]
  BY <1>1 DEF Budget!BudgetInv, Budget!TypeOK
<1>3. /\ Budget!Waiting' = Budget!Waiting
      /\ Budget!Sent = Budget!Sent' \cup {r} /\ r \notin Budget!Sent' /\ Budget!Sent' \in SUBSET Requests
  BY <1>1, <1>2 DEF Budget!Waiting, Budget!Sent
<1>4. /\ Budget!Forgotten' = Budget!Forgotten /\ Budget!Rolled' = Budget!Rolled
      /\ {v1, v4, v5, v8, v9, v10, WeightOf[r], BudgetLimit} \subseteq Nat
      /\ Budget!Minute(v1)' = Budget!Minute(v1)
  BY <1>1, RequestFrame
<1>5. Budget!Ours(Budget!Sent) = Budget!Ours(Budget!Sent') + WeightOf[r] /\ Budget!Ours(Budget!Sent') \in Nat
  <2> DEFINE S == Budget!Sent'
  <2>1. Budget!Ours(S \cup {r}) = Budget!Ours(S) + WeightOf[r] /\ Budget!Ours(S) \in Nat
    BY <1>1, <1>3, OursAddsUp
  <2> QED
    BY <1>3, <2>1
<1>6. Budget!FlightIsCounted'
  BY <1>1, <1>3 DEF Budget!FlightIsCounted, Budget!BudgetInv, Budget!Ours
<1>7. Budget!BudgetIsKept'
  <2>1. v9 + Budget!Ours(Budget!Sent) <= v10 + BudgetLimit + Budget!Forgotten
    BY DEF Budget!BudgetInv, Budget!BudgetIsKept
  <2>2. Budget!Forgotten \in Nat
    BY RequestSets
  <2>3. (v9 + WeightOf[r]) + Budget!Ours(Budget!Sent') <= v10 + BudgetLimit + Budget!Forgotten
    BY <1>4, <1>5, <2>1, <2>2
  <2> QED
    BY <1>1, <1>4, <2>3 DEF Budget!BudgetIsKept, Budget!Ours
<1>8. v9 <= v8
  BY DEF Budget!BudgetInv, Budget!UseIsKnown
<1>9. ASSUME NEW x \in Nat, Budget!Rolled' <= x PROVE Budget!Explained(x)'
  <2>1. Budget!Forgotten \in Nat /\ Budget!Ours(Budget!Untold(x)) \in Nat
    BY RequestSets
  <2>2. CASE v8 + WeightOf[r] <= x
    <3>1. Budget!Untold(x)' \in SUBSET Requests
      BY DEF Budget!Untold
    <3>2. Budget!Ours(Budget!Untold(x)') \in Nat
      BY <3>1, OursAddsUp
    <3>3. v9 + WeightOf[r] <= v10 + Budget!Forgotten + x + Budget!Ours(Budget!Untold(x)')
      BY <1>4, <1>8, <2>1, <2>2, <3>2
    <3> QED
      BY <1>1, <1>4, <3>3 DEF Budget!Explained, Budget!Ours
  <2>3. CASE v8 + WeightOf[r] > x
    <3> DEFINE U == Budget!Untold(x)
    <3>1. Budget!Untold(x)' = U \cup {r} /\ r \notin U /\ U \in SUBSET Requests
      BY <1>1, <1>2, <1>4, <2>3 DEF Budget!Untold
    <3> HIDE DEF U
    <3>2. Budget!Ours(U \cup {r}) = Budget!Ours(U) + WeightOf[r]
      BY <1>1, <3>1, OursAddsUp
    <3>3. Budget!Explained(x)
      BY <1>4, <1>9, ExplainedBeyond
    <3>4. v9 <= v10 + Budget!Forgotten + x + Budget!Ours(U)
      BY <3>3 DEF Budget!Explained, U
    <3>5. Budget!Ours(U) \in Nat
      BY <2>1 DEF U
    <3>6. v9 + WeightOf[r] <= v10 + Budget!Forgotten + x + Budget!Ours(U \cup {r})
      BY <1>4, <2>1, <3>2, <3>4, <3>5
    <3> QED
      BY <1>1, <1>4, <3>1, <3>6 DEF Budget!Explained, Budget!Ours
  <2> QED
    BY <1>4, <2>2, <2>3
<1>10. v9' <= v8'
  BY <1>1, <1>4, <1>8
<1>11. Budget!UseIsKnown'
  BY <1>9, <1>10, UseStaysKnown
<1> QED
  BY <1>6, <1>7, <1>11 DEF Budget!BudgetInv

(* A request that is over, or given up, is out of the sets.                *)
LEMMA RequestLeaves ==
  ASSUME NEW r, OfRequest(r), Budget!BudgetInv,
         NEW s \in {"late", "over"}, v7' = [v7 EXCEPT ![r].step = s]
  PROVE  /\ Budget!Waiting' = Budget!Waiting \ {r} /\ Budget!Sent' = Budget!Sent \ {r}
         /\ \A x : Budget!Untold(x)' = Budget!Untold(x) \ {r}
<1>1. r \in Requests /\ v7'[r].step = s
      /\ \A q \in Requests \ {r} : v7'[q] = v7[q]
  BY DEF OfRequest, Budget!BudgetInv, Budget!TypeOK
<1>2. Budget!Minute(v1)' = Budget!Minute(v1)
  BY RequestFrame
<1> QED
  BY <1>1, <1>2 DEF Budget!Waiting, Budget!Sent, Budget!Untold

(* What is left of the weight of a set without r.                          *)
LEMMA OursWithout ==
  ASSUME NEW T \in SUBSET Requests, NEW r \in Requests
  PROVE  Budget!Ours(T \ {r}) = IF r \in T THEN Budget!Ours(T) - WeightOf[r] ELSE Budget!Ours(T)
<1>1. CASE r \in T
  <2> DEFINE V == T \ {r}
  <2>1. V \in SUBSET Requests /\ r \in Requests \ V /\ V \cup {r} = T
    BY <1>1
  <2> HIDE DEF V
  <2>2. Budget!Ours(V \cup {r}) = Budget!Ours(V) + WeightOf[r] /\ Budget!Ours(V) \in Nat
    BY <2>1, OursAddsUp
  <2>3. WeightOf[r] \in Nat
    BY BudgetConstants
  <2>a. Budget!Ours(V \cup {r}) = Budget!Ours(T)
    BY <2>1
  <2>4. Budget!Ours(V) = Budget!Ours(T) - WeightOf[r]
    BY <2>2, <2>3, <2>a
  <2> QED
    BY <1>1, <2>4 DEF V
<1>2. CASE r \notin T
  <2>1. T \ {r} = T
    BY <1>2
  <2> QED
    BY <1>2, <2>1
<1> QED
  BY <1>1, <1>2

(* A request that was in flight lands.                                     *)
LEMMA FlightLands ==
  ASSUME NEW r, OfRequest(r), Budget!BudgetInv, v7[r].step \in {"sent", "done"},
         Budget!Waiting' = Budget!Waiting \ {r}, v5' = Budget!Landed(r)
  PROVE  Budget!FlightIsCounted'
<1>1. r \in Requests /\ r \in Budget!Waiting
  BY DEF OfRequest, Budget!Waiting
<1>2. Budget!Ours(Budget!Waiting \ {r}) = Budget!Ours(Budget!Waiting) - WeightOf[r]
  BY <1>1, RequestSets, OursWithout
<1>3. {v5, WeightOf[r], BudgetLimit} \subseteq Nat
  BY RequestFrame
<1>4. Budget!Ours(Budget!Waiting) \in Nat /\ Budget!Ours(Budget!Waiting) <= v5 /\ v5 <= BudgetLimit
  BY RequestSets DEF Budget!BudgetInv, Budget!FlightIsCounted
<1>5. v5' = IF 0 <= v5 - WeightOf[r] THEN v5 - WeightOf[r] ELSE 0
  <2>1. v5 - WeightOf[r] \in Int
    BY <1>3
  <2>2. Budget!Max({0, v5 - WeightOf[r]}) = IF 0 <= v5 - WeightOf[r] THEN v5 - WeightOf[r] ELSE 0
    BY <2>1, LargerOf
  <2> QED
    BY <2>2 DEF Budget!Landed
<1>6. Budget!Ours(Budget!Waiting) - WeightOf[r] <= v5' /\ v5' <= BudgetLimit
  BY <1>3, <1>4, <1>5
<1> QED
  BY <1>2, <1>6 DEF Budget!FlightIsCounted, Budget!Ours

LEMMA BudgetRespond ==
  ASSUME NEW r, OfRequest(r), Budget!BudgetInv, Budget!Respond(r), Budget!TypeOK'
  PROVE  Budget!BudgetInv'
<1>1. /\ v4' = Budget!Max({Budget!Rolled, v7[r].header}) /\ v5' = Budget!Landed(r)
      /\ v8' = v8 /\ v9' = v9 /\ v10' = v10
      /\ Budget!Roll /\ r \in Requests /\ v7[r].step = "done"
      /\ v7' = [v7 EXCEPT ![r].step = "over"]
  BY DEF Budget!Respond, Budget!Release, OfRequest
<1>2. /\ Budget!Waiting' = Budget!Waiting \ {r} /\ Budget!Sent' = Budget!Sent \ {r}
      /\ \A x : Budget!Untold(x)' = Budget!Untold(x) \ {r}
  BY <1>1, RequestLeaves
<1>3. Budget!FlightIsCounted'
  BY <1>1, <1>2, FlightLands
<1>4. /\ Budget!Forgotten' = Budget!Forgotten /\ Budget!Rolled' = v4'
      /\ {v1, v4, v5, v8, v9, v10, WeightOf[r], BudgetLimit, v7[r].header} \subseteq Nat
  BY <1>1, RequestFrame
<1>5. Budget!BudgetIsKept'
  <2>1. Budget!Sent' = Budget!Sent
    BY <1>1, <1>2 DEF Budget!Sent
  <2> QED
    BY <1>1, <1>4, <2>1 DEF Budget!BudgetIsKept, Budget!BudgetInv, Budget!Ours
<1>6. Budget!Rolled' \in Nat /\ Budget!Rolled <= Budget!Rolled' /\ v7[r].header <= Budget!Rolled'
  <2>1. Budget!Rolled \in Nat
    BY RequestSets
  <2>2. Budget!Rolled \in Int /\ v7[r].header \in Int
    BY <1>4, <2>1
  <2>3. v4' = IF Budget!Rolled <= v7[r].header THEN v7[r].header ELSE Budget!Rolled
    BY <1>1, <2>2, LargerOf
  <2> QED
    BY <1>4, <2>1, <2>3
<1>7. ASSUME NEW x \in Nat, Budget!Rolled' <= x PROVE Budget!Explained(x)'
  <2>1. Budget!Rolled <= x /\ v7[r].header <= x
    <3>1. Budget!Rolled \in Nat
      BY RequestSets
    <3> QED
      BY <1>4, <1>6, <1>7, <3>1
  <2>2. Budget!Explained(x)
    BY <2>1, ExplainedBeyond
  <2>3. Budget!Untold(x)' = Budget!Untold(x)
    <3>1. ~ (v7[r].header > x)
      BY <1>4, <2>1
    <3>2. r \notin Budget!Untold(x)
      BY <3>1 DEF Budget!Untold
    <3> QED
      BY <1>2, <3>2
  <2> QED
    BY <1>1, <1>4, <2>2, <2>3 DEF Budget!Explained, Budget!Ours
<1>8. Budget!UseIsKnown'
  <2>1. v9' <= v8'
    BY <1>1 DEF Budget!BudgetInv, Budget!UseIsKnown
  <2> QED
    BY <1>7, <2>1, UseStaysKnown
<1> QED
  BY <1>3, <1>5, <1>8 DEF Budget!BudgetInv

LEMMA BudgetGiveUp ==
  ASSUME NEW r, OfRequest(r), Budget!BudgetInv, Budget!GiveUp(r), Budget!TypeOK'
  PROVE  Budget!BudgetInv'
<1> DEFINE counted == v7[r].step = "done" /\ v7[r].minute = Budget!Minute(v1)
<1>1. /\ v4' = Budget!Rolled + WeightOf[r] /\ v5' = Budget!Landed(r)
      /\ v8' = v8 /\ v9' = v9 /\ v10' = IF counted THEN v10 + WeightOf[r] ELSE v10
      /\ Budget!Roll /\ r \in Requests /\ v7[r].step \in {"sent", "done"}
  BY DEF Budget!GiveUp, Budget!ReleaseUnanswered, OfRequest
<1>2. PICK s \in {"late", "over"} : v7' = [v7 EXCEPT ![r].step = s]
  BY DEF Budget!GiveUp
<1>3. /\ Budget!Waiting' = Budget!Waiting \ {r} /\ Budget!Sent' = Budget!Sent \ {r}
      /\ \A x : Budget!Untold(x)' = Budget!Untold(x) \ {r}
  BY <1>2, RequestLeaves
<1>4. Budget!FlightIsCounted'
  BY <1>1, <1>3, FlightLands
<1>5. /\ Budget!Forgotten' = Budget!Forgotten /\ Budget!Rolled' = v4'
      /\ {v1, v4, v5, v8, v9, v10, WeightOf[r], BudgetLimit} \subseteq Nat
  BY <1>1, RequestFrame
<1>6. /\ Budget!Forgotten \in Nat /\ Budget!Rolled \in Nat
      /\ Budget!Ours(Budget!Sent) \in Nat /\ \A x : Budget!Ours(Budget!Untold(x)) \in Nat
  BY RequestSets
<1>7. v10 <= v10'
  BY <1>1, <1>5
<1>8. Budget!BudgetIsKept'
  <2>1. Budget!Ours(Budget!Sent \ {r}) <= Budget!Ours(Budget!Sent)
        /\ Budget!Ours(Budget!Sent \ {r}) \in Nat
    <3>1. Budget!Sent \in SUBSET Requests /\ Budget!Sent \ {r} \in SUBSET Requests
          /\ Budget!Sent \ {r} \in SUBSET Budget!Sent
      BY RequestSets
    <3> QED
      BY <3>1, OursAddsUp
  <2>2. v9 + Budget!Ours(Budget!Sent) <= v10 + BudgetLimit + Budget!Forgotten
    BY DEF Budget!BudgetInv, Budget!BudgetIsKept
  <2>3. v10' \in Nat
    BY DEF Budget!TypeOK
  <2>4. v9 + Budget!Ours(Budget!Sent \ {r}) <= v10' + BudgetLimit + Budget!Forgotten
    BY <1>5, <1>6, <1>7, <2>1, <2>2, <2>3
  <2> QED
    BY <1>1, <1>3, <1>5, <2>4 DEF Budget!BudgetIsKept, Budget!Ours
<1>9. ASSUME NEW x \in Nat, Budget!Rolled' <= x PROVE Budget!Explained(x)'
  <2>1. Budget!Rolled <= x
    BY <1>1, <1>5, <1>6, <1>9
  <2>2. v9 <= v10 + Budget!Forgotten + x + Budget!Ours(Budget!Untold(x))
    BY <2>1, ExplainedBeyond DEF Budget!Explained
  <2>3. Budget!Ours(Budget!Untold(x) \ {r}) =
          IF r \in Budget!Untold(x) THEN Budget!Ours(Budget!Untold(x)) - WeightOf[r]
          ELSE Budget!Ours(Budget!Untold(x))
    BY <1>1, RequestSets, OursWithout
  <2>4. r \in Budget!Untold(x) => counted
    BY DEF Budget!Untold
  <2>5. Budget!Ours(Budget!Untold(x)) \in Nat
    BY <1>6
  <2>6. v9 <= v10' + Budget!Forgotten + x + Budget!Ours(Budget!Untold(x) \ {r})
    <3>1. CASE r \in Budget!Untold(x)
      <4>1. v10' = v10 + WeightOf[r]
        BY <1>1, <2>4, <3>1
      <4> QED
        BY <1>5, <1>6, <2>2, <2>3, <2>5, <3>1, <4>1
    <3>2. CASE r \notin Budget!Untold(x)
      <4>1. v10' \in Nat
        BY DEF Budget!TypeOK
      <4> QED
        BY <1>5, <1>6, <1>7, <2>2, <2>3, <2>5, <3>2, <4>1
    <3> QED
      BY <3>1, <3>2
  <2> QED
    BY <1>1, <1>3, <1>5, <2>6 DEF Budget!Explained, Budget!Ours
<1>10. Budget!UseIsKnown'
  <2>1. v9' <= v8'
    BY <1>1 DEF Budget!BudgetInv, Budget!UseIsKnown
  <2> QED
    BY <1>9, <2>1, UseStaysKnown
<1> QED
  BY <1>4, <1>8, <1>10 DEF Budget!BudgetInv

LEMMA BudgetArrives ==
  ASSUME NEW r, OfRequest(r), Budget!BudgetInv, Budget!ArriveLate(r), Budget!TypeOK'
  PROVE  Budget!BudgetInv'
<1>1. /\ v3' = v3 /\ v4' = v4 /\ v5' = v5
      /\ v8' = v8 + WeightOf[r] /\ v9' = v9 + WeightOf[r] /\ v10' = v10 + WeightOf[r]
      /\ r \in Requests /\ v7[r].step = "late"
      /\ v7' = [v7 EXCEPT ![r].step = "over"]
  BY DEF Budget!ArriveLate, Budget!Executed, OfRequest
<1>2. /\ Budget!Waiting' = Budget!Waiting \ {r} /\ Budget!Sent' = Budget!Sent \ {r}
      /\ \A x : Budget!Untold(x)' = Budget!Untold(x) \ {r}
  BY <1>1, RequestLeaves
<1>3. /\ Budget!Waiting' = Budget!Waiting /\ Budget!Sent' = Budget!Sent
      /\ \A x : Budget!Untold(x)' = Budget!Untold(x)
  <2>1. r \notin Budget!Waiting /\ r \notin Budget!Sent /\ \A x : r \notin Budget!Untold(x)
    BY <1>1 DEF Budget!Waiting, Budget!Sent, Budget!Untold
  <2> QED
    BY <1>2, <2>1
<1>4. /\ Budget!Forgotten' = Budget!Forgotten /\ Budget!Rolled' = Budget!Rolled
      /\ {v1, v4, v5, v8, v9, v10, WeightOf[r], BudgetLimit} \subseteq Nat
  BY <1>1, RequestFrame
<1>5. /\ Budget!Forgotten \in Nat /\ Budget!Ours(Budget!Sent) \in Nat
      /\ \A x : Budget!Ours(Budget!Untold(x)) \in Nat
  BY RequestSets
<1>6. Budget!FlightIsCounted'
  BY <1>1, <1>3 DEF Budget!FlightIsCounted, Budget!BudgetInv, Budget!Ours
<1>7. Budget!BudgetIsKept'
  <2>1. v9 + Budget!Ours(Budget!Sent) <= v10 + BudgetLimit + Budget!Forgotten
    BY DEF Budget!BudgetInv, Budget!BudgetIsKept
  <2>2. (v9 + WeightOf[r]) + Budget!Ours(Budget!Sent)
          <= (v10 + WeightOf[r]) + BudgetLimit + Budget!Forgotten
    BY <1>4, <1>5, <2>1
  <2> QED
    BY <1>1, <1>3, <1>4, <2>2 DEF Budget!BudgetIsKept, Budget!Ours
<1>8. ASSUME NEW x \in Nat, Budget!Rolled' <= x PROVE Budget!Explained(x)'
  <2>1. v9 <= v10 + Budget!Forgotten + x + Budget!Ours(Budget!Untold(x))
    BY <1>4, <1>8, ExplainedBeyond DEF Budget!Explained
  <2>2. Budget!Ours(Budget!Untold(x)) \in Nat
    BY <1>5
  <2>3. v9 + WeightOf[r] <= (v10 + WeightOf[r]) + Budget!Forgotten + x + Budget!Ours(Budget!Untold(x))
    BY <1>4, <1>5, <2>1, <2>2
  <2> QED
    BY <1>1, <1>3, <1>4, <2>3 DEF Budget!Explained, Budget!Ours
<1>9. Budget!UseIsKnown'
  <2>1. v9 <= v8
    BY DEF Budget!BudgetInv, Budget!UseIsKnown
  <2>2. v9' <= v8'
    BY <1>1, <1>4, <2>1
  <2> QED
    BY <1>8, <2>2, UseStaysKnown
<1> QED
  BY <1>6, <1>7, <1>9 DEF Budget!BudgetInv

LEMMA BudgetStep == ASSUME Budget!BudgetInv, Budget!Next PROVE Budget!BudgetInv'
<1>1. Budget!TypeOK'
  BY BudgetTypes DEF Budget!BudgetInv
<1>2. CASE Budget!Tick
  BY <1>1, <1>2, BudgetTick
<1>3. CASE Budget!Others
  BY <1>1, <1>3, BudgetOthers
<1>4. CASE Budget!RequestStep
  <2>1. PICK r \in Requests : Budget!Acquire(r) \/ Budget!Execute(r) \/ Budget!Respond(r)
          \/ Budget!GiveUp(r) \/ Budget!ArriveLate(r)
    BY <1>4 DEF Budget!RequestStep
  <2>2. OfRequest(r)
    BY <1>4 DEF Budget!RequestStep, OfRequest
  <2> QED
    BY <1>1, <2>1, <2>2, BudgetAcquire, BudgetExecute, BudgetRespond, BudgetGiveUp, BudgetArrives
<1> QED
  BY <1>2, <1>3, <1>4 DEF Budget!Next

LEMMA BudgetMeans == ASSUME Budget!BudgetInv PROVE Budget!WithinLimit
<1>1. v9 + Budget!Ours(Budget!Sent) <= v10 + BudgetLimit + Budget!Forgotten
  BY DEF Budget!BudgetInv, Budget!BudgetIsKept
<1>2. Budget!Ours(Budget!Sent) \in Nat /\ v9 \in Nat /\ v10 \in Nat /\ BudgetLimit \in Nat
  BY RequestSets, BudgetConstants DEF Budget!BudgetInv, Budget!TypeOK
<1>3. Budget!Forgotten <= BudgetLimit /\ Budget!Forgotten \in Nat
  BY <1>2 DEF Budget!Forgotten
<1>4. v2 = 0 => Budget!Forgotten = 0
  <2>1. v1 \in Int /\ v1 - 0 = v1
    BY DEF Budget!BudgetInv, Budget!TypeOK
  <2>2. v1 % Minutes \in Int
    BY <2>1, BudgetConstants, DivisionIs
  <2> QED
    BY <2>1, <2>2 DEF Budget!Forgotten, Budget!Crossed
<1> QED
  BY <1>1, <1>2, <1>3, <1>4 DEF Budget!WithinLimit

-----------------------------------------------------------------------------
(* The risk check.                                                         *)

LEMMA RiskCardinality == \A S : Risk!Cardinality(S) = Cardinality(S)
  BY DEF Risk!Cardinality, Cardinality

LEMMA RiskConstants ==
  /\ IsFiniteSet(Symbols) /\ RiskLots \subseteq Nat
  /\ max_gross_exposure \in Nat /\ max_positions \in Nat /\ max_orders_per_min \in Nat
  /\ max_new_positions_per_hour \in Nat /\ RiskMinute \in Nat /\ RiskHour \in Nat
<1>1. \A S : Risk!IsFiniteSet(S) => IsFiniteSet(S)
  BY DEF Risk!IsFiniteSet, IsFiniteSet
<1> QED
  BY <1>1, RiskAssumption DEF Risk!RiskAssumption

LEMMA RiskSumIs == \A f : Risk!SumFunction(f) = SumFunctionOnSet(f, DOMAIN f)
  BY DEF Risk!SumFunction, Risk!SumFunctionOnSet, SumFunctionOnSet, Risk!FoldFunctionOnSet,
    FoldFunctionOnSet, Risk!MapThenFoldSet, MapThenFoldSet

LEMMA RiskLargerOf ==
  ASSUME NEW n \in Int, NEW m \in Int
  PROVE  Risk!Max({n, m}) \in {n, m} /\ Risk!Max({n, m}) >= n /\ Risk!Max({n, m}) >= m
<1> DEFINE IsMax(x) == x \in {n, m} /\ \A y \in {n, m} : x >= y
<1>1. \E x \in {n, m} : IsMax(x)
  <2>1. CASE n >= m
    BY <2>1
  <2>2. CASE m >= n
    BY <2>2
  <2> QED
    BY <2>1, <2>2
<1>2. Risk!Max({n, m}) = CHOOSE x \in {n, m} : \A y \in {n, m} : x >= y
  BY DEF Risk!Max
<1>3. IsMax(Risk!Max({n, m}))
  BY <1>1, <1>2
<1> QED
  BY <1>3

LEMMA AbsoluteIs ==
  /\ \A n \in Int : /\ Risk!Absolute(n) \in Nat /\ Risk!Absolute(-n) = Risk!Absolute(n)
                    /\ Risk!Absolute(n) = 0 <=> n = 0
  /\ \A n, m \in Int :
       /\ Risk!Absolute(n + m) <= Risk!Absolute(n) + Risk!Absolute(m)
       /\ Risk!Absolute(n) <= Risk!Absolute(n + m) + Risk!Absolute(m)
       /\ n * m >= 0 => Risk!Absolute(n + m) = Risk!Absolute(n) + Risk!Absolute(m)
<1>1. ASSUME NEW n \in Int, NEW m \in Int, n * m >= 0
      PROVE  Risk!Absolute(n + m) = Risk!Absolute(n) + Risk!Absolute(m)
  <2>1. n > 0 /\ m < 0 => n * m < 0
    OBVIOUS
  <2>2. n < 0 /\ m > 0 => n * m < 0
    OBVIOUS
  <2> DEFINE k == n * m
  <2>3. k \in Int /\ k >= 0 /\ (n > 0 /\ m < 0 => k < 0) /\ (n < 0 /\ m > 0 => k < 0)
    BY <1>1, <2>1, <2>2
  <2> HIDE DEF k
  <2> QED
    BY <2>3 DEF Risk!Absolute
<1>2. \A n \in Int : /\ Risk!Absolute(n) \in Nat /\ Risk!Absolute(-n) = Risk!Absolute(n)
                     /\ Risk!Absolute(n) = 0 <=> n = 0
  BY DEF Risk!Absolute
<1>3. \A n, m \in Int :
       /\ Risk!Absolute(n + m) <= Risk!Absolute(n) + Risk!Absolute(m)
       /\ Risk!Absolute(n) <= Risk!Absolute(n + m) + Risk!Absolute(m)
  BY DEF Risk!Absolute
<1> QED
  BY <1>1, <1>2, <1>3

(* The gross exposure, when the position of one symbol changes.            *)
LEMMA GrossIs ==
  ASSUME Risk!TypeOK
  PROVE  /\ Risk!Gross = SumFunctionOnSet([s \in Symbols |-> Risk!Absolute(v2[s])], Symbols)
         /\ Risk!Gross \in Nat
<1> DEFINE f == [s \in Symbols |-> Risk!Absolute(v2[s])]
<1>1. Risk!Gross = SumFunctionOnSet(f, DOMAIN f)
  BY RiskSumIs DEF Risk!Gross
<1>2. DOMAIN f = Symbols
  OBVIOUS
<1>3. \A s \in Symbols : f[s] \in Nat
  BY AbsoluteIs DEF Risk!TypeOK
<1>4. SumFunctionOnSet(f, Symbols) \in Int
  <2>1. \A s \in Symbols : f[s] \in Int
    <3> SUFFICES ASSUME NEW s \in Symbols PROVE f[s] \in Int
      OBVIOUS
    <3>1. f[s] \in Nat
      BY <1>3
    <3> HIDE DEF f
    <3> QED
      BY <3>1
  <2> HIDE DEF f
  <2> QED
    BY <2>1, RiskConstants, SumSteps
<1>5. 0 <= SumFunctionOnSet(f, Symbols)
  <2> HIDE DEF f
  <2> QED
    BY <1>3, RiskConstants, SumGrows
<1> QED
  BY <1>1, <1>2, <1>4, <1>5

LEMMA GrossChanges ==
  ASSUME Risk!TypeOK, NEW s \in Symbols, NEW n \in Int, v2' = [v2 EXCEPT ![s] = n]
  PROVE  Risk!Gross' = Risk!Gross - Risk!Absolute(v2[s]) + Risk!Absolute(n)
<1> DEFINE f == [x \in Symbols |-> Risk!Absolute(v2[x])]
           g == [x \in Symbols |-> Risk!Absolute(v2'[x])]
<1>0. v2 \in [Symbols -> Int] /\ v2' \in [Symbols -> Int]
  BY DEF Risk!TypeOK
<1>1. Risk!Gross = SumFunctionOnSet(f, Symbols)
  BY GrossIs
<1>2. Risk!Gross' = SumFunctionOnSet(g, Symbols)
  <2>1. DOMAIN g = Symbols
    OBVIOUS
  <2>2. Risk!Gross' = Risk!SumFunction(g)
    BY DEF Risk!Gross, Risk!Absolute
  <2> HIDE DEF g
  <2> QED
    BY <2>1, <2>2, RiskSumIs
<1>3. \A x \in Symbols : f[x] \in Int /\ g[x] \in Int
  <2> SUFFICES ASSUME NEW x \in Symbols PROVE f[x] \in Int /\ g[x] \in Int
    OBVIOUS
  <2>1. v2[x] \in Int /\ v2'[x] \in Int
    BY <1>0
  <2>2. Risk!Absolute(v2[x]) \in Nat /\ Risk!Absolute(v2'[x]) \in Nat
    BY <2>1, AbsoluteIs
  <2> QED
    BY <2>2
<1>4. f[s] = Risk!Absolute(v2[s]) /\ g[s] = Risk!Absolute(n)
  BY <1>0
<1>5. \A x \in Symbols \ {s} : g[x] = f[x]
  BY <1>0
<1>6. SumFunctionOnSet(g, Symbols) = SumFunctionOnSet(f, Symbols) - f[s] + g[s]
  <2> HIDE DEF f, g
  <2> QED
    BY <1>3, <1>5, RiskConstants, SumChanges
<1> QED
  BY <1>1, <1>2, <1>4, <1>6

LEMMA RiskEntriesAre ==
  ASSUME Risk!TypeOK
  PROVE  /\ IsFiniteSet(Risk!Entries) /\ Risk!Entries \subseteq v3
         /\ \A o \in Risk!Entries : o.qty \in Int /\ Risk!Absolute(o.qty) \in Nat /\ o.symbol \in Symbols
<1>1. IsFiniteSet(v3)
  BY DEF Risk!TypeOK, Risk!IsFiniteSet, IsFiniteSet
<1>2. Risk!Entries \subseteq v3
  BY DEF Risk!Entries
<1>3. \A o \in v3 : o.qty \in Int /\ o.symbol \in Symbols
  BY DEF Risk!TypeOK
<1> QED
  BY <1>1, <1>2, <1>3, FS_Subset, AbsoluteIs

Sizes(S) == SumFunctionOnSet([o \in S |-> Risk!Absolute(o.qty)], S)

LEMMA BidIs == Risk!Bid = Sizes(Risk!Entries) /\ Risk!Bid' = Sizes(Risk!Entries')
<1> DEFINE f(S) == [o \in S |-> Risk!Absolute(o.qty)]
<1>1. \A S : DOMAIN f(S) = S
  OBVIOUS
<1>2. Risk!Bid = Risk!SumFunction(f(Risk!Entries))
  BY DEF Risk!Bid
<1>3. Risk!Bid' = Risk!SumFunction(f(Risk!Entries'))
  BY DEF Risk!Bid, Risk!Absolute
<1> QED
  BY <1>1, <1>2, <1>3, RiskSumIs DEF Sizes

LEMMA SizesOf ==
  ASSUME NEW S, IsFiniteSet(S), \A o \in S : Risk!Absolute(o.qty) \in Nat
  PROVE  /\ Sizes(S) \in Nat
         /\ \A T \in SUBSET S : Sizes(T) \in Nat /\ Sizes(T) <= Sizes(S)
         /\ \A o \in S : Sizes(S) = Sizes(S \ {o}) + Risk!Absolute(o.qty)
<1> DEFINE f == [o \in S |-> Risk!Absolute(o.qty)]
           s(T) == SumFunctionOnSet(f, T)
<1>1. ASSUME NEW T \in SUBSET S PROVE Sizes(T) = s(T)
  <2> DEFINE g == [o \in T |-> Risk!Absolute(o.qty)]
  <2>1. IsFiniteSet(T)
    BY FS_Subset
  <2>2. \A o \in T : g[o] \in Int /\ f[o] = g[o]
    OBVIOUS
  <2>3. SumFunctionOnSet(g, T) = SumFunctionOnSet(f, T)
    <3> HIDE DEF f, g
    <3> QED
      BY <2>1, <2>2, SumSame
  <2> QED
    BY <2>3 DEF Sizes
<1>2. \A o \in S : f[o] \in Nat /\ f[o] \in Int /\ f[o] = Risk!Absolute(o.qty)
  OBVIOUS
<1>3. /\ \A T \in SUBSET S : s(T) \in Int
      /\ \A T \in SUBSET S : \A x \in S \ T : s(T \cup {x}) = s(T) + f[x]
  <2> HIDE DEF f
  <2> QED
    BY <1>2, SumSteps
<1>4. \A T \in SUBSET S : \A V \in SUBSET T : 0 <= s(V) /\ s(V) <= s(T)
  <2> HIDE DEF f
  <2> QED
    BY <1>2, SumGrows
<1> HIDE DEF s, f
<1>5. ASSUME NEW o \in S PROVE Sizes(S) = Sizes(S \ {o}) + Risk!Absolute(o.qty)
  <2>1. (S \ {o}) \cup {o} = S /\ S \ {o} \in SUBSET S /\ o \in S \ (S \ {o})
    OBVIOUS
  <2>2. s((S \ {o}) \cup {o}) = s(S \ {o}) + f[o]
    BY <1>3, <2>1
  <2>3. s(S) = s(S \ {o}) + f[o]
    BY <2>1, <2>2
  <2> QED
    BY <1>1, <1>2, <2>1, <2>3
<1>6. \A T \in SUBSET S : Sizes(T) \in Nat /\ Sizes(T) <= Sizes(S)
  <2> SUFFICES ASSUME NEW T \in SUBSET S PROVE Sizes(T) \in Nat /\ Sizes(T) <= Sizes(S)
    OBVIOUS
  <2>1. s(T) \in Int /\ 0 <= s(T) /\ s(T) <= s(S)
    BY <1>3, <1>4
  <2> QED
    BY <1>1, <2>1
<1> QED
  BY <1>5, <1>6

(* A set of numbers has a least one.                                       *)
LEMMA Least ==
  ASSUME NEW S \in SUBSET Nat, S # {}
  PROVE  \E n \in S : \A m \in S : n <= m
<1>1. PICK n \in S : \A m \in S : <<m, n>> \notin OpToRel(<, Nat)
  BY NatLessThanWellFounded, WFMin
<1>2. \A i, j \in Nat : <<j, i>> \notin OpToRel(<, Nat) => i <= j
  BY DEF OpToRel
<1> QED
  BY <1>1, <1>2

(* What is dropped of the times is the front, and all of it is too old.    *)
LEMMA RecentIs ==
  ASSUME v1 \in Nat, NEW t \in Seq(Nat), NEW w \in Nat
  PROVE  \E n \in 0..Len(t) :
           /\ \A i \in 1..n : v1 - t[i] > w
           /\ Risk!Recent(t, w) = SubSeq(t, n + 1, Len(t))
<1> DEFINE Gone(n) == \A i \in 1..n : v1 - t[i] > w
           Old(n) == Gone(n) /\ (n < Len(t) => v1 - t[n + 1] <= w)
           S == {n \in Nat : n <= Len(t) /\ Gone(n) => \E m \in 0..Len(t) : Old(m)}
<1>0. Len(t) \in Nat /\ \A i \in 1..Len(t) : t[i] \in Nat
  OBVIOUS
<1>1. \E n \in 0..Len(t) : Old(n)
  <2> DEFINE Bad == {n \in 1..Len(t) : v1 - t[n] <= w}
  <2>1. CASE Bad = {}
    <3>0. \A i \in 1..Len(t) : t[i] \in Int /\ i \notin Bad
      BY <1>0, <2>1
    <3>1. \A i \in 1..Len(t) : v1 - t[i] > w
      BY <3>0
    <3>2. Old(Len(t))
      BY <1>0, <3>1
    <3> QED
      BY <3>2, <1>0
  <2>2. CASE Bad # {}
    <3>1. \E n \in Bad : \A m \in Bad : n <= m
      <4>1. Bad \subseteq Nat
        OBVIOUS
      <4> HIDE DEF Bad
      <4> QED
        BY <2>2, <4>1, Least
    <3>2. PICK n \in Bad : \A m \in Bad : n <= m
      BY <3>1
    <3>3. n \in 1..Len(t) /\ n - 1 \in 0..Len(t)
      BY <1>0
    <3>4. Gone(n - 1)
      BY <1>0, <3>2, <3>3
    <3>5. v1 - t[(n - 1) + 1] <= w
      BY <3>3
    <3>6. Old(n - 1)
      BY <3>4, <3>5
    <3> QED
      BY <3>3, <3>6
  <2> QED
    BY <2>1, <2>2
<1>2. Old(CHOOSE n \in 0..Len(t) : Old(n)) /\ (CHOOSE n \in 0..Len(t) : Old(n)) \in 0..Len(t)
  <2> HIDE DEF Old
  <2> QED
    BY <1>1
<1>3. Risk!Recent(t, w) = SubSeq(t, (CHOOSE n \in 0..Len(t) : Old(n)) + 1, Len(t))
  BY DEF Risk!Recent
<1> HIDE DEF Old
<1> DEFINE n == CHOOSE n \in 0..Len(t) : Old(n)
<1>4. n \in 0..Len(t) /\ Old(n) /\ Risk!Recent(t, w) = SubSeq(t, n + 1, Len(t))
  BY <1>2, <1>3
<1> HIDE DEF n
<1> QED
  BY <1>4 DEF Old

LEMMA RecentTypes ==
  ASSUME v1 \in Nat, NEW t \in Seq(Nat), NEW w \in Nat
  PROVE  Risk!Recent(t, w) \in Seq(Nat)
<1>1. PICK n \in 0..Len(t) : Risk!Recent(t, w) = SubSeq(t, n + 1, Len(t))
  BY RecentIs
<1> QED
  BY <1>1

LEMMA IntentsAre ==
  ASSUME Risk!TypeOK, NEW i, i \in Risk!Intents
  PROVE  /\ i.symbol \in Symbols /\ i.qty \in Int /\ i.reduce \in BOOLEAN /\ i.algo \in BOOLEAN
         /\ i.purpose # "flatten"
         /\ i.reduce => i.purpose = "exit"
         /\ Risk!Opening(i) <=> ~ i.reduce /\ i.purpose # "protect"
         /\ i.purpose = "protect" => i.algo
<1> USE DEF Risk!Opening
<1>0. v2 \in [Symbols -> Int] /\ RiskLots \subseteq Nat /\ Risk!Signed \subseteq Int
      /\ Risk!Held \subseteq Symbols
  <2>1. \A n \in RiskLots : n \in Int /\ -n \in Int
    BY RiskConstants
  <2>2. Risk!Signed \subseteq Int
    BY <2>1 DEF Risk!Signed
  <2>3. v2 \in [Symbols -> Int] /\ Risk!Held \subseteq Symbols
    BY DEF Risk!TypeOK, Risk!Held
  <2> QED
    BY <2>2, <2>3, RiskConstants
<1> DEFINE A == {[symbol |-> s, qty |-> q, purpose |-> "entry", reduce |-> FALSE, algo |-> FALSE] :
                   s \in Symbols, q \in Risk!Signed}
           B == {[symbol |-> s, qty |-> q, purpose |-> "drill", reduce |-> FALSE, algo |-> TRUE] :
                   s \in Symbols, q \in RiskLots}
           C == {[symbol |-> s, qty |-> -v2[s], purpose |-> "exit", reduce |-> TRUE, algo |-> FALSE] :
                   s \in Risk!Held}
           D == {[symbol |-> s, qty |-> 0, purpose |-> "protect", reduce |-> FALSE, algo |-> TRUE] :
                   s \in Symbols}
           Goal == /\ i.symbol \in Symbols /\ i.qty \in Int /\ i.reduce \in BOOLEAN
                   /\ i.algo \in BOOLEAN
                   /\ i.purpose # "flatten"
                   /\ i.reduce => i.purpose = "exit"
                   /\ Risk!Opening(i) <=> ~ i.reduce /\ i.purpose # "protect"
                   /\ i.purpose = "protect" => i.algo
<1>1. CASE i \in A
  <2>1. PICK s \in Symbols, q \in Risk!Signed :
           i = [symbol |-> s, qty |-> q, purpose |-> "entry", reduce |-> FALSE, algo |-> FALSE]
    BY <1>1
  <2> QED
    BY <1>0, <2>1
<1>2. CASE i \in B
  <2>1. PICK s \in Symbols, q \in RiskLots :
           i = [symbol |-> s, qty |-> q, purpose |-> "drill", reduce |-> FALSE, algo |-> TRUE]
    BY <1>2
  <2> QED
    BY <1>0, <2>1
<1>3. CASE i \in C
  <2>1. PICK s \in Risk!Held :
           i = [symbol |-> s, qty |-> -v2[s], purpose |-> "exit", reduce |-> TRUE, algo |-> FALSE]
    BY <1>3
  <2> QED
    BY <1>0, <2>1
<1>4. CASE i \in D
  <2>1. PICK s \in Symbols :
           i = [symbol |-> s, qty |-> 0, purpose |-> "protect", reduce |-> FALSE, algo |-> TRUE]
    BY <1>4
  <2> QED
    BY <2>1
<1>5. Risk!Intents = A \cup B \cup C \cup D
  BY DEF Risk!Intents
<1> HIDE DEF A, B, C, D
<1>6. i \in A \/ i \in B \/ i \in C \/ i \in D
  BY <1>5
<1> QED
  BY <1>1, <1>2, <1>3, <1>4, <1>6

(* The steps, one by one.                                                  *)
RiskSteps ==
  \/ \E i \in Risk!Intents : Risk!Place(i)
  \/ \E o \in v3 : Risk!Filled(o) \/ Risk!Cancelled(o)
  \/ \E s \in Symbols, q \in Int : Risk!Closes(s, q)
  \/ Risk!Tick \/ Risk!Crash

LEMMA RiskStepsAre == ASSUME Risk!TypeOK, Risk!Next PROVE RiskSteps
<1>1. \A s \in Symbols : Risk!Signed \cup {-v2[s]} \subseteq Int
  <2>1. \A n \in RiskLots : n \in Int /\ -n \in Int
    BY RiskConstants
  <2>2. Risk!Signed \subseteq Int
    BY <2>1 DEF Risk!Signed
  <2>3. \A s \in Symbols : -v2[s] \in Int
    BY DEF Risk!TypeOK
  <2> QED
    BY <2>2, <2>3
<1> QED
  BY <1>1 DEF Risk!Next, RiskSteps

(* What closes a position makes it smaller.                                *)
LEMMA ClosesIs ==
  ASSUME Risk!TypeOK, NEW s \in Symbols, NEW q \in Int, Risk!Closes(s, q)
  PROVE  /\ \E n \in Int : /\ v2' = [v2 EXCEPT ![s] = n] /\ v2[s] # 0
                            /\ Risk!Absolute(n) <= Risk!Absolute(v2[s])
         /\ UNCHANGED <<v1, v3, v4, v5, v6, v7, v8, v9>>
<1>1. /\ v2[s] \in Int /\ v2[s] * q < 0 /\ Risk!Absolute(q) <= Risk!Absolute(v2[s])
      /\ v2' = [v2 EXCEPT ![s] = v2[s] + q]
      /\ UNCHANGED <<v1, v3, v4, v5, v6, v7, v8, v9>>
  BY DEF Risk!Closes, Risk!TypeOK
<1>2. PICK p \in Int : p = v2[s]
  BY <1>1
<1>3. p * q < 0
  BY <1>1, <1>2
<1>4. (p > 0 /\ q < 0) \/ (p < 0 /\ q > 0)
  <2>1. p = 0 => p * q = 0
    OBVIOUS
  <2>2. p > 0 /\ q >= 0 => p * q >= 0
    OBVIOUS
  <2>3. p < 0 /\ q <= 0 => p * q >= 0
    OBVIOUS
  <2> DEFINE k == p * q
  <2>4. /\ p = 0 => k = 0
        /\ p > 0 /\ q >= 0 => k >= 0
        /\ p < 0 /\ q <= 0 => k >= 0
        /\ k < 0 /\ k \in Int
    BY <1>3, <2>1, <2>2, <2>3
  <2> HIDE DEF k
  <2> QED
    BY <2>4
<1>5. Risk!Absolute(p + q) <= Risk!Absolute(p) /\ p + q \in Int /\ p # 0
  BY <1>1, <1>2, <1>4 DEF Risk!Absolute
<1> QED
  BY <1>1, <1>2, <1>5

(* A stop that protects is counted, and that is all.                       *)
LEMMA ProtectIs ==
  ASSUME Risk!TypeOK, NEW i \in Risk!Intents, i.purpose = "protect", Risk!Place(i)
  PROVE  UNCHANGED <<v1, v2, v3, v7, v8, v9>>
<1>1. ~ Risk!Opening(i)
  BY IntentsAre
<1>2. v3' = v3
  BY DEF Risk!Place, Risk!Rests
<1> QED
  BY <1>1, <1>2 DEF Risk!Place

FillOf(o) ==
  IF ~ o.reduce THEN o.qty
  ELSE IF v2[o.symbol] * o.qty >= 0 THEN 0
  ELSE IF Risk!Absolute(o.qty) > Risk!Absolute(v2[o.symbol]) THEN -v2[o.symbol] ELSE o.qty

(* A fill, as a new position, which a reduce-only order makes smaller.     *)
LEMMA FilledIs ==
  ASSUME Risk!TypeOK, NEW o \in v3, Risk!Filled(o)
  PROVE  \E n \in Int :
           /\ o.symbol \in Symbols /\ o.qty \in Int
           /\ v2' = [v2 EXCEPT ![o.symbol] = n]
           /\ ~ o.reduce => n = v2[o.symbol] + o.qty
           /\ o.reduce => /\ Risk!Absolute(n) <= Risk!Absolute(v2[o.symbol])
                          /\ v2[o.symbol] = 0 => n = 0
<1> DEFINE s == o.symbol
           p == v2[s]
           q == o.qty
           f == FillOf(o)
<1>1. s \in Symbols /\ q \in Int /\ p \in Int /\ o.reduce \in BOOLEAN
  BY DEF Risk!TypeOK
<1>2. v2' = [v2 EXCEPT ![s] = @ + f]
  BY DEF Risk!Filled, FillOf
<1>3. f \in Int
  BY <1>1 DEF FillOf
<1>4. v2' = [v2 EXCEPT ![s] = p + f] /\ p + f \in Int
  BY <1>1, <1>2, <1>3
<1>5. ~ o.reduce => f = q
  BY DEF FillOf
<1>6. ASSUME o.reduce PROVE Risk!Absolute(p + f) <= Risk!Absolute(p) /\ (p = 0 => p + f = 0)
  <2>1. CASE p * q >= 0
    <3>1. f = 0
      BY <1>6, <2>1 DEF FillOf
    <3>2. p + f = p
      BY <1>1, <3>1
    <3>3. Risk!Absolute(p) \in Nat
      BY <1>1, AbsoluteIs
    <3> HIDE DEF p, f
    <3> QED
      BY <3>2, <3>3
  <2>2. CASE ~ p * q >= 0
    <3>1. p # 0 /\ (p > 0 => q < 0) /\ (p < 0 => q > 0)
      <4>1. p = 0 => p * q = 0
        BY <1>1
      <4>2. p > 0 /\ q >= 0 => p * q >= 0
        BY <1>1
      <4>3. p < 0 /\ q <= 0 => p * q >= 0
        BY <1>1
      <4> DEFINE k == p * q
      <4>4. /\ p = 0 => k = 0
            /\ p > 0 /\ q >= 0 => k >= 0
            /\ p < 0 /\ q <= 0 => k >= 0
            /\ ~ k >= 0
        BY <4>1, <4>2, <4>3, <2>2
      <4> HIDE DEF k, p, q
      <4> QED
        BY <4>4, <1>1
    <3>2. f = IF Risk!Absolute(q) > Risk!Absolute(p) THEN -p ELSE q
      BY <1>6, <2>2 DEF FillOf
    <3> HIDE DEF p, q, f
    <3> QED
      BY <1>1, <3>1, <3>2 DEF Risk!Absolute
  <2> QED
    BY <2>1, <2>2
<1> QED
  BY <1>1, <1>4, <1>5, <1>6

LEMMA RiskTypes ==
  ASSUME Risk!TypeOK, Risk!Next
  PROVE  Risk!TypeOK'
<1> USE RiskConstants
<1>0. /\ v1 \in Nat /\ v7 \in Nat /\ v8 \in Nat /\ v9 \in Nat /\ v2 \in [Symbols -> Int]
      /\ v3 \subseteq [id : Nat, symbol : Symbols, qty : Int, reduce : BOOLEAN]
      /\ IsFiniteSet(v3) /\ v4 \in Seq(Nat) /\ v5 \in Seq(Nat)
      /\ v6 \in Seq([t : Nat, opens : BOOLEAN])
  BY DEF Risk!TypeOK, Risk!IsFiniteSet, IsFiniteSet
<1>f. \A S : Risk!IsFiniteSet(S) <=> IsFiniteSet(S)
  BY DEF Risk!IsFiniteSet, IsFiniteSet
<1>s. \A S \in SUBSET v3 : IsFiniteSet(S)
  BY <1>0, FS_Subset
<1>1. ASSUME NEW i \in Risk!Intents, Risk!Place(i) PROVE Risk!TypeOK'
  <2> DEFINE new == [id |-> Len(v6), symbol |-> i.symbol, qty |-> i.qty, reduce |-> i.reduce]
             opens == ~ i.reduce /\ ~ i.algo /\ v2[i.symbol] = 0
  <2>0. Len(v6) \in Nat
    BY <1>0
  <2>1. v3' \in {v3, v3 \cup {new}} /\ new \in [id : Nat, symbol : Symbols, qty : Int, reduce : BOOLEAN]
    BY <2>0, IntentsAre, <1>1 DEF Risk!Place, Risk!Rests
  <2>2. IsFiniteSet(v3')
    <3> HIDE DEF new
    <3>1. IsFiniteSet(v3 \cup {new})
      BY <1>0, FS_AddElement
    <3> QED
      BY <1>0, <2>1, <3>1
  <2>3. v4' = Append(Risk!Recent(v4, RiskMinute), v1) /\ Risk!Recent(v4, RiskMinute) \in Seq(Nat)
    BY <1>0, RecentTypes, <1>1 DEF Risk!Place
  <2>4. v4' \in Seq(Nat)
    BY <1>0, <2>3
  <2>5. v5' \in Seq(Nat)
    <3>1. v5' = Risk!Recent(v5, RiskHour) \o (IF opens THEN <<v1>> ELSE <<>>)
      BY <1>1 DEF Risk!Place
    <3>2. (IF opens THEN <<v1>> ELSE <<>>) \in Seq(Nat)
      BY <1>0
    <3>3. Risk!Recent(v5, RiskHour) \in Seq(Nat)
      BY <1>0, RecentTypes
    <3> QED
      BY <3>1, <3>2, <3>3
  <2>6. v6' \in Seq([t : Nat, opens : BOOLEAN])
    <3>1. v6' = Append(v6, [t |-> v1, opens |-> opens])
      BY <1>1 DEF Risk!Place
    <3>2. opens \in BOOLEAN
      BY IntentsAre
    <3> HIDE DEF opens
    <3>3. [t |-> v1, opens |-> opens]
             \in [t : Nat, opens : BOOLEAN]
      BY <1>0, <3>2, IntentsAre
    <3> QED
      BY <1>0, <3>1, <3>3
  <2>7. v7' \in Nat
    <3>1. Risk!Unseen(i) \in Nat
      <4>1. Risk!Bid \in Nat
        BY BidIs, RiskEntriesAre, SizesOf
      <4>2. Risk!Absolute(i.qty) \in Nat
        BY IntentsAre, AbsoluteIs
      <4> QED
        BY <4>1, <4>2 DEF Risk!Unseen
    <3>2. Risk!Max({v7, Risk!Unseen(i)}) \in {v7, Risk!Unseen(i)}
      <4>1. v7 \in Int /\ Risk!Unseen(i) \in Int
        BY <1>0, <3>1
      <4> QED
        BY <4>1, RiskLargerOf
    <3> QED
      BY <1>0, <3>1, <3>2, <1>1 DEF Risk!Place
  <2>8. v8' \in Nat
    <3>1. Risk!UnseenPositions(i) \in Nat
      <4> DEFINE S == {o.symbol : o \in Risk!Entries} \ (Risk!Held \cup {i.symbol})
      <4>1. S \subseteq Symbols
        BY RiskEntriesAre
      <4>2. Cardinality(S) \in Nat
        <5> HIDE DEF S
        <5> QED
          BY <4>1, FS_Subset, FS_CardinalityType
      <4> QED
        BY <4>2, RiskCardinality DEF Risk!UnseenPositions
    <3>2. Risk!Max({v8, Risk!UnseenPositions(i)}) \in {v8, Risk!UnseenPositions(i)}
      <4>1. v8 \in Int /\ Risk!UnseenPositions(i) \in Int
        BY <1>0, <3>1
      <4> QED
        BY <4>1, RiskLargerOf
    <3> QED
      BY <1>0, <3>1, <3>2, <1>1 DEF Risk!Place
  <2>9. UNCHANGED <<v1, v2, v9>>
    BY <1>1 DEF Risk!Place
  <2>10. v3' \subseteq [id : Nat, symbol : Symbols, qty : Int, reduce : BOOLEAN]
    BY <1>0, <2>1
  <2> QED
    BY <1>0, <1>f, <2>2, <2>4, <2>5, <2>6, <2>7, <2>8, <2>9, <2>10 DEF Risk!TypeOK
<1>2. ASSUME NEW o \in v3, Risk!Filled(o) PROVE Risk!TypeOK'
  <2>1. v2' \in [Symbols -> Int]
    BY <1>0, FilledIs, <1>2
  <2>2. v3' \subseteq v3 /\ IsFiniteSet(v3') /\ UNCHANGED <<v1, v4, v5, v6, v7, v8, v9>>
    BY <1>s, <1>2 DEF Risk!Filled
  <2> QED
    BY <1>0, <1>f, <2>1, <2>2 DEF Risk!TypeOK
<1>3. ASSUME NEW o \in v3, Risk!Cancelled(o) PROVE Risk!TypeOK'
  <2>2. v3' \subseteq v3 /\ IsFiniteSet(v3') /\ UNCHANGED <<v1, v2, v4, v5, v6, v7, v8, v9>>
    BY <1>s, <1>3 DEF Risk!Cancelled
  <2> QED
    BY <1>0, <1>f, <2>2 DEF Risk!TypeOK
<1>4. ASSUME NEW s \in Symbols, NEW q \in Int, Risk!Closes(s, q) PROVE Risk!TypeOK'
  <2>1. v2' \in [Symbols -> Int]
    BY <1>0, <1>4, ClosesIs
  <2>2. UNCHANGED <<v1, v3, v4, v5, v6, v7, v8, v9>>
    BY <1>4, ClosesIs
  <2> QED
    BY <1>0, <1>f, <2>1, <2>2 DEF Risk!TypeOK
<1>5. ASSUME Risk!Tick PROVE Risk!TypeOK'
  <2>2. v1' = v1 + 1 /\ UNCHANGED <<v2, v3, v4, v5, v6, v7, v8, v9>>
    BY <1>5 DEF Risk!Tick
  <2> QED
    BY <1>0, <1>f, <2>2 DEF Risk!TypeOK
<1>6. ASSUME Risk!Crash PROVE Risk!TypeOK'
  <2>2. v9' = v9 + 1 /\ v4' = <<>> /\ v5' = <<>> /\ UNCHANGED <<v1, v2, v3, v6, v7, v8>>
    BY <1>6 DEF Risk!Crash
  <2> QED
    BY <1>0, <1>f, <2>2 DEF Risk!TypeOK
<1> QED
  BY <1>1, <1>2, <1>3, <1>4, <1>5, <1>6, RiskStepsAre DEF RiskSteps

(* What one step does to the orders that rest and to the positions.        *)
LEMMA PlaceIs ==
  ASSUME Risk!TypeOK, Risk!Numbered, NEW i \in Risk!Intents, Risk!Place(i), i.purpose # "protect"
  PROVE  \E o : /\ o.symbol = i.symbol /\ o.qty = i.qty /\ o.reduce = i.reduce /\ o.id = Len(v6)
                /\ v3' = v3 \cup {o} /\ o \notin v3
                /\ UNCHANGED v2
<1> DEFINE new == [id |-> Len(v6), symbol |-> i.symbol, qty |-> i.qty, reduce |-> i.reduce]
<1>1. v3' = v3 \cup {new} /\ UNCHANGED v2
  BY DEF Risk!Place, Risk!Rests
<1>2. new \notin v3
  <2>1. new.id = Len(v6) /\ Len(v6) \in Nat
    BY DEF Risk!TypeOK
  <2> HIDE DEF new
  <2> QED
    BY <2>1 DEF Risk!Numbered
<1> QED
  BY <1>1, <1>2

LEMMA RiskNumbered ==
  ASSUME Risk!TypeOK, Risk!Numbered, Risk!Past, Risk!Next
  PROVE  Risk!Numbered' /\ Risk!Past'
<1>0. v1 \in Nat /\ Len(v6) \in Nat /\ \A o \in v3 : o.id \in Nat
  BY DEF Risk!TypeOK
<1>1. ASSUME NEW i \in Risk!Intents, Risk!Place(i) PROVE Risk!Numbered' /\ Risk!Past'
  <2> DEFINE opens == ~ i.reduce /\ ~ i.algo /\ v2[i.symbol] = 0
             new == [t |-> v1, opens |-> opens]
  <2>1. v6' = Append(v6, new) /\ v1' = v1
    BY <1>1 DEF Risk!Place
  <2>2. new.t = v1
    OBVIOUS
  <2> HIDE DEF new
  <2>3. Len(v6') = Len(v6) + 1 /\ \A n \in DOMAIN v6' : v6'[n] = IF n = Len(v6) + 1 THEN new ELSE v6[n]
    BY <2>1 DEF Risk!TypeOK
  <2>4. Risk!Past'
    <3> SUFFICES ASSUME NEW n \in DOMAIN v6' PROVE v6'[n].t <= v1'
      BY DEF Risk!Past
    <3>1. CASE n = Len(v6) + 1
      BY <1>0, <2>1, <2>2, <2>3, <3>1
    <3>2. CASE n # Len(v6) + 1
      <4>1. n \in DOMAIN v6
        BY <2>1, <3>2 DEF Risk!TypeOK
      <4> QED
        BY <2>1, <2>3, <3>2, <4>1 DEF Risk!Past
    <3> QED
      BY <3>1, <3>2
  <2>5. v3' = v3 \/ \E o : o.id = Len(v6) /\ v3' = v3 \cup {o}
    BY <1>1, PlaceIs, ProtectIs
  <2>6. Risk!Numbered'
    BY <1>0, <2>3, <2>5 DEF Risk!Numbered
  <2> QED
    BY <2>4, <2>6
<1>2. ASSUME v3' \subseteq v3, UNCHANGED v6, v1' \in {v1, v1 + 1} PROVE Risk!Numbered' /\ Risk!Past'
  <2>1. \A n \in DOMAIN v6 : v6[n].t \in Nat
    <3>1. v6 \in Seq([t : Nat, opens : BOOLEAN])
      BY DEF Risk!TypeOK
    <3>2. \A n \in DOMAIN v6 : v6[n] \in [t : Nat, opens : BOOLEAN]
      <4> DEFINE R == [t : Nat, opens : BOOLEAN]
      <4> HIDE DEF R
      <4>1. v6 \in Seq(R)
        BY <3>1 DEF R
      <4>2. \A n \in DOMAIN v6 : v6[n] \in R
        BY <4>1
      <4> QED
        BY <4>2 DEF R
    <3> QED
      BY <3>2
  <2>2. Risk!Past'
    BY <1>0, <1>2, <2>1 DEF Risk!Past
  <2> QED
    BY <1>2, <2>2 DEF Risk!Numbered
<1>3. ASSUME ~ \E i \in Risk!Intents : Risk!Place(i)
      PROVE  v3' \subseteq v3 /\ UNCHANGED v6 /\ v1' \in {v1, v1 + 1}
  BY <1>3, RiskStepsAre DEF RiskSteps, Risk!Filled, Risk!Cancelled, Risk!Closes, Risk!Tick, Risk!Crash
<1> QED
  BY <1>1, <1>2, <1>3

(* The entries that rest, after each step.                                 *)
LEMMA EntriesChange ==
  ASSUME Risk!TypeOK, Risk!Numbered
  PROVE  /\ v3' \subseteq v3 => Risk!Entries' \subseteq Risk!Entries
         /\ \A o : v3' = v3 \cup {o} =>
              Risk!Entries' = IF o.reduce THEN Risk!Entries ELSE Risk!Entries \cup {o}
         /\ \A o : v3' = v3 \ {o} => Risk!Entries' = Risk!Entries \ {o}
BY DEF Risk!Entries

LEMMA BidFalls ==
  ASSUME Risk!TypeOK, Risk!Numbered, v3' \subseteq v3
  PROVE  Risk!Bid' <= Risk!Bid /\ Risk!Bid' \in Nat /\ Risk!Bid \in Nat
<1>1. Risk!Entries' \in SUBSET Risk!Entries
  BY EntriesChange
<1>2. IsFiniteSet(Risk!Entries) /\ \A o \in Risk!Entries : Risk!Absolute(o.qty) \in Nat
  BY RiskEntriesAre
<1>3. Sizes(Risk!Entries) \in Nat /\ Sizes(Risk!Entries') \in Nat
      /\ Sizes(Risk!Entries') <= Sizes(Risk!Entries)
  BY <1>1, <1>2, SizesOf
<1> QED
  BY <1>3, BidIs

LEMMA RiskGross ==
  ASSUME Risk!TypeOK, Risk!Numbered, Risk!GrossIsKnown, Risk!Next
  PROVE  Risk!GrossIsKnown'
<1>0. /\ v2 \in [Symbols -> Int] /\ v7 \in Nat /\ max_gross_exposure \in Nat
      /\ Risk!Gross \in Nat /\ Risk!Bid \in Nat
      /\ Risk!Gross + Risk!Bid <= max_gross_exposure + v7
  <2>1. Risk!Bid \in Nat
    BY BidIs, RiskEntriesAre, SizesOf
  <2> QED
    BY <2>1, RiskConstants, GrossIs DEF Risk!TypeOK, Risk!GrossIsKnown
<1>1. ASSUME NEW i \in Risk!Intents, Risk!Place(i), i.purpose # "protect" PROVE Risk!GrossIsKnown'
  <2> DEFINE s == i.symbol
             p == v2[s]
             q == i.qty
             u == Risk!Unseen(i)
             A(n) == Risk!Absolute(n)
  <2>1. s \in Symbols /\ q \in Int /\ p \in Int /\ i.reduce \in BOOLEAN /\ (Risk!Opening(i) <=> ~ i.reduce)
    BY <1>0, <1>1, IntentsAre
  <2>2. PICK o : o.qty = q /\ o.reduce = i.reduce /\ v3' = v3 \cup {o} /\ o \notin v3 /\ v2' = v2
    BY <1>1, PlaceIs
  <2>3. Risk!Gross' = Risk!Gross
    BY <2>2 DEF Risk!Gross, Risk!Absolute, Risk!SumFunction, Risk!SumFunctionOnSet,
      Risk!FoldFunctionOnSet, Risk!MapThenFoldSet
  <2>4. CASE i.reduce
    <3>1. Risk!Entries' = Risk!Entries
      BY <2>2, <2>4, EntriesChange
    <3>2. Risk!Bid' = Risk!Bid
      BY <3>1, BidIs
    <3>3. v7' = v7
      BY <1>1, <2>1, <2>4 DEF Risk!Place
    <3> QED
      BY <1>0, <2>3, <3>2, <3>3 DEF Risk!GrossIsKnown
  <2>5. CASE ~ i.reduce
    <3>1. Risk!Entries' = Risk!Entries \cup {o} /\ o \notin Risk!Entries
      BY <2>2, <2>5, EntriesChange DEF Risk!Entries
    <3>2. Risk!Bid' = Risk!Bid + A(q)
      <4>1. IsFiniteSet(Risk!Entries') /\ \A x \in Risk!Entries' : Risk!Absolute(x.qty) \in Nat
        <5>1. Risk!Absolute(o.qty) \in Nat
          BY <2>1, <2>2, AbsoluteIs
        <5>2. IsFiniteSet(Risk!Entries')
          BY <3>1, RiskEntriesAre, FS_AddElement
        <5> QED
          BY <3>1, <5>1, <5>2, RiskEntriesAre
      <4>2. Sizes(Risk!Entries') = Sizes(Risk!Entries' \ {o}) + Risk!Absolute(o.qty)
        BY <3>1, <4>1, SizesOf
      <4>3. Risk!Entries' \ {o} = Risk!Entries
        BY <3>1
      <4> QED
        BY <2>2, <4>2, <4>3, BidIs
    <3>3. A(p) \in Nat /\ A(q) \in Nat /\ A(p + q) \in Nat /\ A(p) <= A(p + q) + A(q)
          /\ (p * q >= 0 => A(p + q) = A(p) + A(q))
      <4>1. p + q \in Int
        BY <2>1
      <4> QED
        BY <2>1, <4>1, AbsoluteIs
    <3>4. u = Risk!Bid + (IF p * q < 0 THEN 2 * A(q) ELSE 0)
      BY DEF Risk!Unseen
    <3>5. v7' = Risk!Max({v7, u})
      BY <1>1, <2>1, <2>5 DEF Risk!Place
    <3>6. Risk!Gross + A(p + q) - A(p) <= max_gross_exposure
      BY <1>1, <2>1, <2>5 DEF Risk!Place, Risk!Allowed, Risk!Exposure, Risk!After
    <3>7. p * q \in Int
      BY <2>1
    <3> DEFINE k == p * q
    <3>8. k \in Int /\ (k >= 0 => A(p + q) = A(p) + A(q)) /\ u = Risk!Bid + (IF k < 0 THEN 2 * A(q) ELSE 0)
      BY <3>3, <3>4, <3>7
    <3> HIDE DEF k, u
    <3>9. u \in Int /\ v7 \in Int
      BY <1>0, <3>3, <3>8
    <3>10. v7' \in {v7, u} /\ v7' >= u
      BY <3>5, <3>9, RiskLargerOf
    <3>11. Risk!Gross' + Risk!Bid' <= max_gross_exposure + v7'
      <4> DEFINE x == A(p + q)
                 y == A(p)
                 z == A(q)
      <4>1. /\ x \in Nat /\ y \in Nat /\ z \in Nat /\ y <= x + z /\ (k >= 0 => x = y + z)
            /\ u = Risk!Bid + (IF k < 0 THEN 2 * z ELSE 0) /\ Risk!Gross + x - y <= max_gross_exposure
            /\ Risk!Bid' = Risk!Bid + z
        BY <3>2, <3>3, <3>6, <3>8
      <4> HIDE DEF x, y, z
      <4>2. Risk!Gross + Risk!Bid + z <= max_gross_exposure + u
        BY <1>0, <3>8, <4>1
      <4>3. v7' \in Int
        BY <3>9, <3>10
      <4>4. Risk!Gross' + Risk!Bid' = Risk!Gross + Risk!Bid + z
        BY <1>0, <2>3, <4>1
      <4>5. Risk!Gross + Risk!Bid + z \in Int
        BY <1>0, <4>1
      <4> QED
        BY <1>0, <3>9, <3>10, <4>2, <4>3, <4>4, <4>5
    <3> QED
      BY <3>11 DEF Risk!GrossIsKnown
  <2> QED
    BY <2>1, <2>4, <2>5
<1>2. ASSUME v3' \subseteq v3, Risk!Gross' \in Int, Risk!Gross' <= Risk!Gross, UNCHANGED v7
      PROVE  Risk!GrossIsKnown'
  <2>1. Risk!Bid' <= Risk!Bid /\ Risk!Bid' \in Nat
    BY <1>2, BidFalls
  <2>2. Risk!Gross' + Risk!Bid' <= max_gross_exposure + v7'
    <3>1. v7' = v7 /\ Risk!Gross' \in Int /\ Risk!Gross' <= Risk!Gross
      BY <1>2
    <3> DEFINE g == Risk!Gross
               b == Risk!Bid
               h == Risk!Gross'
               c == Risk!Bid'
               m == max_gross_exposure
    <3>2. /\ g \in Nat /\ b \in Nat /\ h \in Int /\ c \in Nat /\ m \in Nat /\ v7 \in Nat
          /\ g + b <= m + v7 /\ h <= g /\ c <= b /\ v7' = v7
      BY <1>0, <2>1, <3>1
    <3> HIDE DEF g, b, h, c, m
    <3>3. h + c <= m + v7'
      BY <3>2
    <3> QED
      BY <3>3 DEF h, c, m
  <2> QED
    BY <2>2 DEF Risk!GrossIsKnown
<1>3. ASSUME UNCHANGED v2 PROVE Risk!Gross' = Risk!Gross
    BY <1>3 DEF Risk!Gross, Risk!Absolute, Risk!SumFunction, Risk!SumFunctionOnSet,
      Risk!FoldFunctionOnSet, Risk!MapThenFoldSet
<1>4. ASSUME NEW o \in v3, Risk!Filled(o) PROVE Risk!GrossIsKnown'
  <2> DEFINE s == o.symbol
             A(n) == Risk!Absolute(n)
  <2>1. PICK n \in Int :
           /\ s \in Symbols /\ o.qty \in Int /\ v2' = [v2 EXCEPT ![s] = n]
           /\ ~ o.reduce => n = v2[s] + o.qty
           /\ o.reduce => A(n) <= A(v2[s])
    BY <1>4, FilledIs
  <2>2. Risk!Gross' = Risk!Gross - A(v2[s]) + A(n)
    BY <2>1, GrossChanges
  <2>3. v3' = v3 \ {o} /\ v7' = v7
    BY <1>4 DEF Risk!Filled
  <2>4. A(n) \in Nat /\ A(v2[s]) \in Nat
    BY <1>0, <2>1, AbsoluteIs
  <2>5. CASE o.reduce
    <3>1. Risk!Gross' \in Int /\ Risk!Gross' <= Risk!Gross
      <4>1. A(n) <= A(v2[s])
        BY <2>1, <2>5
      <4> QED
        BY <1>0, <2>2, <2>4, <4>1
    <3> QED
      BY <1>2, <2>3, <3>1
  <2>6. CASE ~ o.reduce
    <3>1. o \in Risk!Entries /\ Risk!Entries' = Risk!Entries \ {o}
      BY <2>3, <2>6, EntriesChange DEF Risk!Entries
    <3>2. Sizes(Risk!Entries) = Sizes(Risk!Entries \ {o}) + A(o.qty)
      BY <3>1, RiskEntriesAre, SizesOf
    <3>3. Risk!Bid = Risk!Bid' + A(o.qty)
      BY <3>1, <3>2, BidIs
    <3>4. Risk!Bid' \in Nat
      BY <2>3, BidFalls
    <3>5. A(n) <= A(v2[s]) + A(o.qty) /\ A(o.qty) \in Nat
      <4>1. v2[s] \in Int /\ o.qty \in Int /\ n = v2[s] + o.qty
        BY <1>0, <2>1, <2>6
      <4> QED
        BY <4>1, AbsoluteIs
    <3>6. Risk!Gross' + Risk!Bid' <= max_gross_exposure + v7'
      BY <1>0, <2>2, <2>3, <2>4, <3>3, <3>4, <3>5
    <3> QED
      BY <3>6 DEF Risk!GrossIsKnown
  <2> QED
    BY <2>5, <2>6
<1>5. ASSUME NEW s \in Symbols, NEW q \in Int, Risk!Closes(s, q) PROVE Risk!GrossIsKnown'
  <2>1. PICK n \in Int : /\ v2' = [v2 EXCEPT ![s] = n] /\ v3' = v3 /\ v7' = v7
                         /\ Risk!Absolute(n) <= Risk!Absolute(v2[s])
    BY <1>5, ClosesIs
  <2>2. Risk!Gross' = Risk!Gross - Risk!Absolute(v2[s]) + Risk!Absolute(n)
    BY <2>1, GrossChanges
  <2>3. Risk!Absolute(n) \in Nat /\ Risk!Absolute(v2[s]) \in Nat
    BY <1>0, AbsoluteIs
  <2>4. Risk!Gross' \in Int /\ Risk!Gross' <= Risk!Gross
    BY <1>0, <2>1, <2>2, <2>3
  <2> QED
    BY <1>2, <2>1, <2>4
<1>6. ASSUME \/ \E i \in Risk!Intents : Risk!Place(i) /\ i.purpose = "protect"
             \/ \E o \in v3 : Risk!Cancelled(o)
             \/ Risk!Tick \/ Risk!Crash
      PROVE  Risk!GrossIsKnown'
  <2>1. v3' \subseteq v3 /\ UNCHANGED <<v2, v7>>
    BY <1>6, ProtectIs DEF Risk!Cancelled, Risk!Tick, Risk!Crash
  <2>2. Risk!Gross' = Risk!Gross
    BY <1>3, <2>1
  <2> QED
    BY <1>0, <1>2, <2>1, <2>2
<1> QED
  BY <1>1, <1>4, <1>5, <1>6, RiskStepsAre DEF RiskSteps

Bidden == {o.symbol : o \in Risk!Entries}

(* Symbols that are held or bid for.                                       *)
LEMMA NumberKeeps ==
  ASSUME Risk!TypeOK, Risk!NumberIsKnown, v8 <= v8', v8' \in Nat,
         Risk!Held' \cup Bidden' \subseteq Risk!Held \cup Bidden
  PROVE  Risk!NumberIsKnown'
<1>1. Risk!Held \cup Bidden \subseteq Symbols
  BY RiskEntriesAre DEF Bidden, Risk!Held
<1> DEFINE S == Risk!Held \cup Bidden
           T == Risk!Held' \cup Bidden'
<1>2. IsFiniteSet(S) /\ S \in SUBSET Symbols /\ T \in SUBSET S
  BY <1>1, RiskConstants, FS_Subset
<1>3. Risk!Cardinality(S) <= max_positions + v8
  BY DEF Risk!NumberIsKnown, Bidden
<1>4. Cardinality(T) <= Cardinality(S) /\ Cardinality(T) \in Nat /\ Cardinality(S) \in Nat
  <2> HIDE DEF S, T
  <2> QED
    BY <1>2, FS_Subset, FS_CardinalityType
<1>5. Cardinality(T) <= max_positions + v8'
  <2>1. v8 \in Nat
    BY DEF Risk!TypeOK
  <2> HIDE DEF S, T
  <2> QED
    BY <1>3, <1>4, <2>1, RiskCardinality, RiskConstants
<1>6. Risk!Cardinality(T) <= max_positions + v8'
  <2> HIDE DEF T
  <2> QED
    BY <1>5, RiskCardinality
<1>7. Risk!NumberIsKnown' <=> Risk!Cardinality(T) <= max_positions + v8'
  BY DEF Risk!NumberIsKnown, Bidden, Risk!Cardinality
<1> QED
  BY <1>6, <1>7

LEMMA RiskNumber ==
  ASSUME Risk!TypeOK, Risk!TypeOK', Risk!Numbered, Risk!NumberIsKnown, Risk!Next
  PROVE  Risk!NumberIsKnown'
<1>0. v2 \in [Symbols -> Int] /\ v8 \in Nat /\ v8' \in Nat /\ max_positions \in Nat
  BY RiskConstants DEF Risk!TypeOK
<1>1. ASSUME v3' \subseteq v3, UNCHANGED v8, Risk!Held' \subseteq Risk!Held PROVE Risk!NumberIsKnown'
  <2>1. Bidden' \subseteq Bidden
    BY <1>1, EntriesChange DEF Bidden
  <2>2. v8 <= v8'
    BY <1>0, <1>1
  <2> QED
    BY <1>0, <1>1, <2>1, <2>2, NumberKeeps
<1>2. ASSUME NEW i \in Risk!Intents, Risk!Place(i), i.purpose # "protect" PROVE Risk!NumberIsKnown'
  <2> DEFINE s == i.symbol
             u == Risk!UnseenPositions(i)
  <2>1. s \in Symbols /\ i.reduce \in BOOLEAN /\ (Risk!Opening(i) <=> ~ i.reduce)
    BY <1>2, IntentsAre
  <2>2. PICK o : o.symbol = s /\ o.reduce = i.reduce /\ v3' = v3 \cup {o} /\ v2' = v2
    BY <1>2, PlaceIs
  <2>3. Risk!Held' = Risk!Held /\ Risk!Held \subseteq Symbols
    BY <2>2 DEF Risk!Held
  <2>4. CASE i.reduce
    <3>1. Risk!Entries' = Risk!Entries
      BY <2>2, <2>4, EntriesChange
    <3>2. Bidden' = Bidden
      BY <3>1 DEF Bidden
    <3>3. v8' = v8
      BY <1>2, <2>1, <2>4 DEF Risk!Place
    <3> QED
      BY <1>0, <2>3, <3>2, <3>3, NumberKeeps
  <2>5. CASE ~ i.reduce
    <3>1. Risk!Entries' = Risk!Entries \cup {o}
      BY <2>2, <2>5, EntriesChange
    <3>2. Bidden' = Bidden \cup {s}
      BY <2>2, <3>1 DEF Bidden
    <3>3. v8' = Risk!Max({v8, u})
      BY <1>2, <2>1, <2>5 DEF Risk!Place
    <3> DEFINE U == Bidden \ (Risk!Held \cup {s})
    <3>4. U \subseteq Symbols /\ u = Risk!Cardinality(U)
      BY RiskEntriesAre DEF Bidden, Risk!UnseenPositions
    <3>5. IsFiniteSet(U) /\ IsFiniteSet(Risk!Held)
      BY <2>3, <3>4, RiskConstants, FS_Subset
    <3>6. Cardinality(U) \in Nat /\ u = Cardinality(U)
      <4> HIDE DEF U
      <4> QED
        BY <3>4, <3>5, FS_CardinalityType, RiskCardinality
    <3>7. v8' >= v8 /\ v8' >= u
      <4>1. v8 \in Int /\ u \in Int
        BY <1>0, <3>6
      <4> HIDE DEF u
      <4> QED
        BY <3>3, <4>1, RiskLargerOf
    <3>8. CASE s \in Risk!Held
      <4>1. Risk!Held' \cup Bidden' \subseteq Risk!Held \cup Bidden
        BY <2>3, <3>2, <3>8
      <4> QED
        BY <1>0, <3>7, <4>1, NumberKeeps
    <3>9. CASE s \notin Risk!Held
      <4>1. Risk!Cardinality(Risk!Held) < max_positions
        <5>1. v2[s] = 0
          BY <2>1, <3>9 DEF Risk!Held
        <5> QED
          BY <1>2, <2>1, <2>5, <5>1 DEF Risk!Place, Risk!Allowed
      <4> DEFINE V == Risk!Held \cup {s}
                 T == Risk!Held' \cup Bidden'
      <4>2. T = V \cup U /\ V \cap U = {}
        BY <2>3, <3>2
      <4>3. IsFiniteSet(V) /\ Cardinality(V) = Cardinality(Risk!Held) + 1
        BY <3>5, <3>9, FS_AddElement
      <4>4. Cardinality(Risk!Held) \in Nat /\ Cardinality(Risk!Held) < max_positions
        BY <3>5, <4>1, FS_CardinalityType, RiskCardinality
      <4> HIDE DEF V, U, T
      <4>5. Cardinality(T) = Cardinality(V) + Cardinality(U)
        <5>1. Cardinality(V \cup U) = Cardinality(V) + Cardinality(U) - Cardinality(V \cap U)
          BY <3>5, <4>3, FS_Union
        <5>2. Cardinality(V \cap U) = 0
          BY <4>2, FS_EmptySet
        <5>3. Cardinality(V) \in Nat
          BY <4>3, FS_CardinalityType
        <5> QED
          BY <3>6, <4>2, <5>1, <5>2, <5>3
      <4>6. Cardinality(T) <= max_positions + v8'
        BY <1>0, <3>6, <3>7, <4>3, <4>4, <4>5
      <4>7. Risk!Cardinality(T) <= max_positions + v8'
        BY <4>6, RiskCardinality
      <4>8. Risk!NumberIsKnown' <=> Risk!Cardinality(T) <= max_positions + v8'
        BY DEF Risk!NumberIsKnown, Bidden, Risk!Cardinality, T
      <4> QED
        BY <4>7, <4>8
    <3> QED
      BY <3>8, <3>9
  <2> QED
    BY <2>1, <2>4, <2>5
<1>3. ASSUME NEW o \in v3, Risk!Filled(o) PROVE Risk!NumberIsKnown'
  <2> DEFINE s == o.symbol
  <2>1. PICK n \in Int : s \in Symbols /\ v2' = [v2 EXCEPT ![s] = n] /\ (o.reduce => (v2[s] = 0 => n = 0))
    BY <1>3, FilledIs
  <2>2. v3' = v3 \ {o} /\ v8' = v8
    BY <1>3 DEF Risk!Filled
  <2>3. CASE o.reduce
    <3>1. Risk!Held' \subseteq Risk!Held
      BY <1>0, <2>1, <2>3 DEF Risk!Held
    <3> QED
      BY <1>1, <2>2, <3>1
  <2>4. CASE ~ o.reduce
    <3>1. Risk!Held' \subseteq Risk!Held \cup {s}
      BY <1>0, <2>1 DEF Risk!Held
    <3>2. s \in Bidden
      BY <2>4 DEF Bidden, Risk!Entries
    <3>3. Bidden' \subseteq Bidden
      <4>1. Risk!Entries' \subseteq Risk!Entries
        BY <2>2, EntriesChange
      <4> QED
        BY <4>1 DEF Bidden
    <3>4. Risk!Held' \cup Bidden' \subseteq Risk!Held \cup Bidden
      BY <3>1, <3>2, <3>3
    <3>5. v8 <= v8'
      BY <1>0, <2>2
    <3> QED
      BY <1>0, <3>4, <3>5, NumberKeeps
  <2> QED
    BY <2>3, <2>4
<1>4. ASSUME NEW s \in Symbols, NEW q \in Int, Risk!Closes(s, q) PROVE Risk!NumberIsKnown'
  <2>1. (\E n \in Int : v2' = [v2 EXCEPT ![s] = n] /\ v2[s] # 0) /\ v3' = v3 /\ v8' = v8
    BY <1>4, ClosesIs
  <2>2. Risk!Held' \subseteq Risk!Held
    BY <1>0, <2>1 DEF Risk!Held
  <2> QED
    BY <1>1, <2>1, <2>2
<1>5. ASSUME \/ \E i \in Risk!Intents : Risk!Place(i) /\ i.purpose = "protect"
             \/ \E o \in v3 : Risk!Cancelled(o)
             \/ Risk!Tick \/ Risk!Crash
      PROVE  Risk!NumberIsKnown'
  <2>1. v3' \subseteq v3 /\ UNCHANGED <<v2, v8>>
    BY <1>5, ProtectIs DEF Risk!Cancelled, Risk!Tick, Risk!Crash
  <2>2. Risk!Held' = Risk!Held
    BY <2>1 DEF Risk!Held
  <2> QED
    BY <1>1, <2>1, <2>2
<1> QED
  BY <1>2, <1>3, <1>4, <1>5, RiskStepsAre DEF RiskSteps

(* The orders M of those sent, from time u on; the times remembered.       *)
Calls == [t : Nat, opens : BOOLEAN]

Since(s, M, u) == Cardinality({m \in M : s[m].t >= u})

Kept(t, u) == Cardinality({i \in DOMAIN t : t[i] >= u})

Openings(s) == {m \in DOMAIN s : s[m].opens}

AreCounted(s, M, t, n, w, l, c) ==
  \A u \in (n - w)..n : Since(s, M, u) <= l * c + Kept(t, u) /\ Since(s, M, u) <= l * c + l

LEMMA CountedIs ==
  /\ Risk!OrdersAreCounted <=>
       /\ AreCounted(v6, DOMAIN v6, v4, v1, RiskMinute, max_orders_per_min, v9)
       /\ AreCounted(v6, Openings(v6), v5, v1, RiskHour, max_new_positions_per_hour, v9)
  /\ Risk!OrdersAreCounted' <=>
       /\ AreCounted(v6', DOMAIN v6', v4', v1', RiskMinute, max_orders_per_min, v9')
       /\ AreCounted(v6', Openings(v6'), v5', v1', RiskHour, max_new_positions_per_hour, v9')
<1>1. \A M, u : Risk!From(M, u) = Since(v6, M, u)
  BY RiskCardinality DEF Risk!From, Since
<1>2. \A t, u : Risk!Remembered(t, u) = Kept(t, u)
  BY RiskCardinality DEF Risk!Remembered, Kept
<1>3. \A M, t, w, l : Risk!Counted(M, t, w, l) <=> AreCounted(v6, M, t, v1, w, l, v9)
  BY <1>1, <1>2 DEF Risk!Counted, AreCounted
<1>4. Risk!OrdersAreCounted <=>
       /\ AreCounted(v6, DOMAIN v6, v4, v1, RiskMinute, max_orders_per_min, v9)
       /\ AreCounted(v6, Openings(v6), v5, v1, RiskHour, max_new_positions_per_hour, v9)
  BY <1>1, <1>2, <1>3 DEF Risk!OrdersAreCounted, Openings
<1>5. (Risk!OrdersAreCounted <=>
       /\ AreCounted(v6, DOMAIN v6, v4, v1, RiskMinute, max_orders_per_min, v9)
       /\ AreCounted(v6, Openings(v6), v5, v1, RiskHour, max_new_positions_per_hour, v9))'
  BY <1>4, PTL
<1>6. Risk!OrdersAreCounted' <=>
       /\ AreCounted(v6', DOMAIN v6', v4', v1', RiskMinute, max_orders_per_min, v9')
       /\ AreCounted(v6', Openings(v6'), v5', v1', RiskHour, max_new_positions_per_hour, v9')
  BY <1>5
<1> QED
  BY <1>4, <1>6

LEMMA KeptIs ==
  ASSUME NEW t \in Seq(Nat), NEW u \in Int
  PROVE  Kept(t, u) \in Nat /\ Kept(t, u) <= Len(t)
<1> DEFINE S == {i \in DOMAIN t : t[i] >= u}
<1>1. S \in SUBSET (1..Len(t)) /\ Len(t) \in Nat
  OBVIOUS
<1>2. IsFiniteSet(1..Len(t)) /\ Cardinality(1..Len(t)) = Len(t)
  <2> DEFINE n == Len(t)
  <2>1. n \in Nat /\ n \in Int /\ 1 \in Int
    BY <1>1
  <2> HIDE DEF n
  <2>2. IsFiniteSet(1..n) /\ Cardinality(1..n) = IF 1 > n THEN 0 ELSE n - 1 + 1
    BY <2>1, FS_Interval
  <2>3. Cardinality(1..n) = n
    BY <2>1, <2>2
  <2> QED
    BY <2>2, <2>3 DEF n
<1>3. IsFiniteSet(S) /\ Cardinality(S) <= Len(t)
  <2> HIDE DEF S
  <2> QED
    BY <1>1, <1>2, FS_Subset
<1>4. Cardinality(S) \in Nat
  <2> HIDE DEF S
  <2> QED
    BY <1>3, FS_CardinalityType
<1> QED
  BY <1>3, <1>4 DEF Kept

LEMMA RecentKeeps ==
  ASSUME v1 \in Nat, NEW t \in Seq(Nat), NEW w \in Nat, NEW u \in Int, u >= v1 - w
  PROVE  Kept(Risk!Recent(t, w), u) = Kept(t, u)
<1>1. PICK n \in 0..Len(t) : /\ \A i \in 1..n : v1 - t[i] > w
                             /\ Risk!Recent(t, w) = SubSeq(t, n + 1, Len(t))
  BY RecentIs
<1> DEFINE r == SubSeq(t, n + 1, Len(t))
           S == {i \in DOMAIN r : r[i] >= u}
           T == {i \in DOMAIN t : t[i] >= u}
           f == [i \in S |-> i + n]
<1>2. /\ DOMAIN t = 1..Len(t) /\ Len(t) \in Nat /\ DOMAIN r = 1..(Len(t) - n)
      /\ \A i \in 1..(Len(t) - n) : r[i] = t[i + n]
      /\ \A i \in 1..Len(t) : t[i] \in Nat
  OBVIOUS
<1>3. \A i \in T : i > n
  BY <1>1, <1>2
<1>4. f \in [S -> T]
  <2>1. \A i \in S : i + n \in T
    BY <1>2
  <2> QED
    BY <2>1
<1>5. \A i, j \in S : f[i] = f[j] => i = j
  BY <1>2
<1>6. \A j \in T : \E i \in S : f[i] = j
  <2> SUFFICES ASSUME NEW j \in T PROVE \E i \in S : f[i] = j
    OBVIOUS
  <2>1. j - n \in S
    BY <1>2, <1>3
  <2>2. f[j - n] = j
    BY <1>2, <2>1
  <2> QED
    BY <2>1, <2>2
<1>7. ExistsBijection(S, T)
  <2> HIDE DEF S, T, f
  <2> QED
    BY <1>4, <1>5, <1>6 DEF ExistsBijection, Bijection, Injection, Surjection, IsInjective
<1>8. IsFiniteSet(S)
  <2>1. IsFiniteSet(1..(Len(t) - n))
    BY <1>2, FS_Interval
  <2>2. S \in SUBSET (1..(Len(t) - n))
    BY <1>2
  <2> HIDE DEF S
  <2> QED
    BY <2>1, <2>2, FS_Subset
<1>9. Cardinality(T) = Cardinality(S)
  <2> HIDE DEF S, T
  <2> QED
    BY <1>7, <1>8, FS_Bijection
<1> QED
  BY <1>1, <1>9 DEF Kept

LEMMA KeptGrows ==
  ASSUME NEW t \in Seq(Nat), NEW x \in Nat, NEW u \in Int, u <= x
  PROVE  Kept(Append(t, x), u) = Kept(t, u) + 1
<1> DEFINE r == Append(t, x)
           S == {i \in DOMAIN t : t[i] >= u}
           T == {i \in DOMAIN r : r[i] >= u}
           n == Len(t) + 1
<1>1. /\ DOMAIN t = 1..Len(t) /\ Len(t) \in Nat /\ DOMAIN r = 1..(Len(t) + 1)
      /\ \A i \in 1..Len(t) : r[i] = t[i]
      /\ r[Len(t) + 1] = x
  OBVIOUS
<1>2. T = S \cup {n} /\ n \notin S
  BY <1>1
<1>3. IsFiniteSet(S)
  <2>1. S \in SUBSET (1..Len(t)) /\ IsFiniteSet(1..Len(t))
    BY <1>1, FS_Interval
  <2> HIDE DEF S
  <2> QED
    BY <2>1, FS_Subset
<1>4. Cardinality(T) = Cardinality(S) + 1
  <2> HIDE DEF S, T, n
  <2> QED
    BY <1>2, <1>3, FS_AddElement
<1> QED
  BY <1>4 DEF Kept

LEMMA SinceIs ==
  ASSUME NEW s \in Seq(Calls), NEW M \in SUBSET (DOMAIN s), NEW u \in Int
  PROVE  /\ IsFiniteSet(M) /\ IsFiniteSet({m \in M : s[m].t >= u})
         /\ Since(s, M, u) \in Nat
<1>1. DOMAIN s = 1..Len(s) /\ Len(s) \in Nat
  OBVIOUS
<1>2. IsFiniteSet(DOMAIN s)
  BY <1>1, FS_Interval
<1> DEFINE S == {m \in M : s[m].t >= u}
<1>3. S \in SUBSET M
  OBVIOUS
<1> HIDE DEF S
<1>4. IsFiniteSet(M) /\ IsFiniteSet(S)
  BY <1>2, <1>3, FS_Subset
<1>5. Cardinality(S) \in Nat
  BY <1>4, FS_CardinalityType
<1> QED
  BY <1>4, <1>5 DEF Since, S

LEMMA SinceAppended ==
  ASSUME NEW s \in Seq(Calls), NEW M \in SUBSET (DOMAIN s), NEW u \in Int, NEW r \in Calls
  PROVE  /\ Since(Append(s, r), M, u) = Since(s, M, u)
         /\ u <= r.t => Since(Append(s, r), M \cup {Len(s) + 1}, u) = Since(s, M, u) + 1
<1> DEFINE a == Append(s, r)
           S == {m \in M : s[m].t >= u}
           T == {m \in M : a[m].t >= u}
           U == {m \in M \cup {Len(s) + 1} : a[m].t >= u}
           n == Len(s) + 1
<1>1. /\ DOMAIN s = 1..Len(s) /\ Len(s) \in Nat
      /\ \A i \in 1..Len(s) : a[i] = s[i]
      /\ a[Len(s) + 1] = r
  OBVIOUS
<1>2. T = S
  BY <1>1
<1>3. u <= r.t => U = S \cup {n} /\ n \notin S
  <2>1. r.t \in Int
    BY DEF Calls
  <2> QED
    BY <1>1, <2>1
<1>4. IsFiniteSet(S)
  BY SinceIs
<1>5. u <= r.t => Cardinality(U) = Cardinality(S) + 1
  <2> HIDE DEF S, U, n
  <2> QED
    BY <1>3, <1>4, FS_AddElement
<1> QED
  BY <1>2, <1>5 DEF Since

-----------------------------------------------------------------------------
(* What is counted stays counted.                                          *)

LEMMA CountedLater ==
  ASSUME NEW s \in Seq(Calls), NEW M \in SUBSET (DOMAIN s), NEW t \in Seq(Nat), NEW n \in Nat,
         NEW w \in Nat, \A m \in DOMAIN s : s[m].t <= n
  PROVE  \A l, c \in Nat : AreCounted(s, M, t, n, w, l, c) => AreCounted(s, M, t, n + 1, w, l, c)
<1>1. \A N \in SUBSET (DOMAIN s) : Since(s, N, n + 1) = 0
  <2> SUFFICES ASSUME NEW N \in SUBSET (DOMAIN s) PROVE Since(s, N, n + 1) = 0
    OBVIOUS
  <2>0. \A m \in DOMAIN s : s[m].t \in Nat
    <3>1. \A m \in DOMAIN s : s[m] \in Calls
      OBVIOUS
    <3> QED
      BY <3>1 DEF Calls
  <2>1. {m \in N : s[m].t >= n + 1} = {}
    BY <2>0
  <2> QED
    BY <2>1, FS_EmptySet DEF Since
<1>2. Kept(t, n + 1) \in Nat
  BY KeptIs
<1>3. \A u \in ((n + 1) - w)..(n + 1) : u = n + 1 \/ u \in (n - w)..n
  OBVIOUS
<1>4. ASSUME NEW l \in Nat, NEW c \in Nat, AreCounted(s, M, t, n, w, l, c)
      PROVE  AreCounted(s, M, t, n + 1, w, l, c)
  <2>1. l * c \in Nat
    OBVIOUS
  <2>2. 0 <= l * c + Kept(t, n + 1) /\ 0 <= l * c + l
    <3> DEFINE k == l * c
               x == Kept(t, n + 1)
    <3>1. k \in Nat /\ x \in Nat
      BY <1>2, <2>1
    <3> HIDE DEF k, x
    <3>2. 0 <= k + x /\ 0 <= k + l
      BY <3>1
    <3> QED
      BY <3>2 DEF k, x
  <2> QED
    BY <1>1, <1>3, <1>4, <2>2 DEF AreCounted
<1> QED
  BY <1>4

LEMMA CountedByNext ==
  ASSUME NEW s \in Seq(Calls), NEW M \in SUBSET (DOMAIN s), NEW t \in Seq(Nat), NEW n \in Nat,
         NEW w \in Nat, NEW l \in Nat, NEW c \in Nat, AreCounted(s, M, t, n, w, l, c)
  PROVE  AreCounted(s, M, <<>>, n, w, l, c + 1)
<1> SUFFICES ASSUME NEW u \in (n - w)..n
    PROVE Since(s, M, u) <= l * (c + 1) + Kept(<<>>, u) /\ Since(s, M, u) <= l * (c + 1) + l
  BY DEF AreCounted
<1>1. Since(s, M, u) <= l * c + l
  BY DEF AreCounted
<1>2. l * (c + 1) = l * c + l /\ l * c \in Nat
  OBVIOUS
<1>3. Kept(<<>>, u) \in Nat
  <2>1. u \in Int /\ <<>> \in Seq(Nat)
    OBVIOUS
  <2> QED
    BY <2>1, KeptIs
<1>4. Since(s, M, u) \in Nat
  <2>1. u \in Int
    OBVIOUS
  <2> QED
    BY <2>1, SinceIs
<1> QED
  BY <1>1, <1>2, <1>3, <1>4

LEMMA CountedSame ==
  ASSUME NEW s \in Seq(Calls), NEW M \in SUBSET (DOMAIN s), NEW t \in Seq(Nat), NEW n \in Nat,
         NEW w \in Nat, NEW l \in Nat, NEW c \in Nat, AreCounted(s, M, t, n, w, l, c),
         NEW r \in Calls, NEW k \in Seq(Nat), \A u \in (n - w)..n : Kept(t, u) <= Kept(k, u)
  PROVE  AreCounted(Append(s, r), M, k, n, w, l, c)
<1> SUFFICES ASSUME NEW u \in (n - w)..n
    PROVE /\ Since(Append(s, r), M, u) <= l * c + Kept(k, u)
          /\ Since(Append(s, r), M, u) <= l * c + l
  BY DEF AreCounted
<1>1. Since(s, M, u) <= l * c + Kept(t, u) /\ Since(s, M, u) <= l * c + l
  BY DEF AreCounted
<1>2. l * c \in Nat /\ Kept(t, u) <= Kept(k, u) /\ u \in Int
  OBVIOUS
<1>3. Kept(k, u) \in Nat /\ Kept(t, u) \in Nat
  BY <1>2, KeptIs
<1>4. Since(s, M, u) \in Nat /\ Since(Append(s, r), M, u) = Since(s, M, u)
  BY <1>2, SinceIs, SinceAppended
<1> QED
  BY <1>1, <1>2, <1>3, <1>4

LEMMA CountedOne ==
  ASSUME NEW s \in Seq(Calls), NEW M \in SUBSET (DOMAIN s), NEW t \in Seq(Nat), NEW n \in Nat,
         NEW w \in Nat, NEW l \in Nat, NEW c \in Nat, AreCounted(s, M, t, n, w, l, c),
         NEW r \in Calls, r.t = n, NEW k \in Seq(Nat), Len(k) < l,
         \A u \in (n - w)..n : Kept(t, u) = Kept(k, u)
  PROVE  AreCounted(Append(s, r), M \cup {Len(s) + 1}, Append(k, n), n, w, l, c)
<1> SUFFICES ASSUME NEW u \in (n - w)..n
    PROVE /\ Since(Append(s, r), M \cup {Len(s) + 1}, u) <= l * c + Kept(Append(k, n), u)
          /\ Since(Append(s, r), M \cup {Len(s) + 1}, u) <= l * c + l
  BY DEF AreCounted
<1>1. Since(s, M, u) <= l * c + Kept(t, u)
  BY DEF AreCounted
<1>2. l * c \in Nat /\ Kept(t, u) = Kept(k, u) /\ u \in Int /\ u <= n /\ u <= r.t
  OBVIOUS
<1>3. Kept(k, u) \in Nat /\ Kept(k, u) <= Len(k) /\ Len(k) \in Nat
  BY <1>2, KeptIs
<1>4. Since(s, M, u) \in Nat
      /\ Since(Append(s, r), M \cup {Len(s) + 1}, u) = Since(s, M, u) + 1
  BY <1>2, SinceIs, SinceAppended
<1>5. Kept(Append(k, n), u) = Kept(k, u) + 1
  BY <1>2, KeptGrows
<1> QED
  BY <1>1, <1>2, <1>3, <1>4, <1>5

(* What an order adds to the orders sent and to the times remembered.      *)
LEMMA PlaceSends ==
  ASSUME Risk!TypeOK, NEW i \in Risk!Intents, Risk!Place(i)
  PROVE  \E r \in Calls :
           /\ r.t = v1 /\ v6' = Append(v6, r) /\ UNCHANGED <<v1, v9>>
           /\ v4' = Append(Risk!Recent(v4, RiskMinute), v1)
           /\ v5' = IF r.opens THEN Append(Risk!Recent(v5, RiskHour), v1) ELSE Risk!Recent(v5, RiskHour)
           /\ Len(Risk!Recent(v4, RiskMinute)) < max_orders_per_min
           /\ r.opens => Len(Risk!Recent(v5, RiskHour)) < max_new_positions_per_hour
<1> DEFINE opens == ~ i.reduce /\ ~ i.algo /\ v2[i.symbol] = 0
           r == [t |-> v1, opens |-> opens]
           k == Risk!Recent(v5, RiskHour)
<1>0. v1 \in Nat /\ v5 \in Seq(Nat)
  BY DEF Risk!TypeOK
<1>1. r \in Calls
  <2>1. opens \in BOOLEAN
    BY IntentsAre
  <2> HIDE DEF opens
  <2> QED
    BY <1>0, <2>1 DEF Calls
<1>2. v6' = Append(v6, r) /\ UNCHANGED <<v1, v9>> /\ v4' = Append(Risk!Recent(v4, RiskMinute), v1)
  BY DEF Risk!Place
<1>3. v5' = k \o (IF opens THEN <<v1>> ELSE <<>>)
  BY DEF Risk!Place
<1>4. v5' = IF opens THEN Append(k, v1) ELSE k
  <2>1. k \in Seq(Nat)
    BY <1>0, RiskConstants, RecentTypes
  <2> HIDE DEF k, opens
  <2>2. k \o <<v1>> = Append(k, v1) /\ k \o <<>> = k
    BY <2>1, <1>0
  <2> QED
    BY <1>3, <2>2
<1>5. Len(Risk!Recent(v4, RiskMinute)) < max_orders_per_min
  <2>1. i.purpose # "flatten"
    BY IntentsAre
  <2> QED
    BY <2>1 DEF Risk!Place, Risk!Allowed, Risk!Rate
<1>6. opens => Len(k) < max_new_positions_per_hour
  <2>1. ~ i.reduce /\ ~ i.algo => Risk!Opening(i)
    BY IntentsAre
  <2> QED
    BY <2>1 DEF Risk!Place, Risk!Allowed
<1> QED
  <2>1. r.t = v1 /\ r.opens = opens
    OBVIOUS
  <2> HIDE DEF r, opens, k
  <2> QED
    BY <1>1, <1>2, <1>4, <1>5, <1>6, <2>1 DEF k

LEMMA KindsOf ==
  ASSUME NEW s \in Seq(Calls), NEW r \in Calls
  PROVE  /\ Openings(s) \in SUBSET (DOMAIN s)
         /\ DOMAIN Append(s, r) = DOMAIN s \cup {Len(s) + 1}
         /\ Openings(Append(s, r)) = IF r.opens THEN Openings(s) \cup {Len(s) + 1} ELSE Openings(s)
<1> DEFINE a == Append(s, r)
<1>1. /\ DOMAIN s = 1..Len(s) /\ Len(s) \in Nat /\ DOMAIN a = 1..(Len(s) + 1)
      /\ \A i \in 1..Len(s) : a[i] = s[i]
      /\ a[Len(s) + 1] = r
  OBVIOUS
<1>2. r.opens \in BOOLEAN
  BY DEF Calls
<1> HIDE DEF a
<1>3. Openings(s) \in SUBSET (DOMAIN s)
  BY DEF Openings
<1>4. DOMAIN a = DOMAIN s \cup {Len(s) + 1}
  BY <1>1
<1>5. Openings(a) = IF r.opens THEN Openings(s) \cup {Len(s) + 1} ELSE Openings(s)
  BY <1>1, <1>2 DEF Openings
<1> QED
  BY <1>3, <1>4, <1>5 DEF a

LEMMA RiskCounts ==
  ASSUME Risk!TypeOK, Risk!Past, Risk!OrdersAreCounted, Risk!Next
  PROVE  Risk!OrdersAreCounted'
<1> DEFINE l == max_orders_per_min
           h == max_new_positions_per_hour
<1>0. /\ v1 \in Nat /\ v9 \in Nat /\ v4 \in Seq(Nat) /\ v5 \in Seq(Nat) /\ v6 \in Seq(Calls)
      /\ RiskMinute \in Nat /\ RiskHour \in Nat /\ l \in Nat /\ h \in Nat
      /\ DOMAIN v6 \in SUBSET (DOMAIN v6) /\ Openings(v6) \in SUBSET (DOMAIN v6)
  BY RiskConstants DEF Risk!TypeOK, Calls, Openings
<1>1. /\ AreCounted(v6, DOMAIN v6, v4, v1, RiskMinute, l, v9)
      /\ AreCounted(v6, Openings(v6), v5, v1, RiskHour, h, v9)
  BY CountedIs
<1> HIDE DEF l, h
<1>2. ASSUME NEW i \in Risk!Intents, Risk!Place(i) PROVE Risk!OrdersAreCounted'
  <2> DEFINE k == Risk!Recent(v4, RiskMinute)
             j == Risk!Recent(v5, RiskHour)
  <2>1. PICK r \in Calls :
           /\ r.t = v1 /\ v6' = Append(v6, r) /\ UNCHANGED <<v1, v9>>
           /\ v4' = Append(k, v1) /\ v5' = IF r.opens THEN Append(j, v1) ELSE j
           /\ Len(k) < l
           /\ r.opens => Len(j) < h
    BY <1>2, PlaceSends DEF l, h
  <2>2. k \in Seq(Nat) /\ j \in Seq(Nat)
    BY <1>0, RecentTypes
  <2>3. \A u \in (v1 - RiskMinute)..v1 : Kept(v4, u) = Kept(k, u)
    <3> SUFFICES ASSUME NEW u \in (v1 - RiskMinute)..v1 PROVE Kept(v4, u) = Kept(k, u)
      OBVIOUS
    <3>1. u \in Int /\ u >= v1 - RiskMinute
      BY <1>0
    <3> QED
      BY <1>0, <3>1, RecentKeeps
  <2>4. \A u \in (v1 - RiskHour)..v1 : Kept(v5, u) = Kept(j, u)
    <3> SUFFICES ASSUME NEW u \in (v1 - RiskHour)..v1 PROVE Kept(v5, u) = Kept(j, u)
      OBVIOUS
    <3>1. u \in Int /\ u >= v1 - RiskHour
      BY <1>0
    <3> QED
      BY <1>0, <3>1, RecentKeeps
  <2> HIDE DEF k, j
  <2> DEFINE a == Append(v6, r)
  <2>5. AreCounted(a, DOMAIN a, v4', v1, RiskMinute, l, v9)
    <3>1. AreCounted(a, DOMAIN v6 \cup {Len(v6) + 1}, Append(k, v1), v1, RiskMinute, l, v9)
      BY <1>0, <1>1, <2>1, <2>2, <2>3, CountedOne
    <3>2. DOMAIN a = DOMAIN v6 \cup {Len(v6) + 1}
      BY <1>0, KindsOf
    <3> QED
      BY <2>1, <3>1, <3>2
  <2>6. AreCounted(a, Openings(a), v5', v1, RiskHour, h, v9)
    <3>1. CASE r.opens
      <4>1. AreCounted(a, Openings(v6) \cup {Len(v6) + 1}, Append(j, v1), v1, RiskHour, h, v9)
        BY <1>0, <1>1, <2>1, <2>2, <2>4, <3>1, CountedOne
      <4>2. Openings(a) = Openings(v6) \cup {Len(v6) + 1}
        BY <1>0, <3>1, KindsOf
      <4> QED
        BY <2>1, <3>1, <4>1, <4>2
    <3>2. CASE ~ r.opens
      <4>2. \A u \in (v1 - RiskHour)..v1 : Kept(v5, u) <= Kept(j, u)
        <5> SUFFICES ASSUME NEW u \in (v1 - RiskHour)..v1 PROVE Kept(v5, u) <= Kept(j, u)
          OBVIOUS
        <5>1. u \in Int
          BY <1>0
        <5>2. Kept(j, u) \in Nat
          BY <2>2, <5>1, KeptIs
        <5> QED
          BY <2>4, <5>2
      <4>3. AreCounted(a, Openings(v6), j, v1, RiskHour, h, v9)
        BY <1>0, <1>1, <2>2, <4>2, CountedSame
      <4>4. Openings(a) = Openings(v6)
        BY <1>0, <3>2, KindsOf
      <4> QED
        BY <2>1, <3>2, <4>3, <4>4
    <3> QED
      BY <3>1, <3>2
  <2>8. v6' = a /\ v1' = v1 /\ v9' = v9
    BY <2>1
  <2> HIDE DEF a
  <2> QED
    BY <2>5, <2>6, <2>8, CountedIs DEF l, h
<1>3. ASSUME UNCHANGED <<v1, v4, v5, v6, v9>> PROVE Risk!OrdersAreCounted'
  BY <1>1, <1>3, CountedIs DEF l, h
<1>4. ASSUME Risk!Tick PROVE Risk!OrdersAreCounted'
  <2>1. v1' = v1 + 1 /\ UNCHANGED <<v4, v5, v6, v9>>
    BY <1>4 DEF Risk!Tick
  <2>2. \A m \in DOMAIN v6 : v6[m].t <= v1
    BY DEF Risk!Past
  <2>3. AreCounted(v6, DOMAIN v6, v4, v1 + 1, RiskMinute, l, v9)
    BY <1>0, <1>1, <2>2, CountedLater
  <2>4. AreCounted(v6, Openings(v6), v5, v1 + 1, RiskHour, h, v9)
    BY <1>0, <1>1, <2>2, CountedLater
  <2> QED
    BY <2>1, <2>3, <2>4, CountedIs DEF l, h
<1>5. ASSUME Risk!Crash PROVE Risk!OrdersAreCounted'
  <2>1. v9' = v9 + 1 /\ v4' = <<>> /\ v5' = <<>> /\ UNCHANGED <<v1, v6>> /\ v9' # 0
    BY <1>0, <1>5 DEF Risk!Crash
  <2>2. AreCounted(v6, DOMAIN v6, <<>>, v1, RiskMinute, l, v9 + 1)
    BY <1>0, <1>1, CountedByNext
  <2>3. AreCounted(v6, Openings(v6), <<>>, v1, RiskHour, h, v9 + 1)
    BY <1>0, <1>1, CountedByNext
  <2> QED
    BY <2>1, <2>2, <2>3, CountedIs DEF l, h
<1>6. ASSUME \/ \E o \in v3 : Risk!Filled(o) \/ Risk!Cancelled(o)
             \/ \E s \in Symbols, q \in Int : Risk!Closes(s, q)
      PROVE  Risk!OrdersAreCounted'
  <2>1. UNCHANGED <<v1, v4, v5, v6, v9>>
    BY <1>6 DEF Risk!Filled, Risk!Cancelled, Risk!Closes
  <2> QED
    BY <1>3, <2>1
<1> QED
  BY <1>2, <1>4, <1>5, <1>6, RiskStepsAre DEF RiskSteps

-----------------------------------------------------------------------------
InTime(s, n, w) == {m \in 1..n : s[n].t - s[m].t <= w}

RateOf(s, n, c) ==
  /\ Cardinality(InTime(s, n, RiskMinute)) <= max_orders_per_min * (1 + c)
  /\ s[n].opens =>
       Cardinality({m \in InTime(s, n, RiskHour) : s[m].opens})
         <= max_new_positions_per_hour * (1 + c)

LEMMA RatesAre ==
  /\ Risk!RatesHold <=> \A n \in DOMAIN v6 : RateOf(v6, n, v9)
  /\ Risk!RatesHold' <=> \A n \in DOMAIN v6' : RateOf(v6', n, v9')
<1>1. Risk!RatesHold <=> \A n \in DOMAIN v6 : RateOf(v6, n, v9)
  BY RiskCardinality DEF Risk!RatesHold, Risk!InWindow, RateOf, InTime
<1>2. (Risk!RatesHold <=> \A n \in DOMAIN v6 : RateOf(v6, n, v9))'
  BY <1>1, PTL
<1> QED
  BY <1>1, <1>2

LEMMA RatesStay ==
  ASSUME Risk!TypeOK, Risk!TypeOK', Risk!Past, Risk!OrdersAreCounted', Risk!RatesHold, Risk!Next
  PROVE  Risk!RatesHold'
<1> DEFINE l == max_orders_per_min
           h == max_new_positions_per_hour
<1>0. /\ v1 \in Nat /\ v9 \in Nat /\ v6 \in Seq(Calls) /\ v4' \in Seq(Nat) /\ v6' \in Seq(Calls)
      /\ RiskMinute \in Nat /\ RiskHour \in Nat /\ l \in Nat /\ h \in Nat
  BY RiskConstants DEF Risk!TypeOK, Calls
<1>1. \A n \in DOMAIN v6 : RateOf(v6, n, v9)
  BY RatesAre
<1>2. ASSUME NEW i \in Risk!Intents, Risk!Place(i) PROVE Risk!RatesHold'
  <2> DEFINE k == Risk!Recent(v4, RiskMinute)
  <2>1. PICK r \in Calls :
           /\ r.t = v1 /\ v6' = Append(v6, r) /\ UNCHANGED <<v1, v9>>
           /\ v4' = Append(k, v1)
           /\ Len(k) < l
    BY <1>2, PlaceSends
  <2> DEFINE a == Append(v6, r)
             e == Len(v6) + 1
  <2>2. /\ DOMAIN v6 = 1..Len(v6) /\ Len(v6) \in Nat /\ DOMAIN a = 1..e
        /\ \A m \in 1..Len(v6) : a[m] = v6[m]
        /\ a[e] = r
    BY <1>0
  <2>3. v6' = a /\ v1' = v1 /\ v9' = v9
    BY <2>1
  <2>4. \A m \in DOMAIN a : a[m].t \in Int /\ a[m].t <= v1
    <3> SUFFICES ASSUME NEW m \in DOMAIN a PROVE a[m].t \in Int /\ a[m].t <= v1
      OBVIOUS
    <3>1. a \in Seq(Calls)
      BY <1>0, <2>3
    <3>2. a[m] \in Calls
      BY <3>1
    <3>3. a[m].t \in Int
      BY <3>2 DEF Calls
    <3>4. CASE m = e
      BY <1>0, <2>1, <2>2, <3>4
    <3>5. CASE m # e
      <4>1. m \in DOMAIN v6 /\ a[m] = v6[m]
        BY <2>2, <3>5
      <4> QED
        BY <3>3, <4>1 DEF Risk!Past
    <3> QED
      BY <3>3, <3>4, <3>5
  <2> HIDE DEF a
  <2>5. /\ AreCounted(a, DOMAIN a, v4', v1, RiskMinute, l, v9)
        /\ AreCounted(a, Openings(a), v5', v1, RiskHour, h, v9)
    <3>1. /\ AreCounted(v6', DOMAIN v6', v4', v1', RiskMinute, l, v9')
          /\ AreCounted(v6', Openings(v6'), v5', v1', RiskHour, h, v9')
      BY CountedIs
    <3> QED
      BY <2>3, <3>1
  <2>6. \A w \in Nat : InTime(a, e, w) = {m \in DOMAIN a : a[m].t >= v1 - w}
    BY <1>0, <2>1, <2>2, <2>4 DEF InTime
  <2>7. ASSUME NEW n \in DOMAIN v6 PROVE RateOf(a, n, v9)
    <3>1. n \in 1..Len(v6) /\ 1..n \subseteq 1..Len(v6)
      BY <2>2
    <3>2. \A w : InTime(a, n, w) = InTime(v6, n, w)
      BY <2>2, <3>1 DEF InTime
    <3>3. \A w : InTime(v6, n, w) \subseteq 1..Len(v6)
      BY <3>1 DEF InTime
    <3>5. {m \in InTime(a, n, RiskHour) : a[m].opens} = {m \in InTime(v6, n, RiskHour) : v6[m].opens}
      BY <2>2, <3>2, <3>3
    <3>6. a[n] = v6[n]
      BY <2>2, <3>1
    <3> QED
      BY <1>1, <3>2, <3>5, <3>6 DEF RateOf
  <2>8. RateOf(a, e, v9)
    <3>1. Cardinality(InTime(a, e, RiskMinute)) <= l * (1 + v9)
      <4> DEFINE u == v1 - RiskMinute
      <4>0. u \in (v1 - RiskMinute)..v1
        BY <1>0
      <4>1. InTime(a, e, RiskMinute) = {m \in DOMAIN a : a[m].t >= u}
        BY <1>0, <2>6
      <4>2. Since(a, DOMAIN a, u) <= l * v9 + l
        BY <2>5, <4>0 DEF AreCounted
      <4>3. l * (1 + v9) = l * v9 + l
        BY <1>0
      <4> QED
        BY <4>1, <4>2, <4>3 DEF Since
    <3>2. Cardinality({m \in InTime(a, e, RiskHour) : a[m].opens}) <= h * (1 + v9)
      <4> DEFINE u == v1 - RiskHour
      <4>0. u \in (v1 - RiskHour)..v1
        BY <1>0
      <4>1. {m \in InTime(a, e, RiskHour) : a[m].opens} = {m \in Openings(a) : a[m].t >= u}
        BY <1>0, <2>6 DEF Openings
      <4>2. Since(a, Openings(a), u) <= h * v9 + h
        BY <2>5, <4>0 DEF AreCounted
      <4>3. h * (1 + v9) = h * v9 + h
        BY <1>0
      <4> QED
        BY <4>1, <4>2, <4>3 DEF Since
    <3> QED
      BY <2>2, <3>1, <3>2 DEF RateOf
  <2>9. \A n \in DOMAIN v6' : RateOf(v6', n, v9')
    <3> SUFFICES ASSUME NEW n \in DOMAIN a PROVE RateOf(a, n, v9)
      BY <2>3
    <3>1. n \in DOMAIN v6 \/ n = e
      BY <2>2
    <3> QED
      BY <2>7, <2>8, <3>1
  <2> QED
    BY <2>9, RatesAre
<1>3. ASSUME UNCHANGED <<v6, v9>> PROVE Risk!RatesHold'
  BY <1>1, <1>3, RatesAre
<1>4. ASSUME Risk!Crash PROVE Risk!RatesHold'
  <2>1. v9' = v9 + 1 /\ v6' = v6
    BY <1>4 DEF Risk!Crash
  <2>2. ASSUME NEW n \in DOMAIN v6 PROVE RateOf(v6, n, v9 + 1)
    <3> DEFINE S == InTime(v6, n, RiskMinute)
               U == {m \in InTime(v6, n, RiskHour) : v6[m].opens}
    <3>1. RateOf(v6, n, v9)
      BY <1>1
    <3>2. S \subseteq 1..n /\ U \subseteq 1..n /\ n \in Int
      BY <1>0 DEF InTime
    <3>3. IsFiniteSet(1..n)
      BY <3>2, FS_Interval
    <3> HIDE DEF S, U
    <3>4. IsFiniteSet(S) /\ IsFiniteSet(U)
      BY <3>2, <3>3, FS_Subset
    <3>6. Cardinality(S) \in Nat /\ Cardinality(U) \in Nat
      BY <3>4, FS_CardinalityType
    <3>7. l * (1 + v9) <= l * (1 + (v9 + 1)) /\ l * (1 + v9) \in Nat /\ l * (1 + (v9 + 1)) \in Nat
          /\ h * (1 + v9) <= h * (1 + (v9 + 1)) /\ h * (1 + v9) \in Nat /\ h * (1 + (v9 + 1)) \in Nat
      <4>1. \A x, y \in Nat : x * (1 + y) = x * y + x /\ x * (1 + (y + 1)) = x * y + x + x /\ x * y \in Nat
        OBVIOUS
      <4> HIDE DEF l, h
      <4>2. l * (1 + v9) = l * v9 + l /\ l * (1 + (v9 + 1)) = l * v9 + l + l /\ l * v9 \in Nat
        BY <1>0, <4>1
      <4>3. h * (1 + v9) = h * v9 + h /\ h * (1 + (v9 + 1)) = h * v9 + h + h /\ h * v9 \in Nat
        BY <1>0, <4>1
      <4> QED
        BY <1>0, <4>2, <4>3
    <3>8. Cardinality(S) <= l * (1 + (v9 + 1))
      <4>1. Cardinality(S) <= l * (1 + v9)
        BY <3>1 DEF RateOf, S
      <4> QED
        BY <3>6, <3>7, <4>1
    <3>9. v6[n].opens => Cardinality(U) <= h * (1 + (v9 + 1))
      <4>1. v6[n].opens => Cardinality(U) <= h * (1 + v9)
        BY <3>1 DEF RateOf, U
      <4> QED
        BY <3>6, <3>7, <4>1
    <3> QED
      BY <3>8, <3>9 DEF RateOf, S, U
  <2> QED
    BY <2>1, <2>2, RatesAre
<1>5. ASSUME ~ \E i \in Risk!Intents : Risk!Place(i), ~ Risk!Crash PROVE UNCHANGED <<v6, v9>>
  BY <1>5, RiskStepsAre DEF RiskSteps, Risk!Filled, Risk!Cancelled, Risk!Closes, Risk!Tick
<1> QED
  BY <1>2, <1>3, <1>4, <1>5

LEMMA RiskStarts == ASSUME Risk!Init PROVE Risk!RiskInv
<1>0. /\ v1 = 0 /\ v2 = [s \in Symbols |-> 0] /\ v3 = {} /\ v4 = <<>> /\ v5 = <<>> /\ v6 = <<>>
      /\ v7 = 0 /\ v8 = 0 /\ v9 = 0
  BY DEF Risk!Init
<1>1. Risk!TypeOK
  <2>1. Risk!IsFiniteSet({})
    BY FS_EmptySet DEF Risk!IsFiniteSet, IsFiniteSet
  <2> QED
    BY <1>0, <2>1 DEF Risk!TypeOK
<1>2. Risk!Numbered /\ Risk!Past /\ Risk!RatesHold
  BY <1>0 DEF Risk!Numbered, Risk!Past, Risk!RatesHold
<1>3. Risk!Entries = {} /\ Risk!Held = {}
  BY <1>0 DEF Risk!Entries, Risk!Held
<1>4. Risk!GrossIsKnown
  <2>1. Risk!Bid = 0
    <3>1. Sizes({}) = 0
      <4> DEFINE f == [o \in {} |-> Risk!Absolute(o.qty)]
      <4>1. \A x \in {} : f[x] \in Int
        OBVIOUS
      <4> HIDE DEF f
      <4>2. SumFunctionOnSet(f, {}) = 0
        BY <4>1, FS_EmptySet, SumSteps
      <4> QED
        BY <4>2 DEF Sizes, f
    <3> QED
      BY <1>3, <3>1, BidIs
  <2>2. Risk!Gross = 0
    <3> DEFINE f == [s \in Symbols |-> Risk!Absolute(v2[s])]
               g == [s \in Symbols |-> 0]
               S == {}
    <3>1. Risk!Gross = SumFunctionOnSet(f, Symbols)
      BY <1>1, GrossIs
    <3>2. \A s \in Symbols : f[s] = 0
      <4>1. Risk!Absolute(0) = 0
        BY DEF Risk!Absolute
      <4> QED
        BY <1>0, <4>1
    <3> HIDE DEF f
    <3>a. {} \in SUBSET Symbols /\ \A s \in Symbols : f[s] \in Int
      BY <3>2
    <3>3. SumFunctionOnSet(f, Symbols) = SumFunctionOnSet(f, {})
      <4>1. {} \in SUBSET Symbols /\ \A s \in Symbols : f[s] \in Int
        BY <3>a
      <4>2. \A s \in Symbols \ {} : f[s] = 0
        BY <3>2
      <4> QED
        BY <4>1, <4>2, RiskConstants, SumOfPart
    <3>4. SumFunctionOnSet(f, {}) = 0
      BY <3>a, RiskConstants, SumSteps
    <3> QED
      BY <3>1, <3>3, <3>4
  <2> QED
    BY <1>0, <2>1, <2>2, RiskConstants DEF Risk!GrossIsKnown
<1>5. Risk!NumberIsKnown
  <2>1. Risk!Held \cup {o.symbol : o \in Risk!Entries} = {}
    BY <1>3
  <2>2. Risk!Cardinality(Risk!Held \cup {o.symbol : o \in Risk!Entries}) = 0
    BY <2>1, FS_EmptySet, RiskCardinality
  <2>3. 0 <= max_positions + v8
    BY <1>0, RiskConstants
  <2> QED
    BY <2>2, <2>3 DEF Risk!NumberIsKnown
<1>6. Risk!OrdersAreCounted
  <2>1. \A M, u : M \subseteq DOMAIN v6 => Since(v6, M, u) = 0
    BY <1>0, FS_EmptySet DEF Since
  <2>2. \A u \in Int : Kept(v4, u) \in Nat /\ Kept(v5, u) \in Nat
    BY <1>1, KeptIs DEF Risk!TypeOK
  <2>3. DOMAIN v6 \subseteq DOMAIN v6 /\ Openings(v6) \subseteq DOMAIN v6
    BY DEF Openings
  <2>4. \A x \in Nat : x * v9 = 0
    BY <1>0
  <2>5. AreCounted(v6, DOMAIN v6, v4, v1, RiskMinute, max_orders_per_min, v9)
    BY <1>0, <2>1, <2>2, <2>3, <2>4, RiskConstants DEF AreCounted
  <2>6. AreCounted(v6, Openings(v6), v5, v1, RiskHour, max_new_positions_per_hour, v9)
    BY <1>0, <2>1, <2>2, <2>3, <2>4, RiskConstants DEF AreCounted
  <2> QED
    BY <2>5, <2>6, CountedIs
<1> QED
  BY <1>1, <1>2, <1>4, <1>5, <1>6 DEF Risk!RiskInv

LEMMA RiskStep ==
  ASSUME Risk!RiskInv, Risk!Next
  PROVE  Risk!RiskInv'
<1> USE DEF Risk!RiskInv
<1>1. Risk!TypeOK'
  BY RiskTypes
<1>2. Risk!Numbered' /\ Risk!Past'
  BY RiskNumbered
<1>3. Risk!GrossIsKnown'
  BY RiskGross
<1>4. Risk!NumberIsKnown'
  BY <1>1, RiskNumber
<1>5. Risk!OrdersAreCounted'
  BY RiskCounts
<1>6. Risk!RatesHold'
  BY <1>1, <1>5, RatesStay
<1> QED
  BY <1>1, <1>2, <1>3, <1>4, <1>5, <1>6

LEMMA RiskMeans ==
  ASSUME Risk!RiskInv
  PROVE  Risk!WithinLimits /\ Risk!RatesHold
<1>0. Risk!TypeOK /\ Risk!GrossIsKnown /\ Risk!NumberIsKnown /\ Risk!RatesHold
  BY DEF Risk!RiskInv
<1>1. Risk!Gross <= max_gross_exposure + v7
  <2>1. Risk!Bid \in Nat /\ Risk!Gross \in Nat /\ v7 \in Nat
    BY <1>0, BidIs, RiskEntriesAre, SizesOf, GrossIs DEF Risk!TypeOK
  <2> QED
    BY <1>0, <2>1, RiskConstants DEF Risk!GrossIsKnown
<1>2. Risk!Cardinality(Risk!Held) <= max_positions + v8
  <2> DEFINE S == Risk!Held \cup {o.symbol : o \in Risk!Entries}
  <2>1. S \in SUBSET Symbols /\ Risk!Held \in SUBSET S
    BY <1>0, RiskEntriesAre DEF Risk!Held
  <2>2. Risk!Cardinality(S) <= max_positions + v8 /\ v8 \in Nat
    BY <1>0 DEF Risk!NumberIsKnown, Risk!TypeOK
  <2> HIDE DEF S
  <2>3. IsFiniteSet(S)
    BY <2>1, RiskConstants, FS_Subset
  <2>4. IsFiniteSet(Risk!Held) /\ Cardinality(Risk!Held) <= Cardinality(S)
    BY <2>1, <2>3, FS_Subset
  <2>5. Cardinality(S) \in Nat /\ Cardinality(Risk!Held) \in Nat
    BY <2>3, <2>4, FS_CardinalityType
  <2> QED
    BY <2>2, <2>4, <2>5, RiskCardinality, RiskConstants
<1> QED
  BY <1>0, <1>1, <1>2 DEF Risk!WithinLimits

-----------------------------------------------------------------------------
(* The bot's entries.                                                      *)

LEMMA EntriesConstants ==
  /\ IsFiniteSet(Coins) /\ Marks \subseteq Nat \ {0} /\ Equities \subseteq Nat
  /\ Distances \subseteq Nat \ {0}
  /\ risk_per_trade \in Nat /\ cap_symbol \in Nat /\ cap_gross \in Nat
  /\ bot_max_positions \in Nat /\ bot_max_order_notional \in Nat
<1>1. \A S : Entries!IsFiniteSet(S) => IsFiniteSet(S)
  BY DEF Entries!IsFiniteSet, IsFiniteSet
<1> QED
  BY <1>1, EntriesAssumption DEF Entries!BotAssumption

LEMMA EntriesCardinality == \A S : Entries!Cardinality(S) = Cardinality(S)
  BY DEF Entries!Cardinality, Cardinality

LEMMA EntriesSumIs == \A f : Entries!SumFunction(f) = SumFunctionOnSet(f, DOMAIN f)
  BY DEF Entries!SumFunction, Entries!SumFunctionOnSet, SumFunctionOnSet,
    Entries!FoldFunctionOnSet, FoldFunctionOnSet, Entries!MapThenFoldSet, MapThenFoldSet

LEMMA LeastOfFour ==
  ASSUME NEW a \in Int, NEW b \in Int, NEW c \in Int, NEW d \in Int
  PROVE  /\ Entries!Min({a, b, c, d}) \in Int
         /\ Entries!Min({a, b, c, d}) <= a /\ Entries!Min({a, b, c, d}) <= c
<1> DEFINE S == {a, b, c, d}
           IsMin(x) == x \in S /\ \A y \in S : x <= y
<1>1. \E x \in S : IsMin(x)
  <2>1. CASE a <= b /\ a <= c /\ a <= d
    BY <2>1
  <2>2. CASE b <= a /\ b <= c /\ b <= d
    BY <2>2
  <2>3. CASE c <= a /\ c <= b /\ c <= d
    BY <2>3
  <2>4. CASE d <= a /\ d <= b /\ d <= c
    BY <2>4
  <2> QED
    BY <2>1, <2>2, <2>3, <2>4
<1>2. Entries!Min(S) = CHOOSE x \in S : \A y \in S : x <= y
  BY DEF Entries!Min
<1>3. IsMin(Entries!Min(S))
  BY <1>1, <1>2
<1> QED
  BY <1>3

(* What counts against the caps, by symbol: with 0 for those without.      *)
Worth ==
  [s \in Coins |->
     IF v4[s] # 0 THEN v4[s] * v1[s] ELSE IF s \in DOMAIN v3 THEN v3[s].qty * v3[s].px ELSE 0]

LEMMA NotionalCounts ==
  ASSUME Entries!TypeOK
  PROVE  /\ \A s \in Coins : Worth[s] \in Int
         /\ Entries!SumFunction(Entries!open_notional) = SumFunctionOnSet(Worth, Coins)
         /\ SumFunctionOnSet(Worth, Coins) \in Int
<1>0. /\ v1 \in [Coins -> Nat \ {0}] /\ v4 \in [Coins -> Nat] /\ DOMAIN v3 \subseteq Coins
      /\ \A s \in DOMAIN v3 : v3[s].qty \in Nat /\ v3[s].px \in Nat
  BY DEF Entries!TypeOK, Entries!Trades
<1> DEFINE D == {s \in Coins : v4[s] # 0} \cup DOMAIN v3
           g == Entries!open_notional
<1>1. D \in SUBSET Coins
  BY <1>0
<1>2. ASSUME NEW s \in Coins PROVE Worth[s] \in Int
  <2>1. v4[s] \in Nat /\ v1[s] \in Nat
    BY <1>0
  <2>2. v4[s] * v1[s] \in Int
    BY <2>1
  <2>3. s \in DOMAIN v3 => v3[s].qty * v3[s].px \in Int
    BY <1>0
  <2> QED
    BY <2>2, <2>3 DEF Worth
<1>3. DOMAIN g = D /\ \A s \in D : g[s] = Worth[s]
  BY <1>0, <1>1 DEF Entries!open_notional, Worth
<1>4. \A s \in Coins \ D : Worth[s] = 0
  BY DEF Worth
<1>5. IsFiniteSet(D)
  BY <1>1, EntriesConstants, FS_Subset
<1> HIDE DEF D
<1>6. SumFunctionOnSet(Worth, Coins) = SumFunctionOnSet(Worth, D)
  BY <1>1, <1>2, <1>4, EntriesConstants, SumOfPart
<1>7. SumFunctionOnSet(Worth, D) = SumFunctionOnSet(g, D)
  <2>1. \A s \in D : Worth[s] \in Int /\ g[s] = Worth[s]
    BY <1>1, <1>2, <1>3
  <2> HIDE DEF g
  <2> QED
    BY <1>5, <2>1, SumSame
<1>8. Entries!SumFunction(g) = SumFunctionOnSet(g, D)
  BY <1>3, EntriesSumIs
<1>9. SumFunctionOnSet(Worth, Coins) \in Int
  BY <1>2, EntriesConstants, SumSteps
<1> QED
  BY <1>2, <1>6, <1>7, <1>8, <1>9

(* An entry that is placed is within the share at risk, and the caps.      *)
LEMMA SizeIsSmall ==
  ASSUME Entries!TypeOK, NEW s \in Coins, NEW px \in Nat \ {0}, NEW dist \in Nat \ {0},
         Entries!size(s, px, dist) # 0
  PROVE  LET qty == Entries!size(s, px, dist)
             total == SumFunctionOnSet(Worth, Coins)
         IN  /\ qty \in Nat \ {0}
             /\ (qty * px) * dist <= risk_per_trade * v2
             /\ 100 * (qty * px) + 100 * total <= cap_gross * v2
             /\ s \notin DOMAIN Entries!open_notional
             /\ Cardinality(DOMAIN Entries!open_notional) < bot_max_positions
<1> DEFINE n == Entries!Notional(dist)
           qty == n \div (100 * px)
           total == SumFunctionOnSet(Worth, Coins)
           risk == risk_per_trade * v2
           share == (100 * risk_per_trade * v2) \div dist
           cap == cap_gross * v2
<1>0. v2 \in Nat /\ total \in Int /\ Entries!SumFunction(Entries!open_notional) = total
  BY NotionalCounts DEF Entries!TypeOK
<1>1. /\ Entries!size(s, px, dist) = qty /\ qty > 0
      /\ s \notin DOMAIN Entries!open_notional
      /\ Entries!Cardinality(DOMAIN Entries!open_notional) < bot_max_positions
  <2> HIDE DEF n
  <2> QED
    BY DEF Entries!size, Entries!Valid, n
<1>2. risk \in Int /\ cap \in Int /\ 100 * risk_per_trade * v2 = 100 * risk
      /\ cap_symbol * v2 \in Int
  BY <1>0, EntriesConstants
<1>3. share \in Int /\ dist * share <= 100 * risk
  <2> DEFINE t == 100 * risk_per_trade * v2
  <2>1. t \in Int /\ t = 100 * risk
    BY <1>2
  <2> HIDE DEF t
  <2>2. t % dist \in 0..(dist - 1) /\ t = dist * (t \div dist) + (t % dist) /\ t \div dist \in Int
    <3>1. t \in Int /\ dist \in Nat \ {0}
      BY <2>1
    <3> QED
      BY <3>1, DivisionIs
  <2>3. share = t \div dist
    BY DEF t
  <2> DEFINE x == t % dist
             y == dist * (t \div dist)
  <2>4. x >= 0 /\ x \in Int /\ t = y + x
    BY <2>2
  <2>5. y \in Int
    BY <2>2
  <2> HIDE DEF x, y, share, risk
  <2>6. y <= 100 * risk
    BY <1>2, <2>1, <2>4, <2>5
  <2> QED
    BY <2>2, <2>3, <2>6 DEF y
<1>4. n \in Int /\ n <= share /\ n <= cap - 100 * total
  <2> DEFINE a == share
             b == cap_symbol * v2
             c == cap - 100 * total
             d == 99 * bot_max_order_notional
  <2>1. a \in Int /\ b \in Int /\ c \in Int /\ d \in Int
    BY <1>0, <1>2, <1>3, EntriesConstants
  <2>2. n = Entries!Min({a, b, c, d})
    BY <1>0 DEF Entries!Notional
  <2> HIDE DEF a, b, c, d, n
  <2>3. n \in Int /\ n <= a /\ n <= c
    BY <2>1, <2>2, LeastOfFour
  <2> QED
    BY <2>3 DEF a, c
<1>5. qty \in Int /\ (100 * px) * qty <= n
  <2> DEFINE m == 100 * px
  <2>1. m \in Nat \ {0}
    OBVIOUS
  <2> HIDE DEF m, n
  <2>2. n % m \in 0..(m - 1) /\ n = m * (n \div m) + (n % m) /\ n \div m \in Int
    BY <1>4, <2>1, DivisionIs
  <2> DEFINE x == n % m
             y == m * (n \div m)
  <2>3. x >= 0 /\ x \in Int /\ n = y + x /\ y \in Int
    BY <2>1, <2>2
  <2> HIDE DEF x, y
  <2>4. y <= n
    BY <1>4, <2>3
  <2> QED
    BY <2>2, <2>4 DEF y, m
<1> HIDE DEF n, qty, total, risk, share, cap
<1> DEFINE w == qty * px
<1>6. w \in Int /\ (100 * px) * qty = 100 * w
  BY <1>5
<1>7. 100 * w + 100 * total <= cap
  <2> HIDE DEF w
  <2> QED
    BY <1>0, <1>2, <1>4, <1>5, <1>6
<1>8. w * dist <= risk
  <2>1. 100 * w <= share
    <3> HIDE DEF w
    <3> QED
      BY <1>3, <1>4, <1>5, <1>6
  <2> HIDE DEF w
  <2>2. dist * (100 * w) <= dist * share
    <3> DEFINE e == share - 100 * w
    <3>1. e \in Nat
      BY <1>3, <1>6, <2>1
    <3>2. share = 100 * w + e
      BY <1>3, <1>6
    <3> HIDE DEF e
    <3>3. dist * (100 * w + e) = dist * (100 * w) + dist * e /\ dist * e \in Nat
      BY <1>6, <3>1
    <3>4. dist * (100 * w) \in Int
      BY <1>6
    <3> QED
      BY <3>2, <3>3, <3>4
  <2>3. dist * (100 * w) = 100 * (w * dist) /\ w * dist \in Int /\ dist * share \in Int
    BY <1>3, <1>6
  <2> DEFINE x == w * dist
             y == dist * share
             z == dist * (100 * w)
  <2>4. z <= y /\ z = 100 * x /\ x \in Int /\ y \in Int /\ y <= 100 * risk
    BY <1>3, <2>2, <2>3
  <2> HIDE DEF x, y, z
  <2>5. x <= risk
    BY <1>2, <2>4
  <2> QED
    BY <2>5 DEF x
<1>9. qty \in Nat \ {0}
  BY <1>1, <1>5
<1> QED
  BY <1>1, <1>7, <1>8, <1>9, EntriesCardinality DEF total, risk, cap

(* The stop is less than a tick further from the entry than the distance.  *)
LEMMA StopIsNear ==
  ASSUME NEW t \in Entries!Trades
  PROVE  /\ Entries!Distance(t) \in Int
         /\ 100 * (Entries!Distance(t) - 1) <= t.px * t.dist
<1> DEFINE px == t.px
           d == t.dist
           w == px * d
<1>0. px \in Nat /\ d \in Nat /\ t.side \in {1, -1} /\ w \in Int
  BY DEF Entries!Trades, Entries!Sides
<1>1. CASE t.side = 1
  <2> DEFINE n == px * (100 - d)
             q == n \div 100
             r == n % 100
  <2>1. n \in Int /\ n = 100 * px - w
    BY <1>0
  <2> HIDE DEF n, w
  <2>2. r \in 0..99 /\ n = 100 * q + r /\ q \in Int
    <3>1. n \in Int /\ 100 \in Nat \ {0}
      BY <2>1
    <3>2. n % 100 \in 0..(100 - 1) /\ n = 100 * (n \div 100) + (n % 100) /\ n \div 100 \in Int
      BY <3>1, DivisionIs
    <3> QED
      BY <3>2
  <2>3. Entries!Distance(t) = px - q
    BY <1>1 DEF Entries!Distance, Entries!stop_price, n
  <2> HIDE DEF px, d, q, r
  <2>4. px - q \in Int /\ 100 * ((px - q) - 1) <= w
    BY <1>0, <2>1, <2>2
  <2> QED
    BY <2>3, <2>4 DEF w, px, d
<1>2. CASE t.side = -1
  <2> DEFINE n == -(px * (100 + d))
             q == n \div 100
             r == n % 100
  <2>1. n \in Int /\ n = -(100 * px) - w
    BY <1>0
  <2> HIDE DEF n, w
  <2>2. r \in 0..99 /\ n = 100 * q + r /\ q \in Int
    <3>1. n \in Int /\ 100 \in Nat \ {0}
      BY <2>1
    <3>2. n % 100 \in 0..(100 - 1) /\ n = 100 * (n \div 100) + (n % 100) /\ n \div 100 \in Int
      BY <3>1, DivisionIs
    <3> QED
      BY <3>2
  <2>3. Entries!Distance(t) = -q - px
    <3>1. t.side # 1
      BY <1>2
    <3> QED
      BY <3>1 DEF Entries!Distance, Entries!stop_price, n
  <2> HIDE DEF px, d, q, r
  <2>4. -q - px \in Int /\ 100 * ((-q - px) - 1) <= w
    BY <1>0, <2>1, <2>2
  <2> QED
    BY <2>3, <2>4 DEF w, px, d
<1> QED
  BY <1>0, <1>1, <1>2

(* One trade that was within its share, and all of those after a step.     *)
WithinShare(t) == 100 * t.qty * (Entries!Distance(t) - 1) <= risk_per_trade * t.equity

LEMMA RiskIs ==
  /\ Entries!RiskIsBounded <=> \A s \in DOMAIN v3 : WithinShare(v3[s])
  /\ Entries!RiskIsBounded' <=> \A s \in DOMAIN v3' : WithinShare(v3'[s])
<1>1. Entries!RiskIsBounded <=> \A s \in DOMAIN v3 : WithinShare(v3[s])
  BY DEF Entries!RiskIsBounded, WithinShare
<1>2. (Entries!RiskIsBounded <=> \A s \in DOMAIN v3 : WithinShare(v3[s]))'
  BY <1>1, PTL
<1> QED
  BY <1>1, <1>2

(* What a step may do to the trades.                                       *)
EndsTrade(s) == v3' = [x \in DOMAIN v3 \ {s} |-> v3[x]] /\ s \in DOMAIN v3

LEMMA EntriesStarts == ASSUME Entries!Init PROVE Entries!BotInv
<1>0. /\ v1 \in [Coins -> Marks] /\ v2 \in Equities /\ v3 = <<>> /\ v4 = [s \in Coins |-> 0]
  BY DEF Entries!Init
<1>1. v1 \in [Coins -> Nat \ {0}] /\ v2 \in Nat /\ v4 \in [Coins -> Nat] /\ DOMAIN v3 = {}
  <2>1. v1 \in [Coins -> Nat \ {0}]
    BY <1>0, EntriesConstants
  <2>2. v2 \in Nat /\ v4 \in [Coins -> Nat]
    BY <1>0, EntriesConstants
  <2>3. DOMAIN v3 = {}
    BY <1>0
  <2> QED
    BY <2>1, <2>2, <2>3
<1>2. v3 \in [DOMAIN v3 -> Entries!Trades]
  BY <1>0, <1>1
<1>3. Entries!TypeOK /\ Entries!PositionsAreTraded /\ Entries!RiskIsBounded
  BY <1>0, <1>1, <1>2 DEF Entries!TypeOK, Entries!PositionsAreTraded, Entries!RiskIsBounded
<1>4. Entries!TradesAreFew
  BY <1>1, FS_EmptySet, EntriesCardinality, EntriesConstants DEF Entries!TradesAreFew
<1> QED
  BY <1>3, <1>4 DEF Entries!BotInv

(* Every trade after the step was one before, but for its state.           *)
LEMMA TradesStay ==
  ASSUME Entries!TypeOK, Entries!TradesAreFew, Entries!RiskIsBounded,
         DOMAIN v3' \subseteq DOMAIN v3, v3' = [x \in DOMAIN v3' |-> v3'[x]],
         \A s \in DOMAIN v3' :
           \/ v3'[s] = v3[s]
           \/ v3'[s] = [v3[s] EXCEPT !.state = "open"]
  PROVE  /\ DOMAIN v3' \subseteq Coins /\ v3' \in [DOMAIN v3' -> Entries!Trades]
         /\ Entries!TradesAreFew' /\ Entries!RiskIsBounded'
<1>0. DOMAIN v3 \subseteq Coins /\ \A s \in DOMAIN v3 : v3[s] \in Entries!Trades
  BY DEF Entries!TypeOK
<1>1. ASSUME NEW s \in DOMAIN v3'
      PROVE  v3'[s] \in Entries!Trades /\ WithinShare(v3'[s])
  <2>1. v3[s] \in Entries!Trades /\ WithinShare(v3[s])
    BY <1>0, RiskIs
  <2>2. CASE v3'[s] = v3[s]
    BY <2>1, <2>2
  <2>3. CASE v3'[s] = [v3[s] EXCEPT !.state = "open"]
    <3> DEFINE t == v3[s]
               u == v3'[s]
    <3>1. /\ u \in Entries!Trades /\ u.qty = t.qty /\ u.px = t.px /\ u.dist = t.dist
          /\ u.side = t.side /\ u.equity = t.equity
      BY <2>1, <2>3 DEF Entries!Trades
    <3>2. WithinShare(t)
      BY <2>1
    <3> HIDE DEF t, u
    <3>3. WithinShare(u)
      BY <3>1, <3>2 DEF WithinShare, Entries!Distance, Entries!stop_price
    <3> QED
      BY <3>1, <3>3 DEF u
  <2> QED
    BY <2>2, <2>3
<1>2. Entries!RiskIsBounded'
  BY <1>1, RiskIs
<1>3. v3' \in [DOMAIN v3' -> Entries!Trades]
  BY <1>1
<1>4. Entries!TradesAreFew'
  <2> DEFINE S == DOMAIN v3
             T == DOMAIN v3'
  <2>1. T \in SUBSET S /\ S \in SUBSET Coins
    BY <1>0
  <2>2. Entries!Cardinality(S) <= bot_max_positions
    BY DEF Entries!TradesAreFew
  <2>3. Entries!TradesAreFew' <=> Entries!Cardinality(T) <= bot_max_positions
    BY DEF Entries!TradesAreFew, Entries!Cardinality
  <2> HIDE DEF S, T
  <2>4. IsFiniteSet(S)
    BY <2>1, EntriesConstants, FS_Subset
  <2>5. IsFiniteSet(T) /\ Cardinality(T) <= Cardinality(S)
    BY <2>1, <2>4, FS_Subset
  <2>6. Cardinality(T) \in Nat /\ Cardinality(S) \in Nat
    BY <2>4, <2>5, FS_CardinalityType
  <2> QED
    BY <2>2, <2>3, <2>5, <2>6, EntriesCardinality, EntriesConstants
<1> QED
  BY <1>0, <1>2, <1>3, <1>4

(* What the opening of a trade does.                                       *)
LEMMA OpenIs ==
  ASSUME Entries!BotInv, NEW s \in Coins, NEW side \in Entries!Sides, NEW dist \in Distances,
         Entries!Open(s, side, dist)
  PROVE  \E t \in Entries!Trades :
           /\ s \notin DOMAIN v3 /\ v4[s] = 0
           /\ v3' = [x \in DOMAIN v3 \cup {s} |-> IF x = s THEN t ELSE v3[x]]
           /\ UNCHANGED <<v1, v2, v4>>
           /\ t.state = "entry" /\ WithinShare(t)
           /\ 100 * (t.qty * t.px) + 100 * SumFunctionOnSet(Worth, Coins) <= cap_gross * v2
           /\ Cardinality(DOMAIN v3) < bot_max_positions
<1> DEFINE px == Entries!entry_price(s, side)
           qty == Entries!size(s, px, dist)
           t == [side |-> side, qty |-> qty, px |-> px, dist |-> dist, equity |-> v2,
                 state |-> "entry"]
           total == SumFunctionOnSet(Worth, Coins)
<1>0. /\ Entries!TypeOK /\ v1 \in [Coins -> Nat \ {0}] /\ v2 \in Nat /\ v4 \in [Coins -> Nat]
      /\ DOMAIN v3 \subseteq Coins /\ dist \in Nat \ {0}
  BY EntriesConstants DEF Entries!BotInv, Entries!TypeOK
<1>1. px \in Nat \ {0}
  BY <1>0 DEF Entries!entry_price
<1>2. /\ s \notin DOMAIN v3 /\ qty # 0 /\ UNCHANGED <<v1, v2, v4>>
      /\ v3' = [x \in DOMAIN v3 \cup {s} |-> IF x = s THEN t ELSE v3[x]]
  BY DEF Entries!Open
<1> HIDE DEF px
<1>3. /\ qty \in Nat \ {0} /\ (qty * px) * dist <= risk_per_trade * v2
      /\ 100 * (qty * px) + 100 * total <= cap_gross * v2
      /\ Cardinality(DOMAIN Entries!open_notional) < bot_max_positions
  BY <1>0, <1>1, <1>2, SizeIsSmall
<1>4. DOMAIN Entries!open_notional = DOMAIN v3
  BY <1>0 DEF Entries!BotInv, Entries!PositionsAreTraded, Entries!open_notional
<1>5. v4[s] = 0
  BY <1>2 DEF Entries!BotInv, Entries!PositionsAreTraded
<1> HIDE DEF qty, total
<1>6. t \in Entries!Trades /\ t.qty = qty /\ t.px = px /\ t.dist = dist /\ t.equity = v2
      /\ t.state = "entry"
  BY <1>0, <1>1, <1>3 DEF Entries!Trades
<1> HIDE DEF t
<1>7. WithinShare(t)
  <2> DEFINE e == Entries!Distance(t) - 1
             w == px * dist
  <2>1. Entries!Distance(t) \in Int /\ 100 * e <= w
    BY <1>6, StopIsNear
  <2>2. e \in Int /\ w \in Int
    BY <1>0, <1>1, <2>1
  <2>3. WithinShare(t) <=> 100 * qty * e <= risk_per_trade * v2
    BY <1>6 DEF WithinShare
  <2> HIDE DEF e
  <2>4. (qty * px) * dist = qty * w
    BY <1>0, <1>1, <1>3
  <2> HIDE DEF w
  <2>5. 100 * qty * e <= qty * w
    <3> DEFINE f == w - 100 * e
    <3>1. f \in Nat /\ w = 100 * e + f
      BY <2>1, <2>2
    <3> HIDE DEF f
    <3>2. qty * (100 * e + f) = 100 * qty * e + qty * f
      BY <1>3, <2>2, <3>1
    <3>3. qty * f \in Nat /\ 100 * qty * e \in Int
      BY <1>3, <2>2, <3>1
    <3> DEFINE x == qty * f
               y == 100 * qty * e
    <3>4. qty * w = y + x /\ x \in Nat /\ y \in Int
      BY <3>1, <3>2, <3>3
    <3> HIDE DEF x, y
    <3>5. y <= qty * w
      BY <3>4
    <3> QED
      BY <3>5 DEF y
  <2>6. qty * w <= risk_per_trade * v2
    BY <1>3, <2>4
  <2> DEFINE x == 100 * qty * e
             y == qty * w
             z == risk_per_trade * v2
  <2>7. x \in Int /\ y \in Int /\ z \in Int /\ x <= y /\ y <= z
    BY <1>0, <1>3, <2>2, <2>5, <2>6, EntriesConstants
  <2> HIDE DEF x, y, z
  <2>8. x <= z
    BY <2>7
  <2> QED
    BY <2>3, <2>8 DEF x, z
<1> QED
  BY <1>2, <1>3, <1>4, <1>5, <1>6, <1>7 DEF total, t

LEMMA EntriesStep ==
  ASSUME Entries!BotInv, Entries!Next
  PROVE  Entries!BotInv'
<1>0. /\ Entries!TypeOK /\ Entries!PositionsAreTraded /\ Entries!TradesAreFew
      /\ Entries!RiskIsBounded
      /\ v1 \in [Coins -> Nat \ {0}] /\ v2 \in Nat /\ v4 \in [Coins -> Nat]
      /\ DOMAIN v3 \subseteq Coins /\ v3 \in [DOMAIN v3 -> Entries!Trades]
  BY DEF Entries!BotInv, Entries!TypeOK
<1>1. ASSUME v1' \in [Coins -> Nat \ {0}], v2' \in Nat, v4' \in [Coins -> Nat],
             DOMAIN v3' \subseteq DOMAIN v3, v3' = [x \in DOMAIN v3' |-> v3'[x]],
             \A s \in DOMAIN v3' : v3'[s] \in {v3[s], [v3[s] EXCEPT !.state = "open"]},
             \A s \in Coins : v4'[s] # 0 => s \in DOMAIN v3'
      PROVE  Entries!BotInv'
  <2>1. /\ DOMAIN v3' \subseteq Coins /\ v3' \in [DOMAIN v3' -> Entries!Trades]
        /\ Entries!TradesAreFew' /\ Entries!RiskIsBounded'
    BY <1>0, <1>1, TradesStay
  <2>2. Entries!TypeOK'
    BY <1>1, <2>1 DEF Entries!TypeOK, Entries!Trades, Entries!Sides
  <2>3. Entries!PositionsAreTraded'
    BY <1>1 DEF Entries!PositionsAreTraded
  <2> QED
    BY <2>1, <2>2, <2>3 DEF Entries!BotInv
<1>2. ASSUME NEW s \in Coins, NEW side \in Entries!Sides, NEW dist \in Distances,
             Entries!Open(s, side, dist)
      PROVE  Entries!BotInv'
  <2>1. PICK t \in Entries!Trades :
           /\ s \notin DOMAIN v3 /\ v4[s] = 0
           /\ v3' = [x \in DOMAIN v3 \cup {s} |-> IF x = s THEN t ELSE v3[x]]
           /\ UNCHANGED <<v1, v2, v4>>
           /\ WithinShare(t) /\ Cardinality(DOMAIN v3) < bot_max_positions
    BY <1>2, OpenIs
  <2>2. DOMAIN v3' = DOMAIN v3 \cup {s}
    BY <2>1
  <2>3. v3' \in [DOMAIN v3' -> Entries!Trades]
    BY <1>0, <2>1, <2>2
  <2>4. Entries!TypeOK'
    BY <1>0, <2>1, <2>2, <2>3 DEF Entries!TypeOK, Entries!Trades, Entries!Sides
  <2>5. Entries!PositionsAreTraded'
    BY <1>0, <2>1, <2>2 DEF Entries!PositionsAreTraded
  <2>6. Entries!RiskIsBounded'
    <3>1. \A x \in DOMAIN v3 : WithinShare(v3[x])
      BY <1>0, RiskIs
    <3>2. \A x \in DOMAIN v3' : WithinShare(v3'[x])
      BY <2>1, <2>2, <3>1
    <3> QED
      BY <3>2, RiskIs
  <2>7. Entries!TradesAreFew'
    <3>1. IsFiniteSet(DOMAIN v3)
      BY <1>0, EntriesConstants, FS_Subset
    <3>2. Cardinality(DOMAIN v3 \cup {s}) = Cardinality(DOMAIN v3) + 1
      BY <2>1, <3>1, FS_AddElement
    <3>3. Cardinality(DOMAIN v3) \in Nat
      BY <3>1, FS_CardinalityType
    <3>4. Cardinality(DOMAIN v3') <= bot_max_positions
      BY <2>1, <2>2, <3>2, <3>3, EntriesConstants
    <3>5. Entries!TradesAreFew' <=> Entries!Cardinality(DOMAIN v3') <= bot_max_positions
      BY DEF Entries!TradesAreFew, Entries!Cardinality
    <3> QED
      BY <3>4, <3>5, EntriesCardinality
  <2> QED
    BY <2>4, <2>5, <2>6, <2>7 DEF Entries!BotInv
<1>3. ASSUME Entries!Move PROVE Entries!BotInv'
  <2>1. v3' = v3 /\ v4' = v4 /\ v1' \in [Coins -> Nat \ {0}] /\ v2' \in Nat
    BY <1>0, <1>3, EntriesConstants DEF Entries!Move
  <2> QED
    BY <1>0, <1>1, <2>1 DEF Entries!PositionsAreTraded
<1>4. ASSUME NEW s \in Coins, Entries!Fill(s) PROVE Entries!BotInv'
  <2>1. s \in DOMAIN v3
    BY <1>4 DEF Entries!Fill, Entries!Rest
  <2>2. PICK q \in 1 .. Entries!Rest(s) : v4' = [v4 EXCEPT ![s] = @ + q]
    BY <1>4 DEF Entries!Fill
  <2>3. v3' = v3 /\ v1' = v1 /\ v2' = v2 /\ v4' \in [Coins -> Nat]
    BY <1>0, <1>4, <2>2 DEF Entries!Fill
  <2>4. \A x \in Coins : v4'[x] # 0 => x \in DOMAIN v3'
    BY <1>0, <2>1, <2>2, <2>3 DEF Entries!PositionsAreTraded
  <2> QED
    BY <1>0, <1>1, <2>3, <2>4
<1>5. ASSUME NEW s \in Coins, EndsTrade(s), v4[s] = 0, UNCHANGED <<v1, v2, v4>> PROVE Entries!BotInv'
  <2>1. DOMAIN v3' = DOMAIN v3 \ {s} /\ \A x \in DOMAIN v3' : v3'[x] = v3[x]
    BY <1>5 DEF EndsTrade
  <2>2. v3' = [x \in DOMAIN v3' |-> v3'[x]]
    BY <1>5 DEF EndsTrade
  <2>3. \A x \in Coins : v4'[x] # 0 => x \in DOMAIN v3'
    BY <1>0, <1>5, <2>1 DEF Entries!PositionsAreTraded
  <2> QED
    BY <1>0, <1>1, <1>5, <2>1, <2>2, <2>3
<1>6. ASSUME NEW s \in Coins, Entries!EntryEnds(s) PROVE Entries!BotInv'
  <2>1. s \in DOMAIN v3 /\ UNCHANGED <<v1, v2, v4>>
    BY <1>6 DEF Entries!EntryEnds
  <2>2. CASE v4[s] = 0
    BY <1>5, <1>6, <2>1, <2>2 DEF Entries!EntryEnds, Entries!Forget, EndsTrade
  <2>3. CASE v4[s] # 0
    <3>1. v3' = [v3 EXCEPT ![s].state = "open"]
      BY <1>6, <2>3 DEF Entries!EntryEnds
    <3>2. DOMAIN v3' = DOMAIN v3 /\ v3' = [x \in DOMAIN v3' |-> v3'[x]]
      BY <1>0, <3>1
    <3>3. \A x \in DOMAIN v3' : v3'[x] \in {v3[x], [v3[x] EXCEPT !.state = "open"]}
      BY <1>0, <2>1, <3>1, <3>2
    <3>4. \A x \in Coins : v4'[x] # 0 => x \in DOMAIN v3'
      BY <1>0, <2>1, <3>2 DEF Entries!PositionsAreTraded
    <3> QED
      BY <1>0, <1>1, <2>1, <3>2, <3>3, <3>4
  <2> QED
    BY <2>2, <2>3
<1>7. ASSUME NEW s \in Coins, Entries!Reduce(s) PROVE Entries!BotInv'
  <2>2. PICK q \in 1 .. v4[s] : v4' = [v4 EXCEPT ![s] = @ - q]
    BY <1>7 DEF Entries!Reduce
  <2>3. v3' = v3 /\ v1' = v1 /\ v2' = v2 /\ s \in DOMAIN v3
    BY <1>7 DEF Entries!Reduce
  <2>5. v4' \in [Coins -> Nat]
    BY <1>0, <2>2
  <2>4. \A x \in Coins : v4'[x] # 0 => x \in DOMAIN v3'
    BY <1>0, <2>2, <2>3 DEF Entries!PositionsAreTraded
  <2> QED
    BY <1>0, <1>1, <2>3, <2>4, <2>5
<1>8. ASSUME NEW s \in Coins, Entries!Finish(s) PROVE Entries!BotInv'
  BY <1>5, <1>8 DEF Entries!Finish, Entries!Forget, EndsTrade
<1> QED
  BY <1>2, <1>3, <1>4, <1>6, <1>7, <1>8 DEF Entries!Next

LEMMA EntriesMean ==
  ASSUME Entries!BotInv
  PROVE  Entries!RiskIsBounded /\ Entries!PositionsAreBounded
<1> DEFINE S == {s \in Coins : v4[s] # 0 \/ Entries!Rest(s) # 0}
           T == DOMAIN v3
<1>1. S \in SUBSET T /\ T \in SUBSET Coins
  BY DEF Entries!BotInv, Entries!PositionsAreTraded, Entries!TypeOK, Entries!Rest
<1>2. Entries!Cardinality(T) <= bot_max_positions
  BY DEF Entries!BotInv, Entries!TradesAreFew
<1>3. Entries!Cardinality(S) <= bot_max_positions
  <2> HIDE DEF S, T
  <2>4. IsFiniteSet(T)
    BY <1>1, EntriesConstants, FS_Subset
  <2>5. IsFiniteSet(S) /\ Cardinality(S) <= Cardinality(T)
    BY <1>1, <2>4, FS_Subset
  <2>6. Cardinality(T) \in Nat /\ Cardinality(S) \in Nat
    BY <2>4, <2>5, FS_CardinalityType
  <2> QED
    BY <1>2, <2>5, <2>6, EntriesCardinality, EntriesConstants
<1> QED
  BY <1>3 DEF Entries!BotInv, Entries!PositionsAreBounded

-----------------------------------------------------------------------------
(* Gross exposure, when an entry is placed.                                *)

(* A trade is opened by no other step.                                     *)
LEMMA OnlyOpenOpens ==
  ASSUME Entries!BotInv, Entries!Next, Entries!Opens
  PROVE  \E s \in Coins, side \in Entries!Sides, dist \in Distances : Entries!Open(s, side, dist)
<1>1. v3' # v3 /\ ~ DOMAIN v3' \subseteq DOMAIN v3
  BY DEF Entries!Opens
<1>2. \A s \in Coins : Entries!EntryEnds(s) => DOMAIN v3' \subseteq DOMAIN v3
  BY DEF Entries!EntryEnds, Entries!Forget
<1>3. \A s \in Coins : Entries!Finish(s) => DOMAIN v3' \subseteq DOMAIN v3
  BY DEF Entries!Finish, Entries!Forget
<1>4. ~ Entries!Move /\ \A s \in Coins : ~ Entries!Fill(s) /\ ~ Entries!Reduce(s)
  BY <1>1 DEF Entries!Move, Entries!Fill, Entries!Reduce
<1> QED
  BY <1>1, <1>2, <1>3, <1>4 DEF Entries!Next

(* Of one coin: what is committed, and what of it the sizing does not see. *)
Left(t, x, p) == IF x \in DOMAIN t /\ t[x].state = "entry" THEN t[x].qty - p[x] ELSE 0
LeftWorth(t, x, p) == IF Left(t, x, p) = 0 THEN 0 ELSE Left(t, x, p) * t[x].px
AtStake(m, t, p) == [x \in Coins |-> p[x] * m[x] + LeftWorth(t, x, p)]
Blind == [x \in Coins |-> IF v4[x] # 0 THEN LeftWorth(v3, x, v4) ELSE 0]

LEMMA StakeIs ==
  /\ Entries!Committed' = SumFunctionOnSet(AtStake(v1', v3', v4'), Coins)
  /\ Entries!Unseen = SumFunctionOnSet(Blind, Coins)
<1>1. \A x : Entries!RestWorth(x) = LeftWorth(v3, x, v4)
  BY DEF Entries!RestWorth, Entries!Rest, LeftWorth, Left
<1>2. Entries!Committed = Entries!SumFunction(AtStake(v1, v3, v4))
  BY <1>1 DEF Entries!Committed, AtStake
<1>3. DOMAIN AtStake(v1, v3, v4) = Coins /\ DOMAIN Blind = Coins
  BY DEF AtStake, Blind
<1>4. Entries!Committed = SumFunctionOnSet(AtStake(v1, v3, v4), Coins)
  BY <1>2, <1>3, EntriesSumIs
<1>5. (Entries!Committed = SumFunctionOnSet(AtStake(v1, v3, v4), Coins))'
  BY <1>4, PTL
<1>6. Entries!Unseen = Entries!SumFunction(Blind)
  BY <1>1 DEF Entries!Unseen, Blind
<1> QED
  BY <1>3, <1>5, <1>6, EntriesSumIs

LEMMA EntriesCaps ==
  ASSUME Entries!BotInv, Entries!Next
  PROVE  Entries!GrossIsBounded
<1> SUFFICES ASSUME Entries!Opens PROVE 100 * (Entries!Committed' - Entries!Unseen) <= cap_gross * v2
  BY DEF Entries!GrossIsBounded
<1>0. /\ Entries!TypeOK /\ Entries!PositionsAreTraded
      /\ v1 \in [Coins -> Nat \ {0}] /\ v2 \in Nat /\ v4 \in [Coins -> Nat]
      /\ DOMAIN v3 \subseteq Coins /\ \A x \in DOMAIN v3 : v3[x] \in Entries!Trades
  BY DEF Entries!BotInv, Entries!TypeOK
<1>1. PICK s \in Coins, side \in Entries!Sides, dist \in Distances : Entries!Open(s, side, dist)
  BY OnlyOpenOpens
<1>2. PICK t \in Entries!Trades :
         /\ s \notin DOMAIN v3 /\ v4[s] = 0
         /\ v3' = [x \in DOMAIN v3 \cup {s} |-> IF x = s THEN t ELSE v3[x]]
         /\ UNCHANGED <<v1, v2, v4>>
         /\ t.state = "entry"
         /\ 100 * (t.qty * t.px) + 100 * SumFunctionOnSet(Worth, Coins) <= cap_gross * v2
  BY <1>1, OpenIs
<1> DEFINE f == AtStake(v1', v3', v4')
           u == Blind
           w == t.qty * t.px
           g == [x \in Coins |-> f[x] - u[x]]
           h == [x \in Coins |-> IF x = s THEN Worth[s] + w ELSE Worth[x]]
<1>3. w \in Int /\ t.qty \in Nat \ {0} /\ t.px \in Nat
  BY DEF Entries!Trades
<1>4. ASSUME NEW x \in Coins
      PROVE  /\ f[x] \in Int /\ u[x] \in Int /\ g[x] \in Int /\ h[x] \in Int
             /\ g[x] <= h[x] /\ f[x] = g[x] + u[x]
  <2> DEFINE m == v4[x] * v1[x]
             k == LeftWorth(v3', x, v4')
             l == LeftWorth(v3, x, v4)
  <2>0. v1[x] \in Nat /\ v4[x] \in Nat /\ m \in Int /\ v4' = v4 /\ v1' = v1
    BY <1>0, <1>2
  <2>1. f[x] = m + k /\ u[x] = IF v4[x] # 0 THEN l ELSE 0
    BY <2>0 DEF AtStake, Blind
  <2>2. CASE x = s
    <3>1. v3'[s] = t /\ s \in DOMAIN v3'
      BY <1>2
    <3>2. Left(v3', s, v4') = t.qty - 0
      BY <1>2, <3>1 DEF Left
    <3>3. k = w
      BY <1>3, <2>2, <3>1, <3>2 DEF LeftWorth
    <3>4. v4[x] = 0 /\ x \notin DOMAIN v3
      BY <1>2, <2>2
    <3>5. m = 0
      BY <2>0, <3>4
    <3>6. Worth[s] = 0
      BY <2>2, <3>4 DEF Worth
    <3> HIDE DEF m, k, l, f, u, w
    <3>7. f[x] = w /\ u[x] = 0 /\ h[x] = w
      BY <1>3, <2>1, <2>2, <3>3, <3>4, <3>5, <3>6
    <3>8. g[x] = f[x] - u[x]
      OBVIOUS
    <3> HIDE DEF g, h
    <3> QED
      BY <1>3, <3>7, <3>8
  <2>3. CASE x # s
    <3>1. (x \in DOMAIN v3' <=> x \in DOMAIN v3) /\ (x \in DOMAIN v3 => v3'[x] = v3[x])
      BY <1>2, <2>3
    <3>2. Left(v3', x, v4') = Left(v3, x, v4)
      BY <2>0, <3>1 DEF Left
    <3>3. k = l
      <4>1. Left(v3, x, v4) # 0 => x \in DOMAIN v3
        BY DEF Left
      <4> QED
        BY <3>1, <3>2, <4>1 DEF LeftWorth
    <3>4. l \in Int /\ (v4[x] = 0 => l <= Worth[x])
      <4>1. CASE x \in DOMAIN v3
        <5>1. v3[x].qty \in Nat /\ v3[x].px \in Nat
          BY <1>0, <4>1 DEF Entries!Trades
        <5>2. Left(v3, x, v4) \in Int
          BY <2>0, <5>1 DEF Left
        <5>3. l \in Int
          BY <5>1, <5>2 DEF LeftWorth
        <5>4. ASSUME v4[x] = 0 PROVE l <= Worth[x]
          <6> DEFINE e == v3[x].qty * v3[x].px
          <6>1. Worth[x] = e /\ e \in Nat
            BY <4>1, <5>1, <5>4 DEF Worth
          <6>2. Left(v3, x, v4) = v3[x].qty \/ Left(v3, x, v4) = 0
            BY <5>1, <5>4 DEF Left
          <6>3. l = e \/ l = 0
            BY <6>2 DEF LeftWorth
          <6> HIDE DEF e, l
          <6> QED
            BY <6>1, <6>3
        <5> QED
          BY <5>3, <5>4
      <4>2. CASE x \notin DOMAIN v3
        <5>1. l = 0
          BY <4>2 DEF LeftWorth, Left
        <5>2. v4[x] = 0 => Worth[x] = 0
          BY <4>2 DEF Worth
        <5> HIDE DEF l
        <5> QED
          BY <5>1, <5>2
      <4> QED
        BY <4>1, <4>2
    <3>5. v4[x] # 0 => Worth[x] = m
      BY DEF Worth
    <3>6. v4[x] = 0 => m = 0
      BY <2>0
    <3>7. Worth[x] \in Int
      BY <1>0, NotionalCounts
    <3>8. g[x] = f[x] - u[x] /\ h[x] = Worth[x]
      BY <2>3
    <3> HIDE DEF m, k, l, f, u, g, h
    <3>9. f[x] \in Int /\ u[x] \in Int
      BY <2>0, <2>1, <3>3, <3>4
    <3>10. g[x] <= h[x]
      <4>1. CASE v4[x] = 0
        BY <2>0, <2>1, <3>3, <3>4, <3>6, <3>7, <3>8, <4>1
      <4>2. CASE v4[x] # 0
        BY <2>0, <2>1, <3>3, <3>4, <3>5, <3>7, <3>8, <4>2
      <4> QED
        BY <4>1, <4>2
    <3> QED
      BY <3>7, <3>8, <3>9, <3>10
  <2> QED
    BY <2>2, <2>3
<1>5. Worth[s] \in Int /\ \A x \in Coins : Worth[x] \in Int
  BY <1>0, NotionalCounts
<1>6. h[s] = Worth[s] + w /\ \A x \in Coins \ {s} : h[x] = Worth[x]
  OBVIOUS
<1> HIDE DEF f, u, g, h, w
<1>7. SumFunctionOnSet(f, Coins) = SumFunctionOnSet(g, Coins) + SumFunctionOnSet(u, Coins)
  BY <1>4, EntriesConstants, SumOfBoth
<1>8. SumFunctionOnSet(g, Coins) <= SumFunctionOnSet(h, Coins)
  BY <1>4, EntriesConstants, SumWithin
<1>9. SumFunctionOnSet(h, Coins) = SumFunctionOnSet(Worth, Coins) - Worth[s] + h[s]
  <2>1. \A x \in Coins : Worth[x] \in Int /\ h[x] \in Int
    BY <1>4, <1>5
  <2>2. \A x \in Coins \ {s} : h[x] = Worth[x]
    BY <1>6
  <2>3. IsFiniteSet(Coins)
    BY EntriesConstants
  <2> QED
    BY <2>1, <2>2, <2>3, SumChanges
<1>10. /\ SumFunctionOnSet(g, Coins) \in Int /\ SumFunctionOnSet(u, Coins) \in Int
       /\ SumFunctionOnSet(h, Coins) \in Int /\ SumFunctionOnSet(Worth, Coins) \in Int
  BY <1>4, <1>5, EntriesConstants, SumSteps
<1>11. Entries!Committed' = SumFunctionOnSet(f, Coins) /\ Entries!Unseen = SumFunctionOnSet(u, Coins)
  BY StakeIs DEF f, u
<1>12. 100 * w + 100 * SumFunctionOnSet(Worth, Coins) <= cap_gross * v2
  BY <1>2 DEF w
<1>13. cap_gross * v2 \in Int
  BY <1>0, EntriesConstants
<1> DEFINE a == SumFunctionOnSet(g, Coins)
           b == SumFunctionOnSet(u, Coins)
           c == SumFunctionOnSet(Worth, Coins)
           z == cap_gross * v2
<1>14. /\ a \in Int /\ b \in Int /\ c \in Int /\ z \in Int /\ a <= c + w
       /\ Entries!Committed' = a + b /\ Entries!Unseen = b /\ 100 * w + 100 * c <= z
  BY <1>3, <1>5, <1>6, <1>7, <1>8, <1>9, <1>10, <1>11, <1>12, <1>13
<1> HIDE DEF a, b, c, z
<1>15. 100 * (Entries!Committed' - Entries!Unseen) <= z
  BY <1>3, <1>14
<1> QED
  BY <1>15 DEF z

-----------------------------------------------------------------------------
(* What does not change of the limits stays true.                          *)

LEMMA BudgetStays ==
  ASSUME Budget!BudgetInv, UNCHANGED <<v1, v2, v3, v4, v5, v6, v7, v8, v9, v10, v11>>
  PROVE  Budget!BudgetInv'
<1>1. Budget!TypeOK'
  BY DEF Budget!TypeOK, Budget!BudgetInv
<1>2. Budget!Rolled' = Budget!Rolled /\ Budget!Forgotten' = Budget!Forgotten
  BY DEF Budget!Rolled, Budget!Window, Budget!Forgotten, Budget!Crossed
<1>3. ASSUME NEW x \in Nat, Budget!Rolled' <= x PROVE Budget!Explained(x)'
  <2>1. Budget!Explained(x)
    BY <1>2, <1>3, ExplainedBeyond
  <2>2. Budget!Untold(x)' = Budget!Untold(x)
    BY DEF Budget!Untold, Budget!Minute
  <2> QED
    BY <1>2, <2>1, <2>2 DEF Budget!Explained, Budget!Ours
<1>4. Budget!UseIsKnown'
  BY <1>1, <1>3, UseStaysKnown DEF Budget!BudgetInv, Budget!UseIsKnown
<1>5. Budget!Sent' = Budget!Sent /\ Budget!Waiting' = Budget!Waiting
  BY DEF Budget!Sent, Budget!Waiting
<1>6. Budget!FlightIsCounted' /\ Budget!BudgetIsKept'
  BY <1>2, <1>5 DEF Budget!FlightIsCounted, Budget!BudgetIsKept, Budget!BudgetInv, Budget!Ours
<1> QED
  BY <1>1, <1>4, <1>6 DEF Budget!BudgetInv

LEMMA RiskStays ==
  ASSUME Risk!RiskInv, UNCHANGED <<v1, v2, v3, v4, v5, v6, v7, v8, v9>>
  PROVE  Risk!RiskInv'
<1>0. /\ Risk!TypeOK /\ Risk!Numbered /\ Risk!Past /\ Risk!GrossIsKnown /\ Risk!NumberIsKnown
      /\ Risk!OrdersAreCounted /\ Risk!RatesHold
  BY DEF Risk!RiskInv
<1>1. Risk!TypeOK' /\ Risk!Numbered' /\ Risk!Past'
  BY <1>0 DEF Risk!TypeOK, Risk!Numbered, Risk!Past
<1>2. Risk!GrossIsKnown'
  <2>1. Risk!Entries' = Risk!Entries
    BY DEF Risk!Entries
  <2>2. Risk!Bid' = Risk!Bid
    BY <2>1, BidIs
  <2>3. [s \in Symbols |-> Risk!Absolute(v2[s])]' = [s \in Symbols |-> Risk!Absolute(v2[s])]
    OBVIOUS
  <2>4. Risk!Gross' = Risk!Gross
    BY <2>3 DEF Risk!Gross
  <2> QED
    BY <1>0, <2>2, <2>4 DEF Risk!GrossIsKnown
<1>3. Risk!NumberIsKnown'
  <2>1. Risk!Held' = Risk!Held /\ Bidden' = Bidden
    BY DEF Risk!Held, Bidden, Risk!Entries
  <2> QED
    BY <1>0, <2>1, NumberKeeps DEF Risk!TypeOK
<1>4. Risk!OrdersAreCounted'
  BY <1>0, CountedIs
<1>5. Risk!RatesHold'
  BY <1>0, RatesAre
<1> QED
  BY <1>1, <1>2, <1>3, <1>4, <1>5 DEF Risk!RiskInv

LEMMA EntriesStay ==
  ASSUME Entries!BotInv, UNCHANGED <<v1, v2, v3, v4>>
  PROVE  Entries!BotInv'
<1>1. Entries!TypeOK' /\ Entries!PositionsAreTraded' /\ Entries!TradesAreFew'
  BY DEF Entries!BotInv, Entries!TypeOK, Entries!PositionsAreTraded, Entries!TradesAreFew
<1>2. Entries!RiskIsBounded'
  BY RiskIs DEF Entries!BotInv
<1> QED
  BY <1>1, <1>2 DEF Entries!BotInv

-----------------------------------------------------------------------------
(* Sets of numbers.                                                        *)

(* Induction over a set of numbers.                                        *)
LEMMA CountingUp ==
  ASSUME NEW S, 0 \in S, \A n \in Nat : n \in S => n + 1 \in S
  PROVE  \A n \in Nat : n \in S
<1> SUFFICES ASSUME NEW m \in Nat, m \notin S PROVE FALSE
  OBVIOUS
<1> DEFINE Out == {n \in Nat : n \notin S}
<1>1. PICK f \in Out : \A g \in Out : <<g, f>> \notin OpToRel(<, Nat)
  BY NatLessThanWellFounded, WFMin
<1>2. \A g \in Out : f <= g
  <2>1. \A i, j \in Nat : <<j, i>> \notin OpToRel(<, Nat) => i <= j
    BY DEF OpToRel
  <2> QED
    BY <1>1, <2>1
<1>3. f # 0 /\ f - 1 \in Nat
  OBVIOUS
<1>4. f - 1 \in S
  BY <1>2, <1>3
<1> QED
  BY <1>3, <1>4

(* A bounded set of numbers has a least and a greatest one.                *)
LEMMA BestExist ==
  ASSUME NEW n \in Nat, NEW T \in SUBSET (1..n), T # {}
  PROVE  (\E x \in T : \A k \in T : x <= k) /\ (\E x \in T : \A k \in T : x >= k)
<1> DEFINE Has(m) == \A r \in SUBSET (1..m) : r # {} =>
             (\E x \in r : \A k \in r : x <= k) /\ (\E x \in r : \A k \in r : x >= k)
           S == {m \in Nat : Has(m)}
<1>1. Has(0)
  <2>1. 1..0 = {}
    OBVIOUS
  <2> QED
    BY <2>1
<1>2. ASSUME NEW m \in Nat, Has(m) PROVE Has(m + 1)
  <2> SUFFICES ASSUME NEW r \in SUBSET (1..(m + 1)), r # {}
               PROVE  (\E x \in r : \A k \in r : x <= k) /\ (\E x \in r : \A k \in r : x >= k)
    OBVIOUS
  <2>1. CASE r \subseteq 1..m
    BY <1>2, <2>1
  <2>2. CASE m + 1 \in r /\ r \ {m + 1} = {}
    BY <2>2
  <2>3. CASE m + 1 \in r /\ r \ {m + 1} # {}
    <3>1. r \ {m + 1} \in SUBSET (1..m)
      OBVIOUS
    <3>2. PICK x \in r \ {m + 1} : \A k \in r \ {m + 1} : x <= k
      BY <1>2, <2>3, <3>1
    <3>3. \A k \in r : x <= k /\ m + 1 >= k
      BY <3>1, <3>2
    <3> QED
      BY <2>3, <3>3
  <2> QED
    BY <2>1, <2>2, <2>3
<1>3. Has(n)
  <2>1. n \in S
    <3>1. 0 \in S /\ \A m \in Nat : m \in S => m + 1 \in S
      <4> HIDE DEF Has
      <4> QED
        BY <1>1, <1>2
    <3>2. \A m \in Nat : m \in S
      <4> HIDE DEF S
      <4> QED
        BY <3>1, CountingUp
    <3> QED
      BY <3>2
  <2> QED
    BY <2>1
<1> QED
  BY <1>3

-----------------------------------------------------------------------------
(* The recorder, and the check of the day.                                 *)

LEMMA CaptureRanges ==
  ASSUME NEW S, NEW s \in Seq(S)
  PROVE  /\ Capture!Range(s) \subseteq S
         /\ \A x \in S : Append(s, x) \in Seq(S) /\ Capture!Range(Append(s, x)) = Capture!Range(s) \cup {x}
         /\ s # <<>> => Tail(s) \in Seq(S) /\ Capture!Range(Tail(s)) \subseteq Capture!Range(s)
         /\ \A t \in Seq(S) : s \o t \in Seq(S) /\ Capture!Range(s \o t) = Capture!Range(s) \cup Capture!Range(t)
<1>0. s \in [1..Len(s) -> S] /\ Len(s) \in Nat
  OBVIOUS
<1>1. Capture!Range(s) \subseteq S
  BY <1>0 DEF Capture!Range
<1>2. ASSUME NEW x \in S
      PROVE  Append(s, x) \in Seq(S) /\ Capture!Range(Append(s, x)) = Capture!Range(s) \cup {x}
  <2>1. /\ Append(s, x) \in Seq(S) /\ DOMAIN Append(s, x) = 1..Len(s) + 1
        /\ \A i \in 1..Len(s) : Append(s, x)[i] = s[i]
        /\ Append(s, x)[Len(s) + 1] = x
    OBVIOUS
  <2>2. 1..Len(s) + 1 = (1..Len(s)) \cup {Len(s) + 1}
    BY <1>0
  <2> QED
    BY <1>0, <2>1, <2>2 DEF Capture!Range
<1>3. s # <<>> => Tail(s) \in Seq(S) /\ Capture!Range(Tail(s)) \subseteq Capture!Range(s)
  <2> SUFFICES ASSUME s # <<>>
               PROVE  Tail(s) \in Seq(S) /\ Capture!Range(Tail(s)) \subseteq Capture!Range(s)
    OBVIOUS
  <2>1. /\ Tail(s) \in Seq(S) /\ DOMAIN Tail(s) = 1..Len(s) - 1
        /\ \A i \in 1..Len(s) - 1 : Tail(s)[i] = s[i + 1]
    OBVIOUS
  <2>2. \A i \in 1..Len(s) - 1 : i + 1 \in 1..Len(s)
    BY <1>0
  <2> QED
    BY <1>0, <2>1, <2>2 DEF Capture!Range
<1>4. ASSUME NEW t \in Seq(S)
      PROVE  s \o t \in Seq(S) /\ Capture!Range(s \o t) = Capture!Range(s) \cup Capture!Range(t)
  <2>0. t \in [1..Len(t) -> S] /\ Len(t) \in Nat
    OBVIOUS
  <2>1. /\ s \o t \in Seq(S) /\ DOMAIN (s \o t) = 1..Len(s) + Len(t)
        /\ \A i \in 1..Len(s) : (s \o t)[i] = s[i]
        /\ \A i \in 1..Len(t) : (s \o t)[Len(s) + i] = t[i]
    OBVIOUS
  <2>2. /\ \A i \in 1..Len(s) : i \in 1..Len(s) + Len(t)
        /\ \A i \in 1..Len(t) : Len(s) + i \in 1..Len(s) + Len(t)
        /\ \A i \in 1..Len(s) + Len(t) : i \in 1..Len(s) \/ (i - Len(s) \in 1..Len(t) /\ i = Len(s) + (i - Len(s)))
    BY <1>0, <2>0
  <2>3. \A x \in Capture!Range(s \o t) : x \in Capture!Range(s) \cup Capture!Range(t)
    BY <1>0, <2>0, <2>1, <2>2 DEF Capture!Range
  <2>4. \A x \in Capture!Range(s) \cup Capture!Range(t) : x \in Capture!Range(s \o t)
    BY <1>0, <2>0, <2>1, <2>2 DEF Capture!Range
  <2> QED
    BY <2>1, <2>3, <2>4
<1> QED
  BY <1>1, <1>2, <1>3, <1>4

LEMMA NoRange == Capture!Range(<<>>) = {} /\ \A x : Capture!Range(<<x>>) = {x}
BY DEF Capture!Range

LEMMA WiderSeq == ASSUME NEW S, NEW T, S \subseteq T, NEW s \in Seq(S) PROVE s \in Seq(T)
<1>1. s \in [1..Len(s) -> S] /\ Len(s) \in Nat
  OBVIOUS
<1>2. s \in [1..Len(s) -> T]
  BY <1>1
<1> QED
  BY <1>1, <1>2

Kinds5 ==
  {"recorder_start", "recorder_stop", "disk_guard_on", "disk_guard_off", "write_backlog_dropped"}

(* What an action writes about itself.                                     *)
LEMMA RecordsAre ==
  ASSUME Capture!TypeOK
  PROVE  /\ \A type \in Kinds5, c \in Int :
              Capture!Record(type, c) \in Capture!Records /\ Capture!Record(type, c).t = v1
         /\ <<>> \in Seq(Capture!Records)
         /\ \A x \in Capture!Records : <<x>> \in Seq(Capture!Records)
BY DEF Capture!TypeOK, Capture!Record, Capture!Records, Kinds5

(* What the disk check writes: the transition of the guard, and what was   *)
(* trimmed.                                                                *)
LEMMA ChangesAre ==
  ASSUME Capture!TypeOK, NEW a \in BOOLEAN
  PROVE  /\ Capture!Change(a) \in Seq(Capture!Records)
         /\ \A m \in Capture!Range(Capture!Change(a)) : m.t = v1
         /\ a /\ ~ v6.active => \E m \in Capture!Range(Capture!Change(a)) : m.t = v1
<1>0. v6.active \in BOOLEAN /\ v6.dropped \in Int /\ 0 \in Int
  BY DEF Capture!TypeOK
<1>1. CASE a = v6.active
  BY <1>1, RecordsAre, NoRange DEF Capture!Change
<1>2. CASE a # v6.active /\ a
  <2>1. Capture!Change(a) = <<Capture!Record("disk_guard_on", 0)>>
    BY <1>2 DEF Capture!Change
  <2> QED
    BY <1>0, <2>1, RecordsAre, NoRange DEF Kinds5
<1>3. CASE a # v6.active /\ ~ a
  <2>1. Capture!Change(a) = <<Capture!Record("disk_guard_off", v6.dropped)>>
    BY <1>3 DEF Capture!Change
  <2> QED
    BY <1>0, <1>3, <2>1, RecordsAre, NoRange DEF Kinds5
<1> QED
  BY <1>1, <1>2, <1>3

(* The actions, by what they do to records and trades.                     *)
LEMMA CheckDiskIs ==
  ASSUME Capture!TypeOK, Capture!CheckDisk
  PROVE  /\ v6' \in [active : BOOLEAN, dropped : Nat] /\ v5' = v1 /\ v12' = v11
         /\ v9' \in Seq(Capture!Records)
         /\ \E new \in SUBSET Capture!Records :
              /\ Capture!Range(v9') = Capture!Range(v9) \cup new
              /\ \A m \in new : m.t = v1
              /\ v6'.active /\ ~ v6.active => new # {}
<1> DEFINE a == v2 = "low" \/ (v6.active /\ v2 = "margin")
           told == IF v11 > v12 THEN <<Capture!Record("write_backlog_dropped", v11 - v12)>> ELSE <<>>
<1>0. v9 \in Seq(Capture!Records) /\ v11 \in Nat /\ v12 \in Nat /\ v11 - v12 \in Int
      /\ v6.active \in BOOLEAN /\ v6.dropped \in Nat
  BY DEF Capture!TypeOK
<1>1. PICK b \in BOOLEAN : b = a
  BY Zenon
<1>2. /\ v6' = [active |-> b, dropped |-> IF b = v6.active THEN v6.dropped ELSE 0]
      /\ v5' = v1 /\ v12' = v11 /\ v9' = v9 \o Capture!Change(b) \o told
  BY <1>1 DEF Capture!CheckDisk
<1>3. told \in Seq(Capture!Records) /\ \A m \in Capture!Range(told) : m.t = v1
  BY <1>0, RecordsAre, NoRange DEF Kinds5
<1>4. /\ Capture!Change(b) \in Seq(Capture!Records)
      /\ \A m \in Capture!Range(Capture!Change(b)) : m.t = v1
      /\ b /\ ~ v6.active => \E m \in Capture!Range(Capture!Change(b)) : m.t = v1
  BY ChangesAre
<1> HIDE DEF told, a
<1>5. v9 \o Capture!Change(b) \in Seq(Capture!Records)
      /\ Capture!Range(v9 \o Capture!Change(b)) = Capture!Range(v9) \cup Capture!Range(Capture!Change(b))
  BY <1>0, <1>4, CaptureRanges
<1>6. v9' \in Seq(Capture!Records)
      /\ Capture!Range(v9') = Capture!Range(v9) \cup Capture!Range(Capture!Change(b)) \cup Capture!Range(told)
  <2> DEFINE x == v9 \o Capture!Change(b)
  <2>1. x \in Seq(Capture!Records)
    BY <1>5
  <2>2. v9' = x \o told /\ Capture!Range(x) = Capture!Range(v9) \cup Capture!Range(Capture!Change(b))
    BY <1>2, <1>5
  <2> HIDE DEF x
  <2>3. x \o told \in Seq(Capture!Records) /\ Capture!Range(x \o told) = Capture!Range(x) \cup Capture!Range(told)
    BY <1>3, <2>1, CaptureRanges
  <2> QED
    BY <2>2, <2>3
<1> DEFINE new == Capture!Range(Capture!Change(b)) \cup Capture!Range(told)
<1>7. new \subseteq Capture!Records
  BY <1>3, <1>4, CaptureRanges
<1>8. v6'.active = b /\ v6' \in [active : BOOLEAN, dropped : Nat]
  BY <1>0, <1>2
<1>9. /\ Capture!Range(v9') = Capture!Range(v9) \cup new
      /\ \A m \in new : m.t = v1
      /\ v6'.active /\ ~ v6.active => new # {}
  BY <1>3, <1>4, <1>6, <1>8
<1> HIDE DEF new
<1> QED
  BY <1>2, <1>6, <1>7, <1>8, <1>9

LEMMA StartIs ==
  ASSUME Capture!TypeOK, Capture!Start
  PROVE  /\ v6' \in [active : BOOLEAN, dropped : Nat]
         /\ v9' \in Seq(Capture!Records) /\ v9' # <<>>
         /\ \A m \in Capture!Range(v9') : m.t = v1
         /\ Capture!Range(v9') # {} /\ Capture!Range(v9') \subseteq Capture!Records
<1> DEFINE s == <<Capture!Record("recorder_start", 0)>>
           t == IF v2 = "low" THEN <<Capture!Record("disk_guard_on", 0)>> ELSE <<>>
<1>1. v9' = s \o t /\ v6' = [active |-> v2 = "low", dropped |-> 0]
  BY DEF Capture!Start
<1>2. s \in Seq(Capture!Records) /\ \A m \in Capture!Range(s) : m.t = v1
  BY RecordsAre, NoRange DEF Kinds5
<1>3. Capture!Range(s) # {}
  BY NoRange
<1>4. t \in Seq(Capture!Records) /\ \A m \in Capture!Range(t) : m.t = v1
  BY RecordsAre, NoRange DEF Kinds5
<1> HIDE DEF s, t
<1>5. s \o t \in Seq(Capture!Records) /\ Capture!Range(s \o t) = Capture!Range(s) \cup Capture!Range(t)
  BY <1>2, <1>4, CaptureRanges
<1>6. PICK b \in BOOLEAN : b = (v2 = "low")
  BY Zenon
<1>7. v6' \in [active : BOOLEAN, dropped : Nat]
  BY <1>1, <1>6
<1> QED
  BY <1>1, <1>2, <1>3, <1>4, <1>5, <1>7, CaptureRanges, NoRange

LEMMA CaptureTypes ==
  ASSUME Capture!TypeOK, Capture!Next PROVE Capture!TypeOK'
<1> DEFINE R == Capture!Records
<1>0. /\ v1 \in Nat /\ v5 \in Nat /\ v4 \in BOOLEAN /\ v3 \in BOOLEAN /\ v13 \in BOOLEAN
      /\ v2 \in {"low", "margin", "ok"} /\ v6 \in [active : BOOLEAN, dropped : Nat]
      /\ v11 \in Nat /\ v12 \in Nat /\ v7 \in Seq(1..v1) /\ v8 \subseteq 1..v1
      /\ v9 \in Seq(R) /\ v10 \subseteq R /\ (~ v4 => v7 = <<>> /\ v9 = <<>>)
  BY DEF Capture!TypeOK
<1>1. Capture!Range(v7) \subseteq 1..v1 /\ Capture!Range(v9) \subseteq R
  BY <1>0, CaptureRanges
<1> HIDE DEF R
<1>2. CASE Capture!Trade
  <2>0. /\ v1' = v1 + 1 /\ v1' \in Nat /\ v8 \subseteq 1..v1' /\ v7 \in Seq(1..v1') /\ v1 + 1 \in 1..v1'
    <3>1. v1' = v1 + 1
      BY <1>2 DEF Capture!Trade
    <3>2. v1 + 1 \in Nat /\ 1..v1 \subseteq 1..(v1 + 1) /\ v1 + 1 \in 1..(v1 + 1)
      BY <1>0
    <3>3. v7 \in Seq(1..(v1 + 1))
      BY <1>0, <3>2, WiderSeq
    <3> QED
      BY <1>0, <3>1, <3>2, <3>3
  <2>1. /\ v6' \in [active : BOOLEAN, dropped : Nat] /\ v7' \in Seq(1..v1') /\ v11' \in Nat
        /\ (~ v4 => v7' = v7)
    <3>1. CASE ~ v4
      BY <1>0, <1>2, <2>0, <3>1 DEF Capture!Trade
    <3>2. CASE v4 /\ v6.active
      <4>1. v6' = [v6 EXCEPT !.dropped = @ + 1] /\ v7' = v7 /\ v11' = v11
        BY <1>2, <3>2 DEF Capture!Trade
      <4>2. v6 \in [active : BOOLEAN, dropped : Nat]
        BY <1>0
      <4>3. v6' \in [active : BOOLEAN, dropped : Nat]
        BY ONLY <4>1, <4>2
      <4>4. v7' \in Seq(1..v1') /\ v11' \in Nat
        BY <1>0, <2>0, <4>1
      <4> QED
        BY <3>2, <4>1, <4>3, <4>4
    <3>3. CASE v4 /\ ~ v6.active
      <4> DEFINE q == Append(v7, v1 + 1)
      <4>1. v7' = Capture!Trim(q) /\ v11' = v11 + Len(q) - Len(Capture!Trim(q)) /\ v6' = v6
        BY <1>2, <3>3 DEF Capture!Trade
      <4>2. q \in Seq(1..v1') /\ q # <<>>
        BY <2>0
      <4> HIDE DEF q
      <4>3. Tail(q) \in Seq(1..v1') /\ Len(q) \in Nat /\ Len(Tail(q)) = Len(q) - 1
        BY <4>2
      <4>4. Capture!Trim(q) \in Seq(1..v1')
        BY <4>2, <4>3 DEF Capture!Trim
      <4>5. Len(Capture!Trim(q)) = Len(q) \/ Len(Capture!Trim(q)) = Len(q) - 1
        BY <4>3 DEF Capture!Trim
      <4>6. v11 + Len(q) - Len(Capture!Trim(q)) \in Nat
        <5>1. v11 \in Nat /\ Len(q) \in Nat
          BY <1>0, <4>3
        <5> QED
          BY ONLY <4>5, <5>1
      <4> QED
        BY <1>0, <3>3, <4>1, <4>4, <4>6
    <3> QED
      BY <3>1, <3>2, <3>3
  <2>2. v13' \in BOOLEAN
    BY <1>2 DEF Capture!Trade
  <2> QED
    BY <1>0, <1>2, <2>0, <2>1, <2>2 DEF Capture!Trade, Capture!TypeOK, R
<1>3. CASE Capture!Flush
  <2>1. /\ v8' = v8 \cup Capture!Range(v7) /\ v7' = <<>> /\ v10' = v10 \cup Capture!Range(v9) /\ v9' = <<>>
        /\ UNCHANGED <<v1, v2, v3, v4, v5, v6, v11, v12, v13, v14>>
    BY <1>3 DEF Capture!Flush
  <2>2. <<>> \in Seq(1..v1) /\ <<>> \in Seq(R)
    OBVIOUS
  <2> QED
    BY <1>0, <1>1, <2>1, <2>2 DEF Capture!TypeOK, R
<1>4. CASE Capture!DiskMonitor
  <2>1. /\ v4 /\ UNCHANGED <<v1, v2, v3, v4, v7, v8, v10, v11, v13, v14>>
    BY <1>4 DEF Capture!DiskMonitor
  <2>2. /\ v6' \in [active : BOOLEAN, dropped : Nat] /\ v5' = v1 /\ v12' = v11 /\ v9' \in Seq(R)
    BY <1>4, CheckDiskIs DEF Capture!DiskMonitor, R
  <2> QED
    BY <1>0, <2>1, <2>2 DEF Capture!TypeOK, R
<1>5. CASE Capture!Stop
  <2>0. Append(v9, Capture!Record("recorder_stop", 0)) \in Seq(R)
    BY <1>0, RecordsAre, CaptureRanges DEF R, Kinds5
  <2>1. Capture!Range(Append(v9, Capture!Record("recorder_stop", 0))) \subseteq R
    BY <2>0, CaptureRanges
  <2>2. /\ v4' = FALSE /\ v7' = <<>> /\ v9' = <<>>
        /\ v8' = v8 \/ v8' = v8 \cup Capture!Range(v7)
        /\ v10' = v10 \/ v10' = v10 \cup Capture!Range(Append(v9, Capture!Record("recorder_stop", 0)))
        /\ UNCHANGED <<v1, v2, v3, v5, v6, v11, v12, v13>>
    BY <1>5 DEF Capture!Stop, Capture!Ends
  <2>3. <<>> \in Seq(1..v1) /\ <<>> \in Seq(R)
    OBVIOUS
  <2> QED
    BY <1>0, <1>1, <2>1, <2>2, <2>3 DEF Capture!TypeOK, R
<1>6. CASE Capture!Crash
  <2>2. /\ v4' = FALSE /\ v7' = <<>> /\ v9' = <<>> /\ v8' = v8 /\ v10' = v10
        /\ UNCHANGED <<v1, v2, v3, v5, v6, v11, v12, v13>>
    BY <1>6 DEF Capture!Crash, Capture!Ends
  <2>3. <<>> \in Seq(1..v1) /\ <<>> \in Seq(R)
    OBVIOUS
  <2> QED
    BY <1>0, <2>2, <2>3 DEF Capture!TypeOK, R
<1>7. CASE Capture!Start
  <2>1. /\ v4' = TRUE /\ v5' = v1 /\ v11' = 0 /\ v12' = 0
        /\ UNCHANGED <<v1, v2, v3, v7, v8, v10, v13, v14>>
    BY <1>7 DEF Capture!Start
  <2>2. v6' \in [active : BOOLEAN, dropped : Nat] /\ v9' \in Seq(R)
    BY <1>7, StartIs DEF R
  <2> QED
    BY <1>0, <2>1, <2>2 DEF Capture!TypeOK, R
<1>8. CASE Capture!SpaceChanges \/ Capture!WritesFail
  <2>1. /\ UNCHANGED <<v1, v4, v5, v6, v7, v8, v9, v10, v11, v12, v13>>
        /\ v2' \in {"low", "margin", "ok"} /\ v3' \in BOOLEAN
    BY <1>0, <1>8 DEF Capture!SpaceChanges, Capture!WritesFail
  <2> QED
    BY <1>0, <2>1 DEF Capture!TypeOK, R
<1> QED
  BY <1>2, <1>3, <1>4, <1>5, <1>6, <1>7, <1>8 DEF Capture!Next

LEMMA CaptureFacts ==
  ASSUME Capture!TypeOK
  PROVE  /\ v1 \in Nat /\ v8 \subseteq 1..v1 /\ Capture!Range(v7) \subseteq 1..v1
         /\ Capture!Gone = (1..v1) \ (v8 \cup Capture!Range(v7)) /\ v4 \in BOOLEAN
         /\ v10 \subseteq Capture!Records /\ Capture!Range(v9) \subseteq Capture!Records
         /\ \A m \in Capture!Records : m.t \in Nat
         /\ Capture!Told \subseteq Nat
         /\ ~ v4 => Capture!Range(v7) = {} /\ Capture!Range(v9) = {}
<1>1. v7 \in Seq(1..v1) /\ v9 \in Seq(Capture!Records) /\ v10 \subseteq Capture!Records
  BY DEF Capture!TypeOK
<1>2. \A m \in Capture!Records : m.t \in Nat
  BY DEF Capture!Records
<1>3. Capture!Range(v7) \subseteq 1..v1 /\ Capture!Range(v9) \subseteq Capture!Records
  BY <1>1, CaptureRanges
<1>4. Capture!Told \subseteq Nat
  BY <1>1, <1>2, <1>3 DEF Capture!Told
<1> QED
  BY <1>1, <1>2, <1>3, <1>4, NoRange DEF Capture!TypeOK, Capture!Gone

(* Neither time nor what is kept changes, and no record is lost.           *)
Settles ==
  /\ v1' = v1 /\ Capture!Gone' = Capture!Gone
  /\ Capture!Told \subseteq Capture!Told' /\ Capture!Told' \subseteq Capture!Told \cup {v1}
  /\ v4' /\ v6'.active => (v4 /\ v6.active) \/ v1 \in Capture!Told'
  /\ v4' => v4 \/ v1 \in Capture!Told'
  /\ v13' = v13

(* The process ends, and with it what was not written.                     *)
Loses ==
  /\ v1' = v1 /\ v4' = FALSE /\ v8' = v8 /\ v10' = v10 /\ v7' = <<>> /\ v9' = <<>>
  /\ v13' = v13

LEMMA CaptureEffects ==
  ASSUME Capture!TypeOK, Capture!Next, ~ Capture!Trade PROVE Settles \/ Loses
<1> USE CaptureFacts, NoRange
<1>0. v9 \in Seq(Capture!Records) /\ v7 \in Seq(1..v1)
  BY DEF Capture!TypeOK
<1>1. CASE Capture!Flush
  <2>1. /\ v8' = v8 \cup Capture!Range(v7) /\ v7' = <<>> /\ v10' = v10 \cup Capture!Range(v9) /\ v9' = <<>>
        /\ UNCHANGED <<v1, v2, v3, v4, v5, v6, v11, v12, v13, v14>>
    BY <1>1 DEF Capture!Flush
  <2>2. Capture!Gone' = Capture!Gone
    BY <2>1 DEF Capture!Gone
  <2>3. Capture!Told' = Capture!Told
    BY <2>1 DEF Capture!Told
  <2> QED
    BY <2>1, <2>2, <2>3 DEF Settles
<1>2. CASE Capture!DiskMonitor
  <2>1. /\ v4 /\ UNCHANGED <<v1, v2, v3, v4, v7, v8, v10, v11, v13, v14>>
    BY <1>2 DEF Capture!DiskMonitor
  <2>2. PICK new \in SUBSET Capture!Records :
          /\ Capture!Range(v9') = Capture!Range(v9) \cup new
          /\ \A m \in new : m.t = v1
          /\ v6'.active /\ ~ v6.active => new # {}
    BY <1>2, CheckDiskIs DEF Capture!DiskMonitor
  <2>3. Capture!Gone' = Capture!Gone
    BY <2>1 DEF Capture!Gone
  <2>4. Capture!Told' = Capture!Told \cup {m.t : m \in new}
    BY <2>1, <2>2 DEF Capture!Told
  <2> QED
    BY <2>1, <2>2, <2>3, <2>4 DEF Settles
<1>3. CASE Capture!Crash
  BY <1>3 DEF Capture!Crash, Capture!Ends, Loses
<1>4. CASE Capture!Stop
  <2>1. CASE v3
    BY <1>4, <2>1 DEF Capture!Stop, Capture!Ends, Loses
  <2>2. CASE ~ v3
    <3> DEFINE r == Capture!Record("recorder_stop", 0)
    <3>1. r \in Capture!Records /\ r.t = v1
      BY RecordsAre DEF Kinds5
    <3>2. /\ v4' = FALSE /\ v7' = <<>> /\ v9' = <<>>
          /\ v8' = v8 \cup Capture!Range(v7) /\ v10' = v10 \cup Capture!Range(Append(v9, r))
          /\ UNCHANGED <<v1, v2, v3, v5, v6, v11, v12, v13>>
      BY <1>4, <2>2 DEF Capture!Stop, Capture!Ends
    <3>3. Capture!Range(Append(v9, r)) = Capture!Range(v9) \cup {r}
      BY <1>0, <3>1, CaptureRanges
    <3>4. Capture!Gone' = Capture!Gone
      BY <3>2 DEF Capture!Gone
    <3>5. Capture!Told' = Capture!Told \cup {v1}
      <4> HIDE DEF r
      <4> QED
        BY <3>1, <3>2, <3>3 DEF Capture!Told
    <3> QED
      BY <3>2, <3>4, <3>5 DEF Settles
  <2> QED
    BY <2>1, <2>2
<1>5. CASE Capture!Start
  <2>1. /\ v4' = TRUE /\ ~ v4 /\ UNCHANGED <<v1, v2, v3, v7, v8, v10, v13, v14>>
    BY <1>5 DEF Capture!Start
  <2>2. /\ \A m \in Capture!Range(v9') : m.t = v1
        /\ Capture!Range(v9') # {}
    BY <1>5, StartIs
  <2>3. Capture!Gone' = Capture!Gone
    BY <2>1 DEF Capture!Gone
  <2>4. Capture!Told' = Capture!Told \cup {v1}
    BY <2>1, <2>2 DEF Capture!Told
  <2> QED
    BY <2>1, <2>3, <2>4 DEF Settles
<1>6. CASE Capture!SpaceChanges \/ Capture!WritesFail
  <2>1. UNCHANGED <<v1, v4, v5, v6, v7, v8, v9, v10, v11, v12, v13>>
    BY <1>6 DEF Capture!SpaceChanges, Capture!WritesFail
  <2> QED
    BY <2>1 DEF Settles, Capture!Gone, Capture!Told
<1> QED
  BY <1>1, <1>2, <1>3, <1>4, <1>5, <1>6 DEF Capture!Next

LEMMA SettlesTold ==
  ASSUME Capture!TypeOK, Capture!AllTold, Settles PROVE Capture!AllTold'
<1> USE CaptureFacts DEF Settles
<1>1. Capture!Told' \subseteq 0..v1'
  BY DEF Capture!AllTold
<1>2. ASSUME NEW i \in Capture!Gone'
      PROVE  (\E t \in Capture!Told' : Capture!NextTo(i, t)') \/ (~ v4' /\ i..v1' \subseteq Capture!Gone')
  <2>0. i \in Capture!Gone /\ i \in Nat
    BY <1>2
  <2>1. CASE \E t \in Capture!Told : Capture!NextTo(i, t)
    BY <2>1 DEF Capture!NextTo
  <2>2. CASE ~ v4 /\ i..v1 \subseteq Capture!Gone
    <3>1. CASE ~ v4'
      BY <2>2, <3>1
    <3>2. CASE v4'
      <4>1. v1 \in Capture!Told' /\ (v1 + 1)..i = {}
        BY <2>0, <2>2, <3>2
      <4> QED
        BY <2>2, <4>1 DEF Capture!NextTo
    <3> QED
      BY <3>1, <3>2
  <2> QED
    BY <2>0, <2>1, <2>2 DEF Capture!AllTold
<1>3. v4' /\ v6'.active => \E t \in Capture!Told' : (t + 1)..v1' \subseteq Capture!Gone'
  <2>1. (v1 + 1)..v1 = {}
    OBVIOUS
  <2> QED
    BY <2>1 DEF Capture!AllTold
<1> QED
  BY <1>1, <1>2, <1>3 DEF Capture!AllTold

LEMMA LosesTold ==
  ASSUME Capture!TypeOK, Capture!InOrder, Capture!AllTold, Loses PROVE Capture!AllTold'
<1> USE CaptureFacts, NoRange DEF Loses
<1> DEFINE N == (1..v1) \ v8
           T == {m.t : m \in v10}
<1>1. Capture!Gone' = N /\ Capture!Told' = T
  BY DEF Capture!Gone, Capture!Told
<1>2. Capture!Told' \subseteq 0..v1'
  BY <1>1 DEF Capture!AllTold, Capture!Told
<1>3. ASSUME NEW i \in N
      PROVE  (\E t \in T : (t + 1)..i \cup i..t \subseteq N) \/ i..v1 \subseteq N
  <2>1. CASE i \in Capture!Range(v7)
    <3>1. i..v1 \subseteq N
      BY <2>1 DEF Capture!InOrder
    <3> QED
      BY <3>1
  <2>2. CASE i \in Capture!Gone
    <3>0. Capture!Gone \subseteq N
      OBVIOUS
    <3>1. CASE ~ v4 /\ i..v1 \subseteq Capture!Gone
      BY <3>0, <3>1
    <3>2. ASSUME NEW m \in v10, Capture!NextTo(i, m.t)
          PROVE  \E t \in T : (t + 1)..i \cup i..t \subseteq N
      BY <3>0, <3>2 DEF Capture!NextTo
    <3>3. ASSUME NEW m \in Capture!Range(v9), Capture!NextTo(i, m.t)
          PROVE  i..v1 \subseteq N
      <4>1. m.t \in Nat /\ i \in Nat
        OBVIOUS
      <4>2. ASSUME NEW k \in i..v1 PROVE k \notin v8
        <5>1. CASE k <= m.t
          <6>1. k \in Capture!Gone
            BY <3>3, <4>1, <5>1 DEF Capture!NextTo
          <6> QED
            BY <6>1
        <5>2. CASE ~ (k <= m.t)
          BY <5>2 DEF Capture!InOrder
        <5> QED
          BY <5>1, <5>2
      <4> QED
        BY <4>1, <4>2
    <3> QED
      BY <2>2, <3>1, <3>2, <3>3 DEF Capture!AllTold, Capture!Told
  <2> QED
    BY <2>1, <2>2
<1> HIDE DEF N, T
<1> QED
  BY <1>1, <1>2, <1>3 DEF Capture!AllTold, Capture!NextTo

LEMMA TradeTold ==
  ASSUME Capture!TypeOK, Capture!AllTold, Capture!Trade, ~ v13' PROVE Capture!AllTold'
<1> USE CaptureFacts, NoRange
<1>0. v1' = v1 + 1 /\ UNCHANGED <<v4, v8, v9, v10>>
  BY DEF Capture!Trade
<1>1. Capture!Told' = Capture!Told
  BY <1>0 DEF Capture!Told
<1>2. Capture!Told \subseteq 0..v1 /\ Capture!Told' \subseteq 0..v1'
  BY <1>0, <1>1 DEF Capture!AllTold
<1>3. CASE v4 /\ ~ v6.active
  <2> DEFINE q == Append(v7, v1 + 1)
  <2>1. v7' = Capture!Trim(q) /\ v11' = v11 + Len(q) - Len(Capture!Trim(q)) /\ v6' = v6
    BY <1>3 DEF Capture!Trade
  <2>2. v7 \in Seq(Nat) /\ v1 + 1 \in Nat /\ v11 \in Nat
    BY WiderSeq DEF Capture!TypeOK
  <2>3. q \in Seq(Nat) /\ q # <<>> /\ Capture!Range(q) = Capture!Range(v7) \cup {v1 + 1}
    BY <2>2, CaptureRanges
  <2>4. v7' = q
    <3>1. ~ (v11' > v11)
      BY DEF Capture!Trade
    <3>2. Len(q) \in Nat /\ Len(Tail(q)) = Len(q) - 1
      BY <2>3
    <3> HIDE DEF q
    <3>3. CASE Len(q) > MaxQueue
      <4>0. v11 \in Nat /\ Len(Tail(q)) \in Nat
        BY <2>2, <2>3
      <4>1. PICK a \in Nat : a = Len(q)
        BY <3>2
      <4>2. PICK b \in Nat : b = Len(Tail(q))
        BY <4>0
      <4>3. PICK c \in Nat : c = v11
        BY <4>0
      <4>4. v11' = c + a - b /\ b = a - 1
        BY <2>1, <3>2, <3>3, <4>1, <4>2, <4>3 DEF Capture!Trim
      <4>5. a \in Nat /\ b \in Nat /\ c \in Nat /\ b = a - 1
        BY <4>4
      <4>6. c + a - b > c
        BY ONLY <4>5
      <4> QED
        BY ONLY <3>1, <4>3, <4>4, <4>6
    <3>4. CASE ~ (Len(q) > MaxQueue)
      BY <2>1, <3>4 DEF Capture!Trim
    <3> QED
      BY <3>3, <3>4
  <2>5. Capture!Gone' = Capture!Gone
    <3>1. Capture!Gone' = (1..(v1 + 1)) \ (v8 \cup Capture!Range(v7) \cup {v1 + 1})
      BY <1>0, <2>3, <2>4 DEF Capture!Gone
    <3> QED
      BY <3>1
  <2> QED
    BY <1>0, <1>1, <1>2, <1>3, <2>1, <2>5 DEF Capture!AllTold, Capture!NextTo
<1>4. CASE ~ (v4 /\ ~ v6.active)
  <2>1. v7' = v7 /\ (~ v4 => v6' = v6) /\ (v4 => v6.active)
    BY <1>4 DEF Capture!Trade
  <2>2. Capture!Gone' = Capture!Gone \cup {v1 + 1}
    <3>1. Capture!Gone' = (1..(v1 + 1)) \ (v8 \cup Capture!Range(v7))
      BY <1>0, <2>1 DEF Capture!Gone
    <3> QED
      BY <3>1
  <2>3. \A t \in Nat : (t + 1)..(v1 + 1) \subseteq (t + 1)..v1 \cup {v1 + 1} /\ (t <= v1 => (v1 + 1)..t = {})
    OBVIOUS
  <2>4. v4 => \E t \in Capture!Told : t \in Nat /\ t <= v1 /\ (t + 1)..v1 \subseteq Capture!Gone
    BY <1>2, <2>1 DEF Capture!AllTold
  <2>5. v4 => \E t \in Capture!Told : (t + 1)..(v1 + 1) \cup (v1 + 1)..t \subseteq Capture!Gone'
    BY <2>2, <2>3, <2>4
  <2>6. ASSUME NEW i \in Capture!Gone \cup {v1 + 1}
        PROVE  (\E t \in Capture!Told : (t + 1)..i \cup i..t \subseteq Capture!Gone')
               \/ (~ v4 /\ i..(v1 + 1) \subseteq Capture!Gone')
    <3>1. CASE i = v1 + 1
      BY <2>2, <2>5, <3>1
    <3>2. CASE i \in Capture!Gone /\ ~ v4
      <4>1. i \in Nat /\ i..(v1 + 1) \subseteq i..v1 \cup {v1 + 1}
        BY <3>2
      <4> QED
        BY <2>2, <3>2, <4>1 DEF Capture!AllTold, Capture!NextTo
    <3>3. CASE i \in Capture!Gone /\ v4
      BY <2>2, <3>3 DEF Capture!AllTold, Capture!NextTo
    <3> QED
      BY <3>1, <3>2, <3>3
  <2> QED
    BY <1>0, <1>1, <1>2, <2>1, <2>2, <2>5, <2>6 DEF Capture!AllTold, Capture!NextTo
<1> QED
  BY <1>3, <1>4

LEMMA TradesInOrder ==
  ASSUME Capture!TypeOK, Capture!InOrder, Capture!Trade PROVE Capture!InOrder'
<1> USE CaptureFacts
<1>0. v8' = v8 /\ v9' = v9
  BY DEF Capture!Trade
<1>1. Capture!Range(v7') \subseteq Capture!Range(v7) \cup {v1 + 1}
  <2>1. CASE v7' = v7
    BY <2>1
  <2>2. CASE v7' # v7
    <3> DEFINE q == Append(v7, v1 + 1)
    <3>1. v7' = Capture!Trim(q)
      BY <2>2 DEF Capture!Trade
    <3>2. v7 \in Seq(Nat) /\ v1 + 1 \in Nat
      BY WiderSeq DEF Capture!TypeOK
    <3>3. q \in Seq(Nat) /\ q # <<>> /\ Capture!Range(q) = Capture!Range(v7) \cup {v1 + 1}
      BY <3>2, CaptureRanges
    <3> HIDE DEF q
    <3>4. Capture!Range(Tail(q)) \subseteq Capture!Range(q)
      BY <3>3, CaptureRanges
    <3> QED
      BY <3>1, <3>3, <3>4 DEF Capture!Trim
  <2> QED
    BY <2>1, <2>2
<1>2. \A k \in v8 : k < v1 + 1
  OBVIOUS
<1> QED
  BY <1>0, <1>1, <1>2 DEF Capture!InOrder

LEMMA OthersInOrder ==
  ASSUME Capture!TypeOK, Capture!InOrder, Capture!Next, ~ Capture!Trade PROVE Capture!InOrder'
<1> USE CaptureFacts, NoRange
<1>1. CASE Capture!Flush \/ Capture!Crash \/ Capture!Stop
  <2>1. v7' = <<>> /\ v9' = <<>>
    BY <1>1 DEF Capture!Flush, Capture!Crash, Capture!Stop, Capture!Ends
  <2> QED
    BY <2>1 DEF Capture!InOrder
<1>2. CASE Capture!DiskMonitor \/ Capture!Start
  <2>1. v8' = v8 /\ v7' = v7
    BY <1>2 DEF Capture!DiskMonitor, Capture!Start
  <2>2. \A m \in Capture!Range(v9') : m \in Capture!Range(v9) \/ m.t = v1
    BY <1>2, CheckDiskIs, StartIs DEF Capture!DiskMonitor
  <2>3. \A k \in v8 : k <= v1
    OBVIOUS
  <2> QED
    BY <2>1, <2>2, <2>3 DEF Capture!InOrder
<1>3. CASE Capture!SpaceChanges \/ Capture!WritesFail
  <2>1. UNCHANGED <<v7, v8, v9>>
    BY <1>3 DEF Capture!SpaceChanges, Capture!WritesFail
  <2> QED
    BY <2>1 DEF Capture!InOrder
<1> QED
  BY <1>1, <1>2, <1>3 DEF Capture!Next

LEMMA CaptureInit == ASSUME Capture!Init PROVE Capture!RecorderInv
<1> DEFINE r == Capture!Record("recorder_start", 0)
<1>0. /\ v1 = 0 /\ v2 = "ok" /\ v3 = FALSE /\ v4 = TRUE /\ v5 = 0
      /\ v6 = [active |-> FALSE, dropped |-> 0] /\ v7 = <<>> /\ v8 = {} /\ v9 = <<r>> /\ v10 = {}
      /\ v11 = 0 /\ v12 = 0 /\ v13 = FALSE
  BY DEF Capture!Init
<1>1. r \in Capture!Records /\ r.t = 0
  BY <1>0 DEF Capture!Record, Capture!Records
<1> HIDE DEF r
<1>2. <<r>> \in Seq(Capture!Records) /\ <<>> \in Seq(1..0) /\ 1..0 = {}
  BY <1>1
<1>3. Capture!Range(v9) = {r} /\ Capture!Range(v7) = {}
  BY <1>0, NoRange
<1>4. Capture!TypeOK
  BY <1>0, <1>2 DEF Capture!TypeOK
<1>5. Capture!InOrder
  BY <1>0 DEF Capture!InOrder
<1>6. Capture!Gone = {} /\ Capture!Told \subseteq {0}
  BY <1>0, <1>1, <1>2, <1>3 DEF Capture!Gone, Capture!Told
<1>7. Capture!AllTold
  BY <1>0, <1>6 DEF Capture!AllTold
<1> QED
  BY <1>4, <1>5, <1>7 DEF Capture!RecorderInv

LEMMA CaptureNext ==
  ASSUME Capture!RecorderInv, [Capture!Next]_(Capture!vars) PROVE Capture!RecorderInv'
<1>1. CASE Capture!Next
  <2>0. Capture!TypeOK /\ Capture!InOrder
    BY DEF Capture!RecorderInv
  <2>1. Capture!TypeOK'
    BY <1>1, <2>0, CaptureTypes
  <2>2. Capture!InOrder'
    BY <1>1, <2>0, TradesInOrder, OthersInOrder
  <2>3. ASSUME ~ v13' PROVE Capture!AllTold'
    <3>1. CASE Capture!Trade
      <4>1. ~ v13
        BY <2>3, <3>1 DEF Capture!Trade
      <4> QED
        BY <2>0, <2>3, <3>1, <4>1, TradeTold DEF Capture!RecorderInv
    <3>2. CASE ~ Capture!Trade
      <4>1. Settles \/ Loses
        BY <1>1, <2>0, <3>2, CaptureEffects
      <4>2. ~ v13
        BY <2>3, <4>1 DEF Settles, Loses
      <4> QED
        BY <2>0, <4>1, <4>2, SettlesTold, LosesTold DEF Capture!RecorderInv
    <3> QED
      BY <3>1, <3>2
  <2> QED
    BY <2>1, <2>2, <2>3 DEF Capture!RecorderInv
<1>2. CASE UNCHANGED Capture!vars
  <2>1. UNCHANGED <<v1, v2, v3, v4, v5, v6, v7, v8, v9, v10, v11, v12, v13>>
    BY <1>2 DEF Capture!vars
  <2>2. Capture!TypeOK' /\ Capture!InOrder'
    BY <2>1 DEF Capture!RecorderInv, Capture!TypeOK, Capture!InOrder
  <2>3. Capture!Gone' = Capture!Gone /\ Capture!Told' = Capture!Told
    BY <2>1 DEF Capture!Gone, Capture!Told
  <2>4. ASSUME ~ v13' PROVE Capture!AllTold'
    BY <2>1, <2>3, <2>4 DEF Capture!RecorderInv, Capture!AllTold, Capture!NextTo
  <2> QED
    BY <2>2, <2>4 DEF Capture!RecorderInv
<1> QED
  BY <1>1, <1>2

(* The check of the day, of losses that lie next to records.               *)
LEMMA BoundedBest ==
  ASSUME NEW n \in Nat, NEW T \in SUBSET (1..n), T # {}
  PROVE  /\ Capture!Min(T) \in T /\ \A k \in T : Capture!Min(T) <= k
         /\ Capture!Max(T) \in T /\ \A k \in T : k <= Capture!Max(T)
<1>1. (\E x \in T : \A k \in T : x <= k) /\ (\E x \in T : \A k \in T : x >= k)
  BY BestExist
<1>2. Capture!Min(T) \in T /\ \A k \in T : Capture!Min(T) <= k
  BY <1>1 DEF Capture!Min
<1>3. Capture!Max(T) \in T /\ \A k \in T : Capture!Max(T) >= k
  BY <1>1 DEF Capture!Max
<1> QED
  BY <1>2, <1>3

TradeAt(i) == [id |-> i, time |-> i, data |-> "as sent"]

LEMMA TradesAre ==
  ASSUME NEW S
  PROVE  /\ Capture!Ids(Capture!AsTrades(S)) = S
         /\ Capture!Times(Capture!AsTrades(S)) = S
         /\ \A t \in Capture!AsTrades(S) : t.id \in S /\ t = TradeAt(t.id)
         /\ \A i \in S : TradeAt(i) \in Capture!AsTrades(S)
         /\ \A i : TradeAt(i).id = i /\ TradeAt(i).time = i
<1>1. \A i : TradeAt(i).id = i /\ TradeAt(i).time = i
  BY DEF TradeAt
<1>2. Capture!AsTrades(S) = {TradeAt(i) : i \in S}
  BY DEF Capture!AsTrades, TradeAt
<1>3. Capture!Ids(Capture!AsTrades(S)) = S
  BY <1>1, <1>2 DEF Capture!Ids
<1>4. Capture!Times(Capture!AsTrades(S)) = S
  BY <1>1, <1>2 DEF Capture!Times
<1> QED
  BY <1>1, <1>2, <1>3, <1>4

(* What is not in K lies next to a time of T.                              *)
Beside(n, K, T) ==
  \A i \in (1..n) \ K : \E t \in T : (t + 1)..i \cup i..t \subseteq (1..n) \ K

Inside(n, K) == {j \in 1..n : Capture!Min(K) <= j /\ j <= Capture!Max(K)} \ K

NearBy(i, M, T) ==
  \E b \in T : \E j \in M : /\ \A k \in i..j \cup j..i : k \in M
                            /\ j - Tolerance <= b /\ b <= j + Tolerance

(* A trade next to a record that tells of it has the record near its       *)
(* stretch of missing trades.                                              *)
LEMMA BreakIsNear ==
  ASSUME NEW n \in Nat, NEW K \in SUBSET (1..n), K # {}, NEW T \in SUBSET Nat,
         Beside(n, K, T), NEW i \in Inside(n, K)
  PROVE  NearBy(i, Inside(n, K), T)
<1> DEFINE M == Inside(n, K)
<1>0. Tolerance \in Nat \ {0}
  BY CaptureAssumption DEF Capture!RecorderAssumption
<1> SUFFICES \E b \in T : \E j \in M : /\ \A k \in i..j \cup j..i : k \in M
                                       /\ j - Tolerance <= b /\ b <= j + Tolerance
  BY DEF NearBy
<1>1. /\ Capture!Min(K) \in K /\ \A k \in K : Capture!Min(K) <= k
      /\ Capture!Max(K) \in K /\ \A k \in K : k <= Capture!Max(K)
  BY BoundedBest
<1>2. PICK lo \in K, hi \in K : lo = Capture!Min(K) /\ hi = Capture!Max(K)
  BY <1>1
<1>3. M = {j \in 1..n : lo <= j /\ j <= hi} \ K /\ i \in M
  BY <1>2 DEF Inside
<1>4. PICK t \in T : (t + 1)..i \cup i..t \subseteq (1..n) \ K
  BY DEF Beside, Inside
<1> HIDE DEF M
<1>5. CASE i <= t
  <2>1. hi > t /\ lo < i
    BY <1>3, <1>4, <1>5
  <2>2. i..t \subseteq M /\ t..i \subseteq {t} /\ t \in M
    BY <1>3, <1>4, <1>5, <2>1
  <2>3. t - Tolerance <= t /\ t <= t + Tolerance
    BY <1>0
  <2> QED
    BY <2>2, <2>3
<1>6. CASE ~ (i <= t)
  <2>1. lo <= t /\ i < hi
    BY <1>3, <1>4, <1>6
  <2>2. (t + 1)..i \subseteq M /\ i..(t + 1) \subseteq {i} /\ t + 1 \in M
    BY <1>3, <1>4, <1>6, <2>1
  <2>3. (t + 1) - Tolerance <= t /\ t <= (t + 1) + Tolerance
    BY <1>0
  <2> QED
    BY <2>2, <2>3
<1> QED
  BY <1>5, <1>6

LEMMA CaptureMeans == ASSUME Capture!RecorderInv PROVE Capture!LossesExplained
<1> SUFFICES ASSUME Capture!Over, ~ v13, v8 # {}
             PROVE  Capture!CheckOfDay # "failed"
  <2>1. v8 = {} => Capture!AsTrades(v8) = {}
    BY DEF Capture!AsTrades
  <2>2. v8 = {} => Capture!CheckOfDay = "no_data"
    BY <2>1 DEF Capture!CheckOfDay, Capture!Status
  <2> QED
    BY <2>2 DEF Capture!LossesExplained
<1> USE CaptureFacts, NoRange
<1>0. Capture!TypeOK /\ Capture!AllTold
  BY DEF Capture!RecorderInv
<1> DEFINE E == [gaps |-> {}, breaks |-> {m.t : m \in v10}]
           A == Capture!AsTrades(1..TradesEnd)
           R == Capture!AsTrades(v8)
           I == {j \in 1..TradesEnd : Capture!Min(v8) <= j /\ j <= Capture!Max(v8)} \ v8
<1>1. /\ v1 = TradesEnd /\ v4 /\ Capture!Range(v7) = {} /\ Capture!Range(v9) = {}
  BY DEF Capture!Over
<1>2. Capture!Told = E.breaks /\ Capture!Gone = (1..TradesEnd) \ v8
  BY <1>0, <1>1 DEF Capture!Told
<1>3. v8 \subseteq 1..TradesEnd /\ TradesEnd \in Nat /\ Capture!Told \subseteq Nat
  BY <1>0, <1>1
<1>4. ASSUME NEW i \in (1..TradesEnd) \ v8
      PROVE  \E t \in E.breaks : (t + 1)..i \cup i..t \subseteq (1..TradesEnd) \ v8
  <2>1. PICK t \in Capture!Told : Capture!NextTo(i, t)
    BY <1>0, <1>1, <1>2 DEF Capture!AllTold
  <2> QED
    BY <1>2, <2>1 DEF Capture!NextTo
<1>5. Capture!Missing(A, R) = Capture!AsTrades(I)
  <2>1. Capture!Ids(A) = 1..TradesEnd /\ Capture!Ids(R) = v8
    BY TradesAre
  <2>2. Capture!Window(A, R) \ Capture!Ids(R) = I
    BY <2>1 DEF Capture!Window
  <2>3. Capture!Missing(A, R) = {t \in A : t.id \in I}
    BY <2>2 DEF Capture!Missing
  <2>4. I \subseteq 1..TradesEnd
    OBVIOUS
  <2>5. \A t \in Capture!AsTrades(I) : t \in A /\ t.id \in I
    <3>1. ASSUME NEW t \in Capture!AsTrades(I) PROVE t \in A /\ t.id \in I
      <4>1. t.id \in I /\ t = TradeAt(t.id)
        BY TradesAre
      <4>2. \A k \in 1..TradesEnd : TradeAt(k) \in A
        BY TradesAre
      <4> HIDE DEF A
      <4> QED
        BY <2>4, <4>1, <4>2
    <3> QED
      BY <3>1
  <2>6. \A t \in A : t.id \in I => t \in Capture!AsTrades(I)
    BY TradesAre
  <2> HIDE DEF A, R, I
  <2> QED
    BY <2>3, <2>5, <2>6
<1>6. Capture!Extra(A, R) = {}
  <2>1. Capture!Ids(A) = 1..TradesEnd /\ Capture!Ids(R) = v8
    BY TradesAre
  <2> HIDE DEF A, R
  <2> QED
    BY <1>3, <2>1 DEF Capture!Extra
<1>7. Capture!Mismatched(A, R) = {}
  <2>1. ASSUME NEW x \in R, NEW y \in A, y.id = x.id PROVE y = x
    BY <2>1, TradesAre
  <2> HIDE DEF A, R
  <2>2. {x \in R : \E y \in A : y.id = x.id /\ y # x} = {}
    BY <2>1
  <2> QED
    BY <2>2 DEF Capture!Mismatched
<1>10. I = {j \in 1..TradesEnd : Capture!Min(v8) <= j /\ j <= Capture!Max(v8)} \ v8 /\ I \subseteq 1..TradesEnd
  OBVIOUS
<1>11. E.gaps = {} /\ E.breaks = Capture!Told
  BY <1>2
<1> HIDE DEF I, E
<1>8. Capture!Unexplained(Capture!AsTrades(I), E, Tolerance) = {}
  <2> DEFINE rest == {t \in Capture!AsTrades(I) : ~ Capture!Reported(t, E)}
  <2>1. rest = Capture!AsTrades(I)
    BY <1>11 DEF Capture!Reported
  <2>2. ASSUME NEW t \in rest PROVE Capture!BreakInStretch(t, rest, E, Tolerance)
    <3>1. t.id \in I /\ t = TradeAt(t.id)
      BY <2>1, TradesAre
    <3>0. PICK i \in I : i = t.id
      BY <3>1
    <3>2. PICK b \in E.breaks : \E j \in I : /\ (\A k \in i..j \cup j..i : k \in I)
                                             /\ j - Tolerance <= b /\ b <= j + Tolerance
      <4>2. E.breaks \in SUBSET Nat /\ v8 \in SUBSET (1..TradesEnd) /\ Tolerance \in Nat \ {0}
        BY <1>11, <1>3, CaptureAssumption DEF Capture!RecorderAssumption
      <4> QED
        <5>1. TradesEnd \in Nat /\ v8 # {}
          BY <1>3
        <5>2. Beside(TradesEnd, v8, E.breaks)
          BY <1>4 DEF Beside
        <5>3. I = Inside(TradesEnd, v8)
          BY <1>10 DEF Inside
        <5>4. NearBy(i, I, E.breaks)
          BY ONLY <4>2, <5>1, <5>2, <5>3, i \in I, BreakIsNear
        <5> QED
          BY <5>4 DEF NearBy
    <3>3. PICK j \in I : /\ (\A k \in i..j \cup j..i : k \in I)
                         /\ j - Tolerance <= b /\ b <= j + Tolerance
      BY <3>2
    <3> DEFINE x == TradeAt(j)
               span == Capture!Times(Capture!Stretch(t, rest))
    <3>4. x \in rest /\ x.id = j /\ x.time = j
      BY <2>1, TradesAre
    <3>5. Capture!Ids(rest) = I /\ Capture!Times(rest) = I
      BY <2>1, TradesAre
    <3> HIDE DEF x, rest
    <3>6. \A k \in Capture!Min({x.id, t.id})..Capture!Max({x.id, t.id}) : k \in Capture!Ids(rest)
      <4>1. Capture!Min({j, i}) \in {j, i} /\ Capture!Max({j, i}) \in {j, i}
        <5>1. {j, i} \in SUBSET (1..TradesEnd) /\ {j, i} # {}
          BY <1>10
        <5> QED
          BY <1>3, <5>1, BoundedBest
      <4>2. Capture!Min({x.id, t.id}) = Capture!Min({j, i}) /\ Capture!Max({x.id, t.id}) = Capture!Max({j, i})
        BY <3>0, <3>4
      <4>3. i..i \subseteq I /\ j..j \subseteq I
        <5>1. i \in Nat /\ j \in Nat
          BY <1>10
        <5> QED
          BY <5>1
      <4> QED
        BY <3>3, <3>5, <4>1, <4>2, <4>3
    <3>7. j \in span
      <4>1. x \in Capture!Stretch(t, rest)
        BY <3>4, <3>6 DEF Capture!Stretch
      <4> QED
        BY <3>4, <4>1 DEF Capture!Times
    <3>8. span \subseteq 1..TradesEnd
      <4>1. span \subseteq Capture!Times(rest)
        BY DEF Capture!Times, Capture!Stretch
      <4> QED
        BY <1>10, <3>5, <4>1
    <3> HIDE DEF span
    <3>9. /\ Capture!Min(span) <= j /\ j <= Capture!Max(span)
          /\ Capture!Min(span) \in 1..TradesEnd /\ Capture!Max(span) \in 1..TradesEnd
      <4>1. span \in SUBSET (1..TradesEnd) /\ span # {}
        BY <3>7, <3>8
      <4> QED
        BY <1>3, <3>7, <4>1, BoundedBest
    <3>10. Capture!Min(span) - Tolerance <= b /\ b <= Capture!Max(span) + Tolerance
      <4>1. PICK lo \in 1..TradesEnd : lo = Capture!Min(span)
        BY <3>9
      <4>2. PICK hi \in 1..TradesEnd : hi = Capture!Max(span)
        BY <3>9
      <4>3. b \in Nat /\ j \in Nat /\ Tolerance \in Nat
        <5>1. E.breaks \subseteq Nat /\ Tolerance \in Nat
          BY <1>3, <1>11, CaptureAssumption DEF Capture!RecorderAssumption
        <5>2. j \in 1..TradesEnd
          BY <1>10
        <5> QED
          BY <1>3, <5>1, <5>2
      <4>4. lo <= j /\ j <= hi
        BY <3>9, <4>1, <4>2
      <4>5. lo - Tolerance <= b /\ b <= hi + Tolerance
        BY <1>3, <3>3, <4>3, <4>4
      <4> QED
        BY <4>1, <4>2, <4>5
    <3> QED
      BY <3>10 DEF Capture!BreakInStretch, span
  <2> QED
    BY <2>2 DEF Capture!Unexplained
<1>9. Capture!Status(A, R, E, Tolerance) # "failed"
  <2> DEFINE missing == Capture!Missing(A, R)
  <2>1. Capture!Unexplained(missing, E, Tolerance) = {}
    BY <1>5, <1>8
  <2> HIDE DEF A, R, E
  <2> QED
    BY <1>6, <1>7, <2>1 DEF Capture!Status
<1> QED
  BY <1>9 DEF Capture!CheckOfDay, E

-----------------------------------------------------------------------------
(* The status page.                                                        *)
LEMMA PageConstants ==
  /\ ScrapeDown \in Nat /\ StreamDown \in Nat /\ StreamSilent \in Nat /\ PageWindow \in Nat
  /\ PageAge \in Nat
BY PageAssumption DEF Status!StatusAssumption

LEMMA PointsAre ==
  ASSUME Status!TypeOK
  PROVE  /\ v1 \in Nat /\ v3 \in Nat /\ v4 \in Nat
         /\ v2.life \in Nat /\ v2.missing \in Nat /\ v2.last \in Nat \cup {NoScrape}
         /\ v2.conn \in BOOLEAN /\ v2.up \in BOOLEAN
         /\ Status!derive \in Status!Points
         /\ Status!derive.ts = v1 /\ Status!derive.lost = v3 /\ Status!derive.life = v2.life
         /\ Status!derive.missing = v2.missing /\ Status!derive.last = v2.last
         /\ Len(v5) \in Nat /\ DOMAIN v5 = 1..Len(v5) /\ (v5 # <<>> <=> Len(v5) # 0)
         /\ \A i \in 1..Len(v5) : v5[i] \in Status!Points
         /\ \A p \in Status!Points : p.ts \in Nat /\ p.life \in Nat /\ p.lost \in Nat /\ p.missing \in Nat
                                     /\ p.last \in Nat \cup {NoScrape}
<1>1. v1 \in Nat /\ v3 \in Nat /\ v4 \in Nat /\ v5 \in Seq(Status!Points)
      /\ v2 \in [up : BOOLEAN, life : Nat, conn : BOOLEAN, last : Nat \cup {NoScrape}, missing : Nat]
  BY DEF Status!TypeOK
<1>2. /\ v2.life \in Nat /\ v2.missing \in Nat /\ v2.last \in Nat \cup {NoScrape}
      /\ v2.conn \in BOOLEAN /\ v2.up \in BOOLEAN
  BY <1>1
<1>3. Len(v5) \in Nat /\ DOMAIN v5 = 1..Len(v5) /\ (v5 # <<>> <=> Len(v5) # 0)
      /\ \A i \in 1..Len(v5) : v5[i] \in Status!Points
  BY <1>1
<1>4. \A p \in Status!Points : p.ts \in Nat /\ p.life \in Nat /\ p.lost \in Nat /\ p.missing \in Nat
                               /\ p.last \in Nat \cup {NoScrape}
  BY DEF Status!Points
<1>5. PICK d \in BOOLEAN : d = (~ v2.conn)
  BY Zenon
<1>6. Status!derive = [ts |-> v1, down |-> d, missing |-> v2.missing, last |-> v2.last,
                       life |-> v2.life, lost |-> v3]
  BY <1>5 DEF Status!derive
<1>7. Status!derive \in Status!Points
  BY <1>1, <1>2, <1>6 DEF Status!Points
<1> QED
  BY <1>1, <1>2, <1>3, <1>4, <1>6, <1>7

LEMMA PageBegins == ASSUME Status!Init PROVE Status!PageInv
<1>1. /\ v1 = 0 /\ v3 = 0 /\ v4 = 0 /\ v5 = <<>> /\ v6 = NoScrape /\ v7 = FALSE
      /\ v2 = [up |-> TRUE, life |-> 1, conn |-> FALSE, last |-> NoScrape, missing |-> 0]
  BY DEF Status!Init, Status!NewLife
<1>2. v2 \in [up : BOOLEAN, life : Nat, conn : BOOLEAN, last : Nat \cup {NoScrape}, missing : Nat]
  BY <1>1
<1>3. v7 \in BOOLEAN
  BY <1>1, Zenon
<1>4. Status!TypeOK
  BY <1>1, <1>2, <1>3 DEF Status!TypeOK
<1>5. Status!Heard
  BY <1>1 DEF Status!Heard
<1> QED
  BY <1>1, <1>4, <1>5 DEF Status!PageInv, Status!InOrder

(* The recorder goes on, and time: the points stay what they are.          *)
Quiet ==
  /\ v5' = v5 /\ v6' = v6
  /\ v1' \in {v1, v1 + 1}
  /\ v2' \in [up : BOOLEAN, life : Nat, conn : BOOLEAN, last : Nat \cup {NoScrape}, missing : Nat]
  /\ v7' \in BOOLEAN
  /\ \/ v4' = v4 /\ v2'.last \in {v2.last, NoScrape}
     \/ v4' = v1 /\ v1' = v1 /\ v2'.last = v1
  /\ \/ v2'.life = v2.life /\ v2'.missing = v2.missing /\ v3' = v3
     \/ v2'.life = v2.life /\ v2'.missing = v2.missing + 1 /\ v3' = v3 + 1
     \/ v2'.life = v2.life + 1 /\ v2'.missing = 0 /\ v3' = v3

LEMMA QuietSteps ==
  ASSUME Status!TypeOK,
         \/ Status!Message \/ Status!TradeGap \/ Status!Lifecycle \/ Status!Dies \/ Status!Starts
         \/ Status!Interval
  PROVE  Quiet
<1> DEFINE R == [up : BOOLEAN, life : Nat, conn : BOOLEAN, last : Nat \cup {NoScrape}, missing : Nat]
<1>0. v1 \in Nat /\ v2 \in R /\ v7 \in BOOLEAN
  BY DEF Status!TypeOK
<1>1. CASE Status!Message
  <2>1. v2' = [v2 EXCEPT !.last = v1] /\ v4' = v1 /\ UNCHANGED <<v1, v3, v5, v6, v7>>
    BY <1>1 DEF Status!Message
  <2>2. v2' \in R /\ v2'.last = v1 /\ v2'.life = v2.life /\ v2'.missing = v2.missing
    BY <1>0, <2>1
  <2> QED
    BY <1>0, <2>1, <2>2 DEF Quiet
<1>2. CASE Status!TradeGap
  <2>1. v2' = [v2 EXCEPT !.missing = @ + 1] /\ v3' = v3 + 1 /\ UNCHANGED <<v1, v4, v5, v6, v7>>
    BY <1>2 DEF Status!TradeGap
  <2>2. v2' \in R /\ v2'.last = v2.last /\ v2'.life = v2.life /\ v2'.missing = v2.missing + 1
    BY <1>0, <2>1
  <2> QED
    BY <1>0, <2>1, <2>2 DEF Quiet
<1>3. CASE Status!Lifecycle
  <2>0. PICK c \in BOOLEAN : c = (~ v2.conn)
    BY Zenon
  <2>1. v2' = [v2 EXCEPT !.conn = c] /\ UNCHANGED <<v1, v3, v4, v5, v6, v7>>
    BY <1>3, <2>0 DEF Status!Lifecycle
  <2>2. v2' \in R /\ v2'.last = v2.last /\ v2'.life = v2.life /\ v2'.missing = v2.missing
    BY <1>0, <2>1
  <2> QED
    BY <1>0, <2>1, <2>2 DEF Quiet
<1>4. CASE Status!Dies
  <2>1. v2' = [v2 EXCEPT !.up = FALSE] /\ UNCHANGED <<v1, v3, v4, v5, v6, v7>>
    BY <1>4 DEF Status!Dies
  <2>2. v2' \in R /\ v2'.last = v2.last /\ v2'.life = v2.life /\ v2'.missing = v2.missing
    BY <1>0, <2>1
  <2> QED
    BY <1>0, <2>1, <2>2 DEF Quiet
<1>5. CASE Status!Starts
  <2>1. v2' = [up |-> TRUE, life |-> v2.life + 1, conn |-> FALSE, last |-> NoScrape, missing |-> 0]
        /\ UNCHANGED <<v1, v3, v4, v5, v6, v7>>
    BY <1>5 DEF Status!Starts, Status!NewLife
  <2>2. v2' \in R /\ v2'.last = NoScrape /\ v2'.life = v2.life + 1 /\ v2'.missing = 0
    BY <1>0, <2>1
  <2> QED
    BY <1>0, <2>1, <2>2 DEF Quiet
<1>6. CASE Status!Interval
  <2>1. v1' = v1 + 1 /\ UNCHANGED <<v2, v3, v4, v5, v6>>
    BY <1>6 DEF Status!Interval
  <2>2. v7' \in BOOLEAN
    BY <1>6, Zenon DEF Status!Interval
  <2>3. v2' \in R /\ v2'.last = v2.last /\ v2'.life = v2.life /\ v2'.missing = v2.missing
    BY <1>0, <2>1
  <2> QED
    BY <1>0, <2>1, <2>2, <2>3 DEF Quiet
<1> QED
  BY <1>1, <1>2, <1>3, <1>4, <1>5, <1>6

LEMMA QuietKeeps == ASSUME Status!PageInv, Quiet PROVE Status!PageInv'
<1>0. Status!TypeOK /\ Status!Heard /\ Status!InOrder /\ (v6 # NoScrape => v5 # <<>>)
  BY DEF Status!PageInv
<1>1. v1 \in Nat /\ v3 \in Nat /\ v4 \in Nat /\ v2.life \in Nat /\ v2.missing \in Nat
      /\ v2.last \in Nat \cup {NoScrape}
  BY <1>0, PointsAre
<1>2. PICK n \in Nat : n = v1' /\ v1 <= n
  BY <1>1 DEF Quiet
<1>3. PICK l \in Nat : l = v3' /\ v3 <= l
  BY <1>1 DEF Quiet
<1>4. PICK h \in Nat : h = v4' /\ v4 <= h /\ h <= n
  BY <1>0, <1>1, <1>2 DEF Quiet, Status!Heard
<1>5. Status!TypeOK'
  BY <1>0, <1>2, <1>3, <1>4 DEF Quiet, Status!TypeOK
<1>6. Status!Heard'
  <2>1. v2'.last # NoScrape => v2'.last <= h
    <3>1. CASE v4' = v4 /\ v2'.last \in {v2.last, NoScrape}
      BY <1>0, <1>4, <3>1 DEF Status!Heard
    <3>2. CASE v4' = v1 /\ v2'.last = v1
      BY <1>1, <1>4, <3>2
    <3> QED
      BY <3>1, <3>2 DEF Quiet
  <2>2. ASSUME NEW i \in DOMAIN v5, v5[i].last # NoScrape PROVE v5[i].last <= h
    <3>1. v5[i].last \in Nat /\ v5[i].last <= v4
      BY <1>0, <2>2, PointsAre DEF Status!Heard
    <3> QED
      BY <1>1, <1>4, <3>1
  <2> QED
    BY <1>2, <1>4, <2>1, <2>2 DEF Status!Heard, Quiet
<1>7. v5 # <<>> => Status!Follows(v5[Len(v5)], Status!derive')
  <2> SUFFICES ASSUME v5 # <<>> PROVE Status!Follows(v5[Len(v5)], Status!derive')
    OBVIOUS
  <2> DEFINE p == v5[Len(v5)]
             d == Status!derive
  <2>1. Status!Follows(p, d) /\ p \in Status!Points /\ d \in Status!Points
    <3>1. Len(v5) \in 1..Len(v5)
      BY <1>0, PointsAre
    <3> QED
      BY <1>0, <3>1, PointsAre DEF Status!InOrder, Status!latest
  <2>2. d.ts = v1 /\ d.lost = v3 /\ d.life = v2.life /\ d.missing = v2.missing
    BY <1>0, PointsAre
  <2>3. d'.ts = v1' /\ d'.lost = v3' /\ d'.life = v2'.life /\ d'.missing = v2'.missing
    BY DEF Status!derive
  <2>4. p.ts \in Nat /\ p.lost \in Nat /\ p.life \in Nat /\ p.missing \in Nat
    BY <1>0, <2>1, PointsAre
  <2> HIDE DEF p, d
  <2>5. /\ p.ts <= v1 /\ p.life <= v2.life /\ p.lost <= v3
        /\ IF p.life = v2.life THEN v2.missing - p.missing = v3 - p.lost ELSE v2.missing <= v3 - p.lost
    BY <2>1, <2>2 DEF Status!Follows
  <2>6. PICK a \in Nat : a = v2'.life
    BY <1>1 DEF Quiet
  <2>7. PICK b \in Nat : b = v2'.missing
    BY <1>1 DEF Quiet
  <2>8. \/ a = v2.life /\ b = v2.missing /\ l = v3
        \/ a = v2.life /\ b = v2.missing + 1 /\ l = v3 + 1
        \/ a = v2.life + 1 /\ b = 0 /\ l = v3
    BY <1>3, <2>6, <2>7 DEF Quiet
  <2>9. /\ p.ts <= n /\ p.life <= a /\ p.lost <= l
        /\ IF p.life = a THEN b - p.missing = l - p.lost ELSE b <= l - p.lost
    <3>1. PICK e, f, g \in Int : e = p.life /\ f = p.missing /\ g = p.lost
      BY <2>4
    <3>2. PICK x, y \in Nat : x = v2.life /\ y = v2.missing
      BY <1>1
    <3>3. /\ e <= x /\ g <= v3 /\ (e = x => y - f = v3 - g) /\ (e # x => y <= v3 - g)
      BY <2>5, <3>1, <3>2
    <3>4. \/ a = x /\ b = y /\ l = v3
          \/ a = x /\ b = y + 1 /\ l = v3 + 1
          \/ a = x + 1 /\ b = 0 /\ l = v3
      BY <2>8, <3>2
    <3>5. v3 \in Nat /\ a \in Nat /\ b \in Nat /\ l \in Nat /\ x \in Nat /\ y \in Nat /\ e \in Int /\ f \in Int /\ g \in Int
      BY <1>1, <3>1, <3>2
    <3>6. e <= a /\ g <= l /\ (e = a => b - f = l - g) /\ (e # a => b <= l - g)
      BY ONLY <3>3, <3>4, <3>5
    <3>7. p.ts <= n
      BY <1>1, <1>2, <2>4, <2>5
    <3> QED
      BY <3>1, <3>6, <3>7
  <2> QED
    BY <1>2, <1>3, <2>3, <2>6, <2>7, <2>9 DEF Status!Follows, p, d
<1>8. Status!InOrder'
  BY <1>0, <1>7 DEF Status!InOrder, Status!latest, Quiet, Status!Follows
<1> QED
  BY <1>0, <1>5, <1>6, <1>8 DEF Status!PageInv, Quiet

LEMMA FollowsItself ==
  ASSUME NEW p \in Status!Points PROVE Status!Follows(p, p)
<1>1. p.ts \in Nat /\ p.life \in Nat /\ p.lost \in Nat /\ p.missing \in Nat
  BY DEF Status!Points
<1> QED
  BY <1>1 DEF Status!Follows

(* What a scrape leaves of the points: those from the k-th on.             *)
LEMMA AddIs ==
  ASSUME Status!TypeOK
  PROVE  LET all == Append(v5, Status!derive)
         IN  \E k \in 1..Len(v5) + 1 :
               /\ Status!add(Status!derive) = SubSeq(all, k, Len(v5) + 1)
               /\ SubSeq(all, k, Len(v5) + 1) \in Seq(Status!Points)
               /\ Len(SubSeq(all, k, Len(v5) + 1)) = Len(v5) + 2 - k
               /\ \A i \in 1..Len(v5) + 2 - k : SubSeq(all, k, Len(v5) + 1)[i] = all[i + k - 1]
<1> DEFINE d == Status!derive
           all == Append(v5, d)
           n == Len(v5) + 1
           K == {i \in DOMAIN all : d.ts - all[i].ts <= PageAge}
<1>1. v5 \in Seq(Status!Points) /\ d \in Status!Points /\ d.ts \in Nat /\ PageAge \in Nat
  BY PointsAre, PageConstants DEF Status!TypeOK
<1> HIDE DEF d
<1>2. all \in Seq(Status!Points) /\ Len(all) = n /\ n \in Nat /\ DOMAIN all = 1..n /\ all[n] = d /\ n >= 1
  BY <1>1
<1>3. n \in K /\ K \in SUBSET (1..n)
  BY <1>1, <1>2
<1> HIDE DEF all, K
<1>4. \E x \in K : \A y \in K : x <= y
  <2> HIDE DEF n
  <2> QED
    BY <1>2, <1>3, BestExist
<1>5. PICK k \in K : k = Status!Min(K)
  BY <1>4 DEF Status!Min
<1>6. k \in 1..n
  BY <1>3
<1>7. Status!add(d) = SubSeq(all, k, n)
  BY <1>2, <1>5 DEF Status!add, all, K
<1>8. /\ SubSeq(all, k, n) \in Seq(Status!Points)
      /\ Len(SubSeq(all, k, n)) = n + 1 - k
      /\ \A i \in 1..n + 1 - k : SubSeq(all, k, n)[i] = all[i + k - 1]
  <2> HIDE DEF n
  <2> QED
    BY <1>2, <1>6
<1>9. n + 1 - k = Len(v5) + 2 - k
  BY <1>1, <1>6
<1> QED
  BY <1>6, <1>7, <1>8, <1>9 DEF all, d

LEMMA ScrapeKeeps == ASSUME Status!PageInv, Status!Scrape PROVE Status!PageInv'
<1> DEFINE d == Status!derive
           all == Append(v5, d)
           m == Len(v5)
<1>0. /\ Status!TypeOK /\ Status!Heard /\ Status!InOrder /\ (v6 # NoScrape => v5 # <<>>)
      /\ UNCHANGED <<v1, v2, v3, v4>>
  BY DEF Status!PageInv, Status!Scrape
<1>1. v7' \in BOOLEAN /\ Status!derive' = d
  BY <1>0, Zenon DEF Status!Scrape, Status!derive
<1>2. CASE UNCHANGED <<v5, v6>>
  BY <1>0, <1>1, <1>2 DEF Status!PageInv, Status!TypeOK, Status!Heard, Status!InOrder, Status!latest
<1>3. CASE v5' = Status!add(d) /\ v6' = v1
  <2>1. PICK k \in 1..m + 1 :
          /\ v5' = SubSeq(all, k, m + 1) /\ v5' \in Seq(Status!Points) /\ Len(v5') = m + 2 - k
          /\ \A i \in 1..m + 2 - k : v5'[i] = all[i + k - 1]
    BY <1>0, <1>3, AddIs
  <2>2. /\ m \in Nat /\ d \in Status!Points /\ v5 \in Seq(Status!Points) /\ d.last = v2.last
        /\ DOMAIN v5 = 1..m /\ v1 \in Nat /\ v3 \in Nat /\ v4 \in Nat
    BY <1>0, PointsAre DEF Status!TypeOK
  <2> HIDE DEF d
  <2>3. /\ \A i \in 1..m : all[i] = v5[i]
        /\ all[m + 1] = d
    BY <2>2
  <2> HIDE DEF all, m
  <2>4. /\ DOMAIN v5' = 1..m + 2 - k /\ k \in Nat /\ m + 2 - k \in Nat /\ m + 2 - k >= 1
        /\ v5' # <<>> /\ v5'[Len(v5')] = d
    <3>1. m + 2 - k \in Nat /\ m + 2 - k >= 1 /\ m + 2 - k + k - 1 = m + 1 /\ k \in Nat
      BY <2>2
    <3>2. DOMAIN v5' = 1..m + 2 - k
      BY <2>1
    <3>3. v5'[m + 2 - k] = all[m + 2 - k + k - 1]
      BY <2>1, <3>1
    <3>4. v5'[Len(v5')] = d
      <4>1. Len(v5') = m + 2 - k
        BY <2>1
      <4>2. all[m + 2 - k + k - 1] = all[m + 1]
        BY <3>1
      <4> QED
        BY <2>3, <3>3, <4>1, <4>2
    <3>5. v5' # <<>>
      <4>1. Len(v5') # 0
        BY <2>1, <3>1
      <4> QED
        BY <4>1
    <3> QED
      BY <3>1, <3>2, <3>4, <3>5
  <2>5. \A i \in 1..m + 2 - k : i + k - 1 \in 1..m + 1 /\ (i > 1 => i + k - 2 \in 1..m /\ (i - 1) + k - 1 = i + k - 2)
    BY <2>2, <2>4
  <2>6. ASSUME NEW i \in 1..m + 1 PROVE all[i].last # NoScrape => all[i].last <= v4
    <3>1. CASE i = m + 1
      BY <1>0, <2>2, <2>3, <3>1 DEF Status!Heard
    <3>2. CASE i \in 1..m
      BY <1>0, <2>2, <2>3, <3>2 DEF Status!Heard
    <3> QED
      BY <2>2, <3>1, <3>2
  <2>7. ASSUME NEW i \in 1..m PROVE Status!Follows(all[i], all[i + 1])
    <3>1. CASE i = m
      <4>1. v5 # <<>>
        BY <2>2, <3>1 DEF m
      <4>2. Status!Follows(v5[m], d)
        BY <1>0, <4>1 DEF Status!InOrder, Status!latest, m, d
      <4> QED
        BY <2>2, <2>3, <3>1, <4>2
    <3>2. CASE i # m
      <4>1. i + 1 \in 1..m /\ i + 1 > 1 /\ i + 1 - 1 = i
        BY <2>2, <3>2
      <4>2. Status!Follows(v5[i], v5[i + 1])
        <5>1. PICK j \in 1..m : j = i + 1 /\ j > 1 /\ j - 1 = i
          BY <4>1
        <5> QED
          BY <1>0, <2>2, <5>1 DEF Status!InOrder
      <4> QED
        BY <2>3, <4>1, <4>2
    <3> QED
      BY <3>1, <3>2
  <2>8. Status!TypeOK'
    BY <1>0, <1>1, <1>3, <2>1, <2>2 DEF Status!TypeOK
  <2>9. Status!Heard'
    BY <1>0, <2>1, <2>4, <2>5, <2>6 DEF Status!Heard
  <2>10. ASSUME NEW i \in 1..m + 2 - k, i > 1 PROVE Status!Follows(v5'[i - 1], v5'[i])
    <3>1. PICK j \in 1..m : j = i + k - 2 /\ j + 1 = i + k - 1 /\ j = (i - 1) + k - 1
      BY <2>2, <2>4, <2>5, <2>10
    <3>2. i - 1 \in 1..m + 2 - k
      BY <2>4, <2>10
    <3>3. v5'[i] = all[j + 1] /\ v5'[i - 1] = all[j]
      BY <2>1, <3>1, <3>2
    <3> QED
      BY <2>7, <3>1, <3>3
  <2>11. Status!InOrder'
    <3>1. Status!Follows(d, d)
      BY <2>2, FollowsItself
    <3>2. Status!latest' = d /\ (\A i \in DOMAIN v5' : i > 1 => Status!Follows(v5'[i - 1], v5'[i]))
      BY <2>4, <2>10 DEF Status!latest
    <3> QED
      BY <1>1, <3>1, <3>2 DEF Status!InOrder, Status!Follows
  <2> QED
    BY <2>4, <2>8, <2>9, <2>11 DEF Status!PageInv
<1> QED
  BY <1>2, <1>3 DEF Status!Scrape

LEMMA PageNext ==
  ASSUME Status!PageInv, [Status!Next]_(Status!vars) PROVE Status!PageInv'
<1>1. CASE Status!PageRestarts
  <2>1. v5' = <<>> /\ v6' = NoScrape /\ UNCHANGED <<v1, v2, v3, v4, v7>>
    BY <1>1 DEF Status!PageRestarts
  <2>2. Status!TypeOK'
    BY <2>1 DEF Status!PageInv, Status!TypeOK
  <2> QED
    BY <2>1, <2>2 DEF Status!PageInv, Status!Heard, Status!InOrder
<1>2. CASE UNCHANGED Status!vars
  BY <1>2 DEF Status!vars, Status!PageInv, Status!TypeOK, Status!Heard, Status!InOrder, Status!latest,
              Status!derive
<1>3. Status!TypeOK
  BY DEF Status!PageInv
<1> QED
  BY <1>1, <1>2, <1>3, QuietSteps, QuietKeeps, ScrapeKeeps DEF Status!Next

LEMMA GreenMeans == ASSUME Status!PageInv PROVE Status!GreenIsFresh
<1> SUFFICES ASSUME Status!evaluate = {}
             PROVE  v5 # <<>> /\ (Status!latest.last # NoScrape => v1 - v4 <= StreamSilent)
  BY DEF Status!GreenIsFresh
<1>0. Status!TypeOK /\ Status!Heard
  BY DEF Status!PageInv
<1>1. v6 # NoScrape
  <2>1. v6 = NoScrape => "recorder_down" \in Status!recorder_issues
    BY DEF Status!recorder_issues
  <2> QED
    BY <2>1 DEF Status!evaluate
<1>2. v5 # <<>>
  BY <1>1 DEF Status!PageInv
<1>3. ASSUME Status!latest.last # NoScrape PROVE v1 - v4 <= StreamSilent
  <2>1. ~ (Status!Age > StreamSilent)
    <3>1. Status!Age > StreamSilent => "stream_silent" \in Status!stream_issues
      BY <1>2, <1>3 DEF Status!stream_issues
    <3> QED
      BY <3>1 DEF Status!evaluate
  <2>2. Len(v5) \in DOMAIN v5 /\ Status!latest \in Status!Points
    BY <1>0, <1>2, PointsAre DEF Status!latest
  <2>3. Status!latest.last \in Nat /\ Status!latest.last <= v4
    BY <1>0, <1>3, <2>2, PointsAre DEF Status!Heard, Status!latest
  <2>4. PICK l \in Nat : l = Status!latest.last
    BY <2>3
  <2>5. ~ (v1 - l > StreamSilent) /\ l <= v4
    BY <2>1, <2>3, <2>4 DEF Status!Age
  <2>6. v1 \in Nat /\ v4 \in Nat /\ StreamSilent \in Nat
    BY <1>0, PointsAre, PageConstants
  <2> QED
    BY ONLY <2>4, <2>5, <2>6
<1> QED
  BY <1>2, <1>3

(* What grows from each element to the next no more than another sequence  *)
(* does adds up to no more than that sequence grows.                       *)
LEMMA Telescope ==
  ASSUME NEW n \in Nat, NEW b \in 1..n, NEW g, NEW l,
         \A i \in 1..n : g[i] \in Int /\ l[i] \in Int,
         \A i \in (b + 1)..n : g[i] <= l[i] - l[i - 1]
  PROVE  SumFunctionOnSet(g, (b + 1)..n) <= l[n] - l[b]
<1> DEFINE s(m) == SumFunctionOnSet(g, (b + 1)..(b + m))
           S == {m \in Nat : b + m <= n => s(m) <= l[b + m] - l[b]}
<1>0. IsFiniteSet(1..n) /\ \A x \in 1..n : g[x] \in Int
  BY FS_Interval
<1>1. /\ SumFunctionOnSet(g, {}) = 0
      /\ \A T \in SUBSET (1..n) : SumFunctionOnSet(g, T) \in Int
      /\ \A T \in SUBSET (1..n) : \A x \in (1..n) \ T :
           SumFunctionOnSet(g, T \cup {x}) = SumFunctionOnSet(g, T) + g[x]
  <2> DEFINE I == 1..n
  <2>1. IsFiniteSet(I) /\ \A x \in I : g[x] \in Int
    BY <1>0
  <2> HIDE DEF I
  <2>2. /\ SumFunctionOnSet(g, {}) = 0
        /\ \A T \in SUBSET I : SumFunctionOnSet(g, T) \in Int
        /\ \A T \in SUBSET I : \A x \in I \ T :
             SumFunctionOnSet(g, T \cup {x}) = SumFunctionOnSet(g, T) + g[x]
    BY <2>1, SumSteps
  <2> QED
    BY <2>2 DEF I
<1>2. 0 \in S
  <2>1. (b + 1)..(b + 0) = {} /\ b + 0 = b /\ l[b] - l[b] = 0
    OBVIOUS
  <2> QED
    BY <1>1, <2>1
<1>3. ASSUME NEW m \in Nat, m \in S PROVE m + 1 \in S
  <2> SUFFICES ASSUME b + (m + 1) <= n PROVE s(m + 1) <= l[b + (m + 1)] - l[b]
    OBVIOUS
  <2> DEFINE x == b + (m + 1)
             T == (b + 1)..(b + m)
  <2>1. /\ x \in (b + 1)..n /\ x \in (1..n) \ T /\ T \in SUBSET (1..n)
        /\ x - 1 = b + m /\ b + m \in 1..n /\ (b + 1)..x = T \cup {x} /\ b + m <= n
    OBVIOUS
  <2>2. s(m) <= l[b + m] - l[b]
    BY <1>3, <2>1
  <2>3. g[x] <= l[x] - l[b + m] /\ g[x] \in Int /\ l[x] \in Int /\ l[b + m] \in Int /\ l[b] \in Int
    BY <2>1
  <2>4. s(m + 1) = s(m) + g[x] /\ s(m) \in Int
    <3>1. SumFunctionOnSet(g, T \cup {x}) = SumFunctionOnSet(g, T) + g[x] /\ SumFunctionOnSet(g, T) \in Int
      <4> HIDE DEF T, x
      <4> QED
        BY <1>1, <2>1
    <3> QED
      BY <2>1, <3>1
  <2>5. PICK a, c, d, e, f \in Int : a = s(m) /\ c = g[x] /\ d = l[x] /\ e = l[b + m] /\ f = l[b]
    BY <2>3, <2>4
  <2>6. a <= e - f /\ c <= d - e
    BY <2>2, <2>3, <2>5
  <2>7. a + c <= d - f
    BY <2>6
  <2> QED
    BY <2>4, <2>5, <2>7
<1>4. \A m \in Nat : m \in S
  <2> HIDE DEF S
  <2> QED
    BY <1>2, <1>3, CountingUp
<1>5. n - b \in Nat /\ b + (n - b) = n /\ n <= n
  OBVIOUS
<1>6. n - b \in S
  BY <1>4, <1>5
<1>7. b + (n - b) <= n => s(n - b) <= l[b + (n - b)] - l[b]
  BY <1>6
<1> QED
  BY <1>5, <1>7

LEMMA PageSumIs == \A f : Status!SumFunction(f) = SumFunctionOnSet(f, DOMAIN f)
BY DEF Status!SumFunction, Status!SumFunctionOnSet, Status!FoldFunctionOnSet, SumFunctionOnSet,
       FoldFunctionOnSet, Status!MapThenFoldSet, MapThenFoldSet

LEMMA IncreaseMeans == ASSUME Status!PageInv PROVE Status!IncreaseIsTrue
<1> SUFFICES ASSUME v5 # <<>>
             PROVE  /\ Status!increase(PageWindow) <= Status!latest.lost - v5[Status!Before(PageWindow)].lost
                    /\ Status!increase(PageWindow) >=
                         Status!SumFunction([i \in Status!OfOneLife(PageWindow) |-> v5[i].lost - v5[i - 1].lost])
  BY DEF Status!IncreaseIsTrue
<1> DEFINE n == Len(v5)
           W == {j \in 1..n : Status!InWindow(j, PageWindow)}
           g == [i \in W |-> Status!Growth(i)]
           G == [i \in 1..n |-> Status!Growth(i)]
           l == [i \in 1..n |-> v5[i].lost]
           O == Status!OfOneLife(PageWindow)
           o == [i \in O |-> v5[i].lost - v5[i - 1].lost]
           b == Status!Before(PageWindow)
<1>0. Status!TypeOK /\ Status!InOrder
  BY DEF Status!PageInv
<1>1. /\ n \in Nat /\ n # 0 /\ DOMAIN v5 = 1..n /\ n \in 1..n /\ 1 \in 1..n
      /\ \A i \in 1..n : v5[i].ts \in Nat /\ v5[i].life \in Nat /\ v5[i].lost \in Nat /\ v5[i].missing \in Nat
  <2>1. n \in Nat /\ n # 0 /\ DOMAIN v5 = 1..n /\ \A i \in 1..n : v5[i] \in Status!Points
    BY <1>0, PointsAre
  <2> QED
    BY <1>0, <2>1, PointsAre
<1>2. Status!latest = v5[n]
  BY DEF Status!latest
<1> HIDE DEF n
(* Each point's growth.                                                    *)
<1>3. ASSUME NEW i \in 1..n, i > 1
      PROVE  /\ i - 1 \in 1..n /\ Status!Growth(i) \in Nat
             /\ Status!Growth(i) <= v5[i].lost - v5[i - 1].lost
             /\ v5[i].life = v5[i - 1].life => Status!Growth(i) = v5[i].lost - v5[i - 1].lost
             /\ v5[i - 1].ts <= v5[i].ts
  <2>1. i - 1 \in 1..n /\ i # 1
    BY <1>1, <1>3
  <2>2. Status!Follows(v5[i - 1], v5[i])
    BY <1>0, <1>1, <1>3 DEF Status!InOrder
  <2>3. Status!Growth(i) = IF v5[i].missing >= v5[i - 1].missing THEN v5[i].missing - v5[i - 1].missing
                           ELSE v5[i].missing
    BY <2>1 DEF Status!Growth
  <2>4. PICK mi, mj \in Nat : mi = v5[i].missing /\ mj = v5[i - 1].missing
    BY <1>1, <2>1
  <2>5. PICK li, lj \in Nat : li = v5[i].lost /\ lj = v5[i - 1].lost
    BY <1>1, <2>1
  <2>6. /\ lj <= li
        /\ v5[i - 1].life = v5[i].life => mi - mj = li - lj
        /\ v5[i - 1].life # v5[i].life => mi <= li - lj
    BY <2>2, <2>4, <2>5 DEF Status!Follows
  <2>7. PICK w \in Nat : w = IF mi >= mj THEN mi - mj ELSE mi
    <3>1. mi >= mj => mi - mj \in Nat
      BY <2>4
    <3> QED
      BY <2>4, <3>1
  <2>8. w = Status!Growth(i)
    BY <2>3, <2>4, <2>7
  <2>9. w <= li - lj /\ (v5[i].life = v5[i - 1].life => w = li - lj)
    <3>1. CASE v5[i - 1].life = v5[i].life
      BY <2>6, <2>7, <3>1
    <3>2. CASE v5[i - 1].life # v5[i].life
      BY <2>6, <2>7, <3>2
    <3> QED
      BY <3>1, <3>2
  <2> QED
    BY <2>1, <2>2, <2>5, <2>8, <2>9 DEF Status!Follows
<1>4. Status!Growth(1) = 0
  BY DEF Status!Growth
<1>5. \A i \in 1..n : G[i] \in Nat /\ G[i] \in Int /\ l[i] \in Int /\ l[i] = v5[i].lost
  <2>1. \A i \in 1..n : Status!Growth(i) \in Nat
    BY <1>1, <1>3, <1>4
  <2> QED
    BY <1>1, <2>1
<1>6. IsFiniteSet(1..n) /\ W \in SUBSET (1..n) /\ IsFiniteSet(W)
  <2>1. IsFiniteSet(1..n)
    BY <1>1, FS_Interval
  <2> QED
    BY <2>1, FS_Subset
<1>7. Status!increase(PageWindow) = SumFunctionOnSet(G, W)
  <2>1. Status!increase(PageWindow) = Status!SumFunction(g)
    BY <1>1 DEF Status!increase
  <2>2. DOMAIN g = W
    OBVIOUS
  <2>3. Status!SumFunction(g) = SumFunctionOnSet(g, W)
    <3> HIDE DEF g, W
    <3> QED
      BY <2>2, PageSumIs
  <2>4. \A i \in W : G[i] \in Int /\ g[i] = G[i]
    BY <1>5, <1>6
  <2>5. SumFunctionOnSet(G, W) = SumFunctionOnSet(g, W)
    <3> HIDE DEF g, G, W
    <3> QED
      BY <1>6, <2>4, SumSame
  <2> QED
    BY <2>1, <2>3, <2>5
(* The window begins after b.                                              *)
<1>8. /\ b \in 1..n
      /\ b = 1 \/ b \notin W
      /\ \A i \in 1..n : i > b => i \in W
  <2> DEFINE B == {1} \cup {i \in 1..n : ~ Status!InWindow(i, PageWindow)}
  <2>1. b = Status!Max(B)
    BY <1>1 DEF Status!Before
  <2>2. B \in SUBSET (1..n) /\ B # {}
    BY <1>1
  <2>3. \E x \in B : \A k \in B : x >= k
    <3> HIDE DEF B
    <3> QED
      BY <1>1, <2>2, BestExist
  <2>4. b \in B /\ \A k \in B : b >= k
    <3> HIDE DEF B
    <3> QED
      BY <2>1, <2>3 DEF Status!Max
  <2>5. b \in 1..n
    BY <2>2, <2>4
  <2>6. b = 1 \/ b \notin W
    BY <2>4
  <2>7. ASSUME NEW i \in 1..n, i > b PROVE i \in W
    <3>1. i \notin B
      <4> HIDE DEF B
      <4> QED
        BY <1>1, <2>4, <2>5, <2>7
    <3> QED
      BY <3>1
  <2> QED
    BY <2>5, <2>6, <2>7
<1> HIDE DEF b
<1>9. ASSUME NEW i \in W, i < b PROVE FALSE
  <2> DEFINE T == {j \in W : j < b}
  <2>1. T \in SUBSET (1..n) /\ i \in T
    BY <1>6, <1>9
  <2>2. PICK j \in T : \A k \in T : j >= k
    <3> HIDE DEF T
    <3> QED
      BY <1>1, <2>1, BestExist
  <2>3. j \in 1..n /\ j < b /\ j \in W /\ b \in 1..n
    BY <1>6, <1>8, <2>2
  <2>4. j + 1 \in 1..n /\ j + 1 > 1 /\ j + 1 - 1 = j /\ j + 1 <= b
    BY <1>1, <2>3
  <2>5. v5[j].ts <= v5[j + 1].ts
    <3>1. PICK k \in 1..n : k = j + 1 /\ k > 1 /\ k - 1 = j
      BY <2>4
    <3>2. v5[k - 1].ts <= v5[k].ts
      BY <1>3, <3>1
    <3> QED
      BY <3>1, <3>2
  <2>6. j + 1 \in W
    <3>1. v5[j].ts >= v5[n].ts - PageWindow
      BY <1>2, <2>3 DEF Status!InWindow
    <3>2. v5[j].ts \in Nat /\ v5[n].ts \in Nat /\ v5[j + 1].ts \in Nat /\ PageWindow \in Nat
      BY <1>1, <2>3, <2>4, PageConstants
    <3>3. v5[j + 1].ts >= v5[n].ts - PageWindow
      BY <2>5, <3>1, <3>2
    <3> QED
      BY <1>2, <2>4, <3>3 DEF Status!InWindow
  <2>7. CASE j + 1 = b
    <3>1. b \in W /\ b # 1
      BY <2>4, <2>6, <2>7
    <3> QED
      BY <1>8, <3>1
  <2>8. CASE j + 1 # b
    <3>1. j + 1 \in T
      BY <2>3, <2>4, <2>6, <2>8
    <3> QED
      BY <2>2, <2>3, <3>1
  <2> QED
    BY <2>7, <2>8
(* No more than was lost.                                                  *)
<1>10. SumFunctionOnSet(G, W) <= l[n] - l[b]
  <2>1. SumFunctionOnSet(G, (b + 1)..n) <= l[n] - l[b]
    <3>1. \A i \in (b + 1)..n : i \in 1..n /\ i > 1 /\ i - 1 \in 1..n
      BY <1>1, <1>8
    <3>2. \A i \in (b + 1)..n : G[i] <= l[i] - l[i - 1]
      BY <1>3, <3>1
    <3> HIDE DEF G, l
    <3> QED
      BY <1>1, <1>5, <1>8, <3>2, Telescope
  <2>2. (b + 1)..n \subseteq W /\ (b + 1)..n \in SUBSET (1..n)
    <3>1. \A i \in (b + 1)..n : i \in 1..n /\ i > b
      BY <1>1, <1>8
    <3> QED
      BY <1>8, <3>1
  <2>3. \A i \in W \ ((b + 1)..n) : G[i] = 0
    <3> SUFFICES ASSUME NEW i \in W \ ((b + 1)..n) PROVE G[i] = 0
      OBVIOUS
    <3>1. i \in 1..n /\ i <= b
      BY <1>1, <1>6, <1>8
    <3>2. i = b
      BY <1>1, <1>8, <1>9, <3>1
    <3>3. i = 1
      BY <1>8, <3>2
    <3> QED
      BY <1>1, <1>4, <3>3
  <2>4. SumFunctionOnSet(G, W) = SumFunctionOnSet(G, (b + 1)..n)
    <3>1. \A i \in W : G[i] \in Int
      BY <1>5, <1>6
    <3> HIDE DEF G, W
    <3> QED
      BY <1>6, <2>2, <2>3, <3>1, SumOfPart
  <2> QED
    BY <2>1, <2>4
(* No less than was lost between two points of one process.                *)
<1>11. Status!SumFunction(o) <= SumFunctionOnSet(G, W)
  <2>1. O \in SUBSET W /\ \A i \in O : i \in 1..n /\ i > 1 /\ v5[i].life = v5[i - 1].life
    BY <1>1 DEF Status!OfOneLife
  <2>2. DOMAIN o = O /\ IsFiniteSet(O)
    BY <1>6, <2>1, FS_Subset
  <2>3. Status!SumFunction(o) = SumFunctionOnSet(o, O)
    <3> HIDE DEF o, O
    <3> QED
      BY <2>2, PageSumIs
  <2>4. \A i \in O : G[i] \in Int /\ o[i] = G[i]
    BY <1>3, <1>5, <2>1
  <2>5. SumFunctionOnSet(G, O) = SumFunctionOnSet(o, O)
    <3> HIDE DEF o, O, G
    <3> QED
      BY <2>2, <2>4, SumSame
  <2>6. \A i \in W : G[i] \in Nat
    BY <1>5, <1>6
  <2>7. SumFunctionOnSet(G, O) <= SumFunctionOnSet(G, W)
    <3> HIDE DEF O, G, W
    <3> QED
      BY <1>6, <2>1, <2>6, SumGrows
  <2> QED
    BY <2>3, <2>5, <2>7
<1>12. l[n] = v5[n].lost /\ l[b] = v5[b].lost
  BY <1>1, <1>8
<1> QED
  BY <1>2, <1>7, <1>10, <1>11, <1>12 DEF b

-----------------------------------------------------------------------------
(* The pollers.                                                            *)

LEMMA PollsConstants ==
  /\ ClockJob # SymbolJob /\ Polls!Jobs = {ClockJob, SymbolJob}
  /\ Len(PollSymbols) \in Nat \ {0} /\ DOMAIN PollSymbols = 1..Len(PollSymbols)
  /\ \A i \in DOMAIN PollSymbols : PollSymbols[i] \in Polls!Range(PollSymbols)
  /\ PollInterval[ClockJob] \in Nat \ {0} /\ PollInterval[SymbolJob] \in Nat \ {0}
  /\ RestrictedWait \in Nat /\ RetryAfter \in Nat /\ PollTimeout \in Nat
<1>1. PollSymbols \in Seq(Polls!Range(PollSymbols)) /\ PollSymbols # <<>>
  BY PollsAssumption DEF Polls!PollersAssumption
<1>2. /\ Len(PollSymbols) \in Nat /\ DOMAIN PollSymbols = 1..Len(PollSymbols)
      /\ Len(PollSymbols) # 0
  BY <1>1
<1> QED
  BY <1>2, PollsAssumption DEF Polls!PollersAssumption, Polls!Jobs, Polls!Range

LEMMA PollsLarger == ASSUME NEW i \in Int, NEW j \in Int
                     PROVE  Polls!Max({i, j}) = IF i <= j THEN j ELSE i
<1>1. \E x \in {i, j} : \A y \in {i, j} : x >= y
  OBVIOUS
<1> QED
  BY <1>1 DEF Polls!Max

(* What a job may sleep.                                                   *)
LEMMA NapsAre ==
  /\ Polls!Nap \in Nat /\ Polls!LongNap \in Nat /\ Polls!Between \in Nat \ {0}
  /\ PollInterval[ClockJob] <= Polls!Nap /\ RetryAfter <= Polls!Nap
  /\ Polls!Nap <= Polls!LongNap /\ RestrictedWait <= Polls!LongNap
  /\ RestrictedWait <= Polls!Between /\ RetryAfter + PollInterval[SymbolJob] <= Polls!Between
  /\ Polls!Max({PollInterval[ClockJob], RestrictedWait}) \in Nat
  /\ Polls!Max({PollInterval[ClockJob], RestrictedWait}) <= Polls!LongNap
  /\ Polls!Max({PollInterval[ClockJob], RetryAfter}) = Polls!Nap
  /\ Polls!Max({PollInterval[SymbolJob], RestrictedWait}) \in Nat
  /\ Polls!Max({PollInterval[SymbolJob], RestrictedWait}) <= Polls!Between
  /\ Polls!Max({PollInterval[SymbolJob], RetryAfter}) \in Nat
  /\ Polls!Max({PollInterval[SymbolJob], RetryAfter}) <= Polls!Between
<1> USE PollsConstants
<1> DEFINE a == PollInterval[ClockJob]
           b == PollInterval[SymbolJob]
<1>0. a \in Int /\ b \in Int /\ RestrictedWait \in Int /\ RetryAfter \in Int /\ RetryAfter + b \in Int
  OBVIOUS
<1>1. Polls!Nap = IF a <= RetryAfter THEN RetryAfter ELSE a
  BY <1>0, PollsLarger DEF Polls!Nap
<1>2. Polls!LongNap = IF Polls!Nap <= RestrictedWait THEN RestrictedWait ELSE Polls!Nap
  BY <1>0, <1>1, PollsLarger DEF Polls!LongNap
<1>3. Polls!Between = IF RestrictedWait <= RetryAfter + b THEN RetryAfter + b ELSE RestrictedWait
  BY <1>0, PollsLarger DEF Polls!Between
<1>4. /\ Polls!Max({a, RestrictedWait}) = IF a <= RestrictedWait THEN RestrictedWait ELSE a
      /\ Polls!Max({b, RestrictedWait}) = IF b <= RestrictedWait THEN RestrictedWait ELSE b
      /\ Polls!Max({b, RetryAfter}) = IF b <= RetryAfter THEN RetryAfter ELSE b
  BY <1>0, PollsLarger
<1> QED
  BY <1>1, <1>2, <1>3, <1>4 DEF Polls!Nap

(* So many requests.                                                       *)
Slots == [n \in Nat |-> n * PollTimeout]

LEMMA SlotsAre ==
  /\ Slots[0] = 0
  /\ \A n \in Nat : Slots[n] \in Nat /\ Slots[n + 1] = Slots[n] + PollTimeout
  /\ \A n \in Nat : \A m \in 0..n : Slots[m] <= Slots[n]
<1> USE PollsConstants DEF Slots
<1>1. \A n \in Nat : n * PollTimeout \in Nat /\ (n + 1) * PollTimeout = n * PollTimeout + PollTimeout
  OBVIOUS
<1>2. ASSUME NEW n \in Nat, NEW m \in 0..n PROVE m * PollTimeout <= n * PollTimeout
  <2>1. n - m \in Nat /\ (n - m) * PollTimeout \in Nat /\ n = m + (n - m) /\ m \in Nat
    OBVIOUS
  <2>2. (m + (n - m)) * PollTimeout = m * PollTimeout + (n - m) * PollTimeout
    BY <2>1
  <2> QED
    BY <2>1, <2>2
<1> QED
  BY <1>1, <1>2

Answers(j) == Polls!Ask(j) \/ Polls!Answer(j) \/ Polls!Refused(j) \/ Polls!Unknown(j) \/ Polls!Fails(j)

JobRecord ==
  [at : {"asleep", "asks"}, due : Nat, i : DOMAIN PollSymbols, asked : Nat, refused : BOOLEAN]

(* What becomes of a job: it asks, or it sleeps and begins again, or it    *)
(* goes on to the next symbol.                                             *)
LEMMA JobSteps ==
  ASSUME Polls!TypeOK, NEW j \in Polls!Jobs, Answers(j)
  PROVE  /\ v1' = v1 /\ v2' = v2 /\ v3' = v3 /\ v4' = v4
         /\ \A k \in Polls!Jobs \ {j} : v5'[k] = v5[k]
         /\ DOMAIN v5' = Polls!Jobs
         /\ \/ /\ Polls!Ready(j)
               /\ v5'[j].at = "asks" /\ v5'[j].asked = v1 /\ v5'[j].refused = ~ v2
               /\ v5'[j].i = v5[j].i /\ v5'[j].due = v5[j].due
               /\ UNCHANGED <<v6, v7, v8, v9>>
            \/ /\ Polls!Asks(j)
               /\ v5'[j].at = "asleep"
               /\ \/ Polls!Answer(j) \/ Polls!Refused(j) \/ Polls!Unknown(j) \/ Polls!Fails(j)
<1> USE DEF Polls!TypeOK, JobRecord, Polls!Ask, Polls!Answer, Polls!Refused, Polls!Unknown,
      Polls!Fails, Polls!Sleep, Polls!Asleep, Answers
<1>0. v5 \in [Polls!Jobs -> JobRecord]
  OBVIOUS
<1>1. CASE Polls!Ask(j)
  BY <1>0, <1>1
<1>2. CASE ~ Polls!Ask(j)
  BY <1>0, <1>2
<1> QED
  BY <1>1, <1>2

LEMMA RecordIs ==
  ASSUME NEW x \in {"asleep", "asks"}, NEW d \in Nat, NEW p \in DOMAIN PollSymbols, NEW q \in Nat,
         NEW b \in BOOLEAN
  PROVE  [at |-> x, due |-> d, i |-> p, asked |-> q, refused |-> b] \in JobRecord
BY DEF JobRecord

LEMMA PollsTypes == ASSUME Polls!TypeOK, Polls!Next PROVE Polls!TypeOK'
<1> USE PollsConstants DEF Polls!TypeOK
<1> DEFINE R == JobRecord
<1>0. /\ v5 \in [Polls!Jobs -> R] /\ 1 \in DOMAIN PollSymbols
      /\ {v1, v3, v6, v9} \subseteq Nat /\ v2 \in BOOLEAN /\ v7 \in BOOLEAN
  BY DEF JobRecord
<1>a. /\ \A j \in Polls!Jobs : v5[j] \in R
      /\ \A j \in Polls!Jobs : v5[j].i \in DOMAIN PollSymbols /\ v5[j].due \in Nat /\ v5[j].asked \in Nat
      /\ \A j \in Polls!Jobs : v5[j].refused \in BOOLEAN /\ v5[j].at \in {"asleep", "asks"}
      /\ \A j \in Polls!Jobs : v5[j] = [at |-> v5[j].at, due |-> v5[j].due, i |-> v5[j].i,
                                     asked |-> v5[j].asked, refused |-> v5[j].refused]
  BY <1>0 DEF JobRecord
<1>1. ASSUME NEW j \in Polls!Jobs, Answers(j) PROVE Polls!TypeOK'
  <2>1. ASSUME NEW d \in Nat, Polls!Sleep(j, d) PROVE v5' \in [Polls!Jobs -> R] /\ v5'[ClockJob].i = 1
    <3>0. v1 + d \in Nat
      BY <1>0
    <3>1. Polls!Asleep(v1 + d) \in R
      BY <1>0, <3>0, RecordIs, Zenon DEF Polls!Asleep
    <3>2. v5' = [v5 EXCEPT ![j] = Polls!Asleep(v1 + d)] /\ Polls!Asleep(v1 + d).i = 1
      BY <2>1 DEF Polls!Sleep, Polls!Asleep
    <3> HIDE DEF R
    <3> QED
      BY <1>0, <3>1, <3>2
  <2>a. PollInterval[j] \in Nat /\ Polls!Max({PollInterval[j], RestrictedWait}) \in Nat
        /\ Polls!Max({PollInterval[j], RetryAfter}) \in Nat
    BY NapsAre
  <2>2. CASE Polls!Ask(j)
    <3>0. PICK b \in BOOLEAN : b = (~ v2)
      BY Zenon
    <3>1. v5' \in [Polls!Jobs -> R] /\ v5'[ClockJob].i = 1
      <4>0. b \in BOOLEAN
        OBVIOUS
      <4>1. v5' = [v5 EXCEPT ![j].at = "asks", ![j].asked = v1, ![j].refused = b]
        BY <2>2, <3>0, Zenon DEF Polls!Ask
      <4>2. v5 \in [Polls!Jobs -> JobRecord] /\ v1 \in Nat
        BY <1>0
      <4>3. v5' \in [Polls!Jobs -> JobRecord] /\ \A k \in Polls!Jobs : v5'[k].i = v5[k].i
        BY ONLY <1>1, <4>0, <4>1, <4>2 DEF JobRecord
      <4> QED
        BY <4>3
    <3> QED
      BY <2>2, <3>1 DEF Polls!Ask, JobRecord
  <2>3. CASE Polls!Answer(j)
    <3>0. j = SymbolJob => Polls!Symbol(j) \in Polls!Range(PollSymbols)
      BY <1>a DEF Polls!Symbol
    <3>1. v8' \in [Polls!Range(PollSymbols) -> Nat]
      BY <2>3, <3>0 DEF Polls!Answer
    <3>b. v7' \in BOOLEAN
      BY <2>3 DEF Polls!Answer
    <3>2. CASE Polls!Sleep(j, PollInterval[j])
      BY <2>1, <2>3, <2>a, <3>1, <3>2, <3>b DEF Polls!Answer, JobRecord
    <3>3. CASE ~ Polls!Sleep(j, PollInterval[j])
      <4>1. /\ j = SymbolJob /\ v5[j].i < Len(PollSymbols)
            /\ v5' = [v5 EXCEPT ![j].at = "asleep", ![j].i = @ + 1, ![j].due = v1]
        BY <2>3, <3>3 DEF Polls!Answer
      <4>2. v5' \in [Polls!Jobs -> R] /\ v5'[ClockJob].i = 1
        <5>1. v5 \in [Polls!Jobs -> JobRecord] /\ v1 \in Nat
          BY <1>0
        <5>a. v5[j].i \in 1..Len(PollSymbols) /\ Len(PollSymbols) \in Nat
          BY <1>a, <4>1, PollsConstants
        <5>c. v5[j].i < Len(PollSymbols)
          BY <4>1
        <5>b. v5[j].i + 1 \in 1..Len(PollSymbols)
          BY ONLY <5>a, <5>c
        <5>2. v5' \in [Polls!Jobs -> JobRecord] /\ \A k \in Polls!Jobs \ {j} : v5'[k].i = v5[k].i
          BY ONLY <1>1, <4>1, <5>1, <5>b, PollsConstants DEF JobRecord
        <5> QED
          BY <4>1, <5>2
      <4> QED
        BY <2>3, <3>1, <3>b, <4>2 DEF Polls!Answer, JobRecord
    <3> QED
      BY <3>2, <3>3
  <2>4. CASE Polls!Refused(j)
    BY <2>1, <2>4, <2>a DEF Polls!Refused, JobRecord
  <2>5. CASE Polls!Unknown(j)
    BY <2>1, <2>5, <2>a DEF Polls!Unknown, JobRecord
  <2>6. CASE Polls!Fails(j)
    <3>1. v6' \in Nat
      <4>1. v6 \in Int /\ v1 + RetryAfter \in Int /\ v1 + RetryAfter \in Nat
        BY <1>0
      <4>2. Polls!Max({v6, v1 + RetryAfter}) \in Nat
        BY <1>0, <4>1, PollsLarger
      <4> QED
        BY <2>6, <4>2 DEF Polls!Fails
    <3> QED
      BY <2>1, <2>6, <2>a, <3>1 DEF Polls!Fails, JobRecord
  <2> QED
    BY <1>1, <2>2, <2>3, <2>4, <2>5, <2>6 DEF Answers
<1>2. CASE Polls!OtherRefused
  BY <1>2 DEF Polls!OtherRefused
<1>3. CASE Polls!Move
  <2>1. (~ v2) \in BOOLEAN
    OBVIOUS
  <2> QED
    BY <1>3, <2>1 DEF Polls!Move
<1>4. CASE Polls!Tick
  BY <1>4 DEF Polls!Tick
<1> QED
  BY <1>1, <1>2, <1>3, <1>4 DEF Polls!Next, Answers

LEMMA SleepIs ==
  ASSUME Polls!TypeOK, NEW j \in Polls!Jobs, NEW d \in Nat, Polls!Sleep(j, d)
  PROVE  v5'[j].at = "asleep" /\ v5'[j].due = v1 + d /\ v5'[j].i = 1
BY DEF Polls!TypeOK, Polls!Sleep, Polls!Asleep

LEMMA GoesOnIs ==
  ASSUME Polls!TypeOK, NEW j \in Polls!Jobs, Polls!Answer(j), j = SymbolJob, v5[j].i < Len(PollSymbols)
  PROVE  v5'[j].at = "asleep" /\ v5'[j].due = v1 /\ v5'[j].i = v5[j].i + 1
BY DEF Polls!TypeOK, Polls!Answer

LEMMA PollsFacts ==
  ASSUME Polls!TypeOK
  PROVE  /\ v1 \in Nat /\ v3 \in Nat /\ v6 \in Nat /\ v9 \in Nat /\ v2 \in BOOLEAN /\ v7 \in BOOLEAN
         /\ \A j \in Polls!Jobs : /\ v5[j].due \in Nat /\ v5[j].asked \in Nat
                                  /\ v5[j].i \in 1..Len(PollSymbols)
                                  /\ v5[j].at = "asleep" \/ v5[j].at = "asks"
                                  /\ v5[j].refused \in BOOLEAN
         /\ \A s \in Polls!Range(PollSymbols) : v8[s] \in Nat
         /\ Polls!Shaken = IF v3 <= v9 THEN v9 ELSE v3
<1>1. Polls!Shaken = IF v3 <= v9 THEN v9 ELSE v3
  BY PollsLarger DEF Polls!TypeOK, Polls!Shaken
<1> QED
  BY <1>1, PollsConstants DEF Polls!TypeOK

LEMMA FailsIs ==
  ASSUME Polls!TypeOK, NEW j \in Polls!Jobs, Polls!Fails(j)
  PROVE  /\ v1' = v1 /\ v2' = v2 /\ v3' = v3 /\ v4' = v4 /\ v7' = v7 /\ v8' = v8 /\ v9' = v1
         /\ v6 <= v6' /\ (v6' = v6 \/ v6' <= v1 + RetryAfter) /\ v6' \in Nat
<1>1. v6 \in Int /\ v6 \in Nat /\ v1 + RetryAfter \in Int /\ v1 + RetryAfter \in Nat
  BY PollsFacts, PollsConstants
<1>2. Polls!Max({v6, v1 + RetryAfter}) = IF v6 <= v1 + RetryAfter THEN v1 + RetryAfter ELSE v6
  BY <1>1, PollsLarger
<1>3. v6' = v6 \/ v6' = Polls!Max({v6, v1 + RetryAfter})
  BY DEF Polls!Fails
<1> QED
  BY <1>1, <1>2, <1>3 DEF Polls!Fails

(* The same of one job.                                                    *)
JobInTime(j) ==
  /\ ~ Polls!Asks(j) => v1 <= v5[j].due \/ v1 <= v6
  /\ Polls!Asks(j) => v5[j].asked <= v1 /\ v1 <= v5[j].asked + PollTimeout
  /\ Polls!Asks(j) /\ v5[j].refused = v2 => v5[j].asked <= v3

(* Once a job sleeps, it sleeps from now.                                  *)
LEMMA SleepsFromNow ==
  ASSUME Polls!TypeOK, NEW j \in Polls!Jobs,
         Polls!Answer(j) \/ Polls!Refused(j) \/ Polls!Unknown(j) \/ Polls!Fails(j)
  PROVE  v5'[j].at = "asleep" /\ v1 <= v5'[j].due
<1> USE PollsConstants, PollsFacts
<1>1. ASSUME NEW d \in Nat, Polls!Sleep(j, d) PROVE v5'[j].at = "asleep" /\ v1 <= v5'[j].due
  BY <1>1, SleepIs
<1>2. /\ PollInterval[j] \in Nat /\ Polls!Max({PollInterval[j], RestrictedWait}) \in Nat
      /\ Polls!Max({PollInterval[j], RetryAfter}) \in Nat
  BY NapsAre
<1>3. CASE Polls!Answer(j)
  <2>1. CASE j = SymbolJob /\ v5[j].i < Len(PollSymbols)
    BY <1>3, <2>1, GoesOnIs
  <2>2. CASE ~ (j = SymbolJob /\ v5[j].i < Len(PollSymbols))
    BY <1>1, <1>2, <1>3, <2>2 DEF Polls!Answer
  <2> QED
    BY <2>1, <2>2
<1>4. CASE ~ Polls!Answer(j)
  BY <1>1, <1>2, <1>4 DEF Polls!Refused, Polls!Unknown, Polls!Fails
<1> QED
  BY <1>3, <1>4

LEMMA JobsInTime ==
  ASSUME Polls!TypeOK, Polls!InTime, Polls!Next PROVE \A j \in Polls!Jobs : JobInTime(j)'
<1> USE PollsConstants, PollsFacts
<1>0. \A j \in Polls!Jobs : JobInTime(j)
  BY DEF Polls!InTime, JobInTime
<1> SUFFICES ASSUME NEW j \in Polls!Jobs PROVE JobInTime(j)'
  OBVIOUS
<1>1. ASSUME NEW k \in Polls!Jobs, Answers(k) PROVE JobInTime(j)'
  <2>0. v6' >= v6 /\ v1' = v1 /\ v2' = v2 /\ v3' = v3
    <3>1. CASE Polls!Fails(k)
      BY <3>1, FailsIs
    <3>2. CASE ~ Polls!Fails(k)
      BY <1>1, <3>2 DEF Answers, Polls!Ask, Polls!Answer, Polls!Refused, Polls!Unknown
    <3> QED
      BY <1>1, <3>1, <3>2, JobSteps
  <2>1. CASE j # k
    <3>1. v5'[j] = v5[j] /\ v6' \in Nat
      <4>1. Polls!Next
        BY <1>1 DEF Polls!Next, Answers
      <4>2. v6' \in Nat
        BY <4>1, PollsTypes DEF Polls!TypeOK
      <4> QED
        BY <1>1, <2>1, <4>2, JobSteps
    <3> QED
      BY <1>0, <2>0, <3>1 DEF JobInTime, Polls!Asks
  <2>2. CASE j = k /\ Polls!Ask(k)
    BY <1>1, <2>0, <2>2, JobSteps DEF JobInTime, Polls!Asks, Polls!Ask
  <2>3. CASE j = k /\ ~ Polls!Ask(k)
    BY <1>1, <2>0, <2>3, SleepsFromNow DEF JobInTime, Polls!Asks, Answers
  <2> QED
    BY <2>1, <2>2, <2>3
<1>2. CASE Polls!OtherRefused
  BY <1>0, <1>2 DEF Polls!OtherRefused, JobInTime, Polls!Asks
<1>3. CASE Polls!Move
  BY <1>0, <1>3 DEF Polls!Move, JobInTime, Polls!Asks
<1>4. CASE Polls!Tick
  <2>1. v1' = v1 + 1 /\ v5' = v5 /\ v2' = v2 /\ v3' = v3 /\ v6' = v6
    BY <1>4 DEF Polls!Tick
  <2>2. CASE Polls!Asks(j)
    <3>1. v1 - v5[j].asked < PollTimeout /\ v5[j].asked <= v1
      BY <1>0, <1>4, <2>2 DEF Polls!Tick, JobInTime
    <3>2. v5[j].asked <= v1 + 1 /\ v1 + 1 <= v5[j].asked + PollTimeout
      <4>1. v1 \in Nat /\ v5[j].asked \in Nat /\ PollTimeout \in Nat
        OBVIOUS
      <4> QED
        BY ONLY <3>1, <4>1
    <3>3. v5[j].refused = v2 => v5[j].asked <= v3
      BY <1>0, <2>2 DEF JobInTime
    <3> QED
      BY <2>1, <2>2, <3>2, <3>3 DEF JobInTime, Polls!Asks
  <2>3. CASE ~ Polls!Asks(j)
    <3>1. v1 < v5[j].due \/ v1 < v6
      BY <1>4, <2>3 DEF Polls!Tick, Polls!Asks, Polls!Ready
    <3> QED
      BY <2>1, <2>3, <3>1 DEF JobInTime, Polls!Asks
  <2> QED
    BY <2>2, <2>3
<1> QED
  BY <1>1, <1>2, <1>3, <1>4 DEF Polls!Next, Answers

LEMMA PollsInTime == ASSUME Polls!TypeOK, Polls!InTime, Polls!Next PROVE Polls!InTime'
<1> USE PollsConstants, PollsFacts
<1>1. \A j \in Polls!Jobs : JobInTime(j)'
  BY JobsInTime
<1>2. v3' <= v1' /\ v9' <= v1' /\ v6' <= v9' + RetryAfter
  <2>0. v3 <= v1 /\ v9 <= v1 /\ v6 <= v9 + RetryAfter
    BY DEF Polls!InTime
  <2>1. ASSUME NEW k \in Polls!Jobs, Polls!Fails(k) PROVE v3' <= v1' /\ v9' <= v1' /\ v6' <= v9' + RetryAfter
    BY <2>0, <2>1, FailsIs
  <2>2. CASE \A k \in Polls!Jobs : ~ Polls!Fails(k)
    BY <2>0, <2>2 DEF Polls!Next, Polls!Ask, Polls!Answer, Polls!Refused, Polls!Unknown,
       Polls!OtherRefused, Polls!Move, Polls!Tick
  <2> QED
    BY <2>1, <2>2
<1>3. \A s \in Polls!Range(PollSymbols) : v8'[s] <= v1'
  <2>0. (\A s \in Polls!Range(PollSymbols) : v8[s] <= v1) /\ v8 \in [Polls!Range(PollSymbols) -> Nat]
    BY DEF Polls!InTime, Polls!TypeOK
  <2>1. ASSUME NEW k \in Polls!Jobs, Polls!Answer(k)
        PROVE  \A s \in Polls!Range(PollSymbols) : v8'[s] <= v1'
    BY <2>0, <2>1 DEF Polls!Answer
  <2>2. CASE \A k \in Polls!Jobs : ~ Polls!Answer(k)
    <3>1. v8' = v8 /\ v1 <= v1'
      BY <2>2 DEF Polls!Next, Polls!Ask, Polls!Fails, Polls!Refused, Polls!Unknown,
         Polls!OtherRefused, Polls!Move, Polls!Tick
    <3>2. v1' \in Nat
      BY PollsTypes DEF Polls!TypeOK
    <3> QED
      BY <2>0, <3>1, <3>2
  <2> QED
    BY <2>1, <2>2
<1> QED
  BY <1>1, <1>2, <1>3 DEF Polls!InTime, JobInTime, Polls!Asks

LEMMA PollsSoonFacts ==
  ASSUME Polls!TypeOK, Polls!InTime
  PROVE  /\ Polls!Shaken \in Nat /\ Polls!Shaken <= v1 /\ v3 <= Polls!Shaken /\ v9 <= Polls!Shaken
         /\ \A j \in Polls!Jobs :
              /\ ~ Polls!Asks(j) => v1 <= v5[j].due \/ v1 <= Polls!Shaken + RetryAfter
              /\ Polls!Asks(j) => v5[j].asked <= v1 /\ v1 <= v5[j].asked + PollTimeout
              /\ Polls!Asks(j) /\ v5[j].refused = v2 => v1 <= Polls!Shaken + PollTimeout
<1> USE PollsConstants, PollsFacts
<1>1. Polls!Shaken \in Nat /\ Polls!Shaken <= v1 /\ v3 <= Polls!Shaken /\ v9 <= Polls!Shaken
  BY DEF Polls!InTime
<1>2. v6 <= Polls!Shaken + RetryAfter
  BY <1>1 DEF Polls!InTime
<1>3. ASSUME NEW j \in Polls!Jobs
      PROVE  /\ ~ Polls!Asks(j) => v1 <= v5[j].due \/ v1 <= v6
             /\ Polls!Asks(j) => v5[j].asked <= v1 /\ v1 <= v5[j].asked + PollTimeout
             /\ Polls!Asks(j) /\ v5[j].refused = v2 => v5[j].asked <= v3
  BY DEF Polls!InTime
<1>4. ASSUME NEW j \in Polls!Jobs
      PROVE  /\ ~ Polls!Asks(j) => v1 <= v5[j].due \/ v1 <= Polls!Shaken + RetryAfter
             /\ Polls!Asks(j) => v5[j].asked <= v1 /\ v1 <= v5[j].asked + PollTimeout
             /\ Polls!Asks(j) /\ v5[j].refused = v2 => v1 <= Polls!Shaken + PollTimeout
  <2>1. v5[j].due \in Nat /\ v5[j].asked \in Nat
    OBVIOUS
  <2>2. ~ Polls!Asks(j) => v1 <= v5[j].due \/ v1 <= Polls!Shaken + RetryAfter
    BY <1>1, <1>2, <1>3, <2>1
  <2>3. Polls!Asks(j) => v5[j].asked <= v1 /\ v1 <= v5[j].asked + PollTimeout
    BY <1>3
  <2>4. Polls!Asks(j) /\ v5[j].refused = v2 => v1 <= Polls!Shaken + PollTimeout
    BY <1>1, <1>3, <2>1
  <2> QED
    BY <2>2, <2>3, <2>4
<1> QED
  BY <1>1, <1>4

(* The times of the flag, as numbers.                                      *)
FlagSoon ==
  LET k == v5[ClockJob]
      b == IF Polls!Asks(ClockJob) THEN k.asked ELSE k.due
  IN  /\ ~ Polls!Asks(ClockJob) => k.due <= v1 + (IF v7 THEN Polls!LongNap ELSE Polls!Nap)
      /\ ~ v2 /\ ~ v7 => b <= Polls!Shaken + (PollTimeout + Polls!Nap)
      /\ v2 /\ v7 => b <= Polls!Shaken + (PollTimeout + Polls!LongNap)

LEMMA FlagSoonIs == Polls!ClockIsSoon <=> FlagSoon
BY DEF Polls!ClockIsSoon, FlagSoon, Polls!Begins

LEMMA ClockStays ==
  ASSUME Polls!TypeOK, Polls!InTime, Polls!ClockIsSoon, Polls!Next,
         Polls!TypeOK', Polls!InTime', ~ Answers(ClockJob)
  PROVE  Polls!ClockIsSoon'
<1> USE PollsConstants, PollsFacts, NapsAre, PollsSoonFacts
<1> DEFINE k == v5[ClockJob]
<1>0. FlagSoon /\ ClockJob \in Polls!Jobs
  BY FlagSoonIs
<1>1. k' = k /\ v1 <= v1'
  <2>1. ASSUME NEW j \in Polls!Jobs, Answers(j) PROVE k' = k /\ v1 <= v1'
    BY <2>1, JobSteps
  <2>2. CASE Polls!OtherRefused \/ Polls!Move \/ Polls!Tick
    <3>1. v5' = v5 /\ v1 <= v1'
      BY <2>2 DEF Polls!OtherRefused, Polls!Move, Polls!Tick
    <3> QED
      BY <3>1
  <2> QED
    BY <2>1, <2>2 DEF Polls!Next, Answers
<1>2. Polls!Asks(ClockJob)' <=> Polls!Asks(ClockJob)
  BY <1>1 DEF Polls!Asks
<1>3. \/ v2' = v2 /\ v3' = v3 /\ v9' = v9 /\ v7' = v7
      \/ v2' = v2 /\ v3' = v3 /\ v9' = v1 /\ v1' = v1 /\ v7' = v7
      \/ v2' = (~ v2) /\ v3' = v1 /\ v9' = v9 /\ v1' = v1 /\ v7' = v7
      \/ /\ v2' = v2 /\ v3' = v3 /\ v9' = v9 /\ v1' = v1 /\ v7' = TRUE
         /\ v2 => v1 <= Polls!Shaken + PollTimeout
  <2>1. ASSUME NEW j \in Polls!Jobs, Answers(j)
        PROVE  \/ v2' = v2 /\ v3' = v3 /\ v9' = v9 /\ v7' = v7
               \/ v2' = v2 /\ v3' = v3 /\ v9' = v1 /\ v1' = v1 /\ v7' = v7
               \/ /\ v2' = v2 /\ v3' = v3 /\ v9' = v9 /\ v1' = v1 /\ v7' = TRUE
                  /\ v2 => v1 <= Polls!Shaken + PollTimeout
    <3>0. j # ClockJob /\ v2' = v2 /\ v3' = v3 /\ v1' = v1
      BY <2>1, JobSteps
    <3>1. CASE Polls!Fails(j)
      BY <3>0, <3>1, FailsIs
    <3>2. CASE Polls!Refused(j)
      <4>1. Polls!Asks(j) /\ v5[j].refused /\ v7' = TRUE /\ v9' = v9
        BY <3>2 DEF Polls!Refused
      <4>2. v2 => v5[j].refused = v2
        BY <4>1
      <4>3. v2 => v1 <= Polls!Shaken + PollTimeout
        BY <4>1, <4>2
      <4> QED
        BY <3>0, <4>1, <4>3
    <3>3. CASE Polls!Answer(j)
      BY <3>0, <3>3 DEF Polls!Answer
    <3>4. CASE Polls!Ask(j) \/ Polls!Unknown(j)
      BY <3>0, <3>4 DEF Polls!Ask, Polls!Unknown
    <3> QED
      BY <2>1, <3>1, <3>2, <3>3, <3>4 DEF Answers
  <2>2. CASE Polls!OtherRefused
    <3>1. v2 => v1 - v3 <= PollTimeout
      BY <2>2 DEF Polls!OtherRefused
    <3>2. v2 => v1 <= Polls!Shaken + PollTimeout
      BY <3>1
    <3> QED
      BY <2>2, <3>2 DEF Polls!OtherRefused
  <2>3. CASE Polls!Move
    BY <2>3 DEF Polls!Move
  <2>4. CASE Polls!Tick
    BY <2>4 DEF Polls!Tick
  <2> QED
    BY <2>1, <2>2, <2>3, <2>4 DEF Polls!Next, Answers
<1>4. /\ Polls!Shaken' \in Nat /\ Polls!Shaken' <= v1'
      /\ v3' = v3 /\ v9' = v9 => Polls!Shaken' = Polls!Shaken
      /\ v3' = v1 \/ v9' = v1 => v1 <= Polls!Shaken'
  <2>1. Polls!Shaken' = IF v3' <= v9' THEN v9' ELSE v3'
    <3>1. v3' \in Int /\ v9' \in Int
      BY DEF Polls!TypeOK
    <3>2. Polls!Shaken' = Polls!Max({v3', v9'})
      BY DEF Polls!Shaken
    <3> QED
      BY <3>1, <3>2, PollsLarger
  <2>2. v1' \in Nat /\ v3' \in Nat /\ v9' \in Nat /\ v3' <= v1' /\ v9' <= v1'
    BY DEF Polls!InTime, Polls!TypeOK
  <2>3. Polls!Shaken = IF v3 <= v9 THEN v9 ELSE v3
    BY PollsFacts
  <2> QED
    BY ONLY <2>1, <2>2, <2>3
<1>5. FlagSoon'
  <2> DEFINE b == IF Polls!Asks(ClockJob) THEN k.asked ELSE k.due
  <2>0. v1' \in Nat /\ k.due \in Nat /\ k.asked \in Nat /\ b \in Nat
    BY <1>0 DEF Polls!TypeOK
  <2>a. b' = b
    BY <1>1, <1>2
  <2>b. ~ Polls!Asks(ClockJob) => b = k.due
    OBVIOUS
  <2>c. Polls!Asks(ClockJob) => b <= v1
    BY <1>0
  <2>d. /\ ~ Polls!Asks(ClockJob) => k.due <= v1 + (IF v7 THEN Polls!LongNap ELSE Polls!Nap)
        /\ ~ v2 /\ ~ v7 => b <= Polls!Shaken + (PollTimeout + Polls!Nap)
        /\ v2 /\ v7 => b <= Polls!Shaken + (PollTimeout + Polls!LongNap)
    BY <1>0 DEF FlagSoon
  <2>e. /\ ~ Polls!Asks(ClockJob) => k.due <= v1' + (IF v7' THEN Polls!LongNap ELSE Polls!Nap)
        /\ ~ v2' /\ ~ v7' => b <= Polls!Shaken' + (PollTimeout + Polls!Nap)
        /\ v2' /\ v7' => b <= Polls!Shaken' + (PollTimeout + Polls!LongNap)
    <3> HIDE DEF b, k
    <3>a. /\ v1 \in Nat /\ Polls!Shaken \in Nat /\ PollTimeout \in Nat
          /\ Polls!Nap \in Nat /\ Polls!LongNap \in Nat /\ Polls!Nap <= Polls!LongNap
      OBVIOUS
    <3>5. ASSUME v1 <= Polls!Shaken', v7' = v7, v1' = v1
          PROVE  /\ ~ Polls!Asks(ClockJob) => k.due <= v1' + (IF v7' THEN Polls!LongNap ELSE Polls!Nap)
                 /\ ~ v7' => b <= Polls!Shaken' + (PollTimeout + Polls!Nap)
                 /\ v7' => b <= Polls!Shaken' + (PollTimeout + Polls!LongNap)
      <4>0. PICK c \in Nat : c = Polls!Shaken'
        BY <1>4
      <4>1. v1 <= c
        BY <3>5, <4>0
      <4>2. /\ ~ Polls!Asks(ClockJob) => k.due <= v1 + (IF v7 THEN Polls!LongNap ELSE Polls!Nap)
            /\ ~ v7 => b <= c + (PollTimeout + Polls!Nap)
            /\ v7 => b <= c + (PollTimeout + Polls!LongNap)
        <5>1. c \in Nat /\ k.due \in Nat /\ b \in Nat
          BY <2>0
        <5>2. ~ Polls!Asks(ClockJob) => k.due <= v1 + (IF v7 THEN Polls!LongNap ELSE Polls!Nap)
          BY <2>d
        <5> QED
          BY ONLY <2>b, <2>c, <3>a, <4>1, <5>1, <5>2
      <4> QED
        BY <3>5, <4>0, <4>2
    <3>1. CASE v2' = v2 /\ v3' = v3 /\ v9' = v9 /\ v7' = v7
      BY ONLY <1>1, <1>4, <2>0, <2>d, <3>a, <3>1
    <3>2. CASE v2' = v2 /\ v3' = v3 /\ v9' = v1 /\ v1' = v1 /\ v7' = v7
      BY <1>4, <3>2, <3>5
    <3>3. CASE v2' = (~ v2) /\ v3' = v1 /\ v9' = v9 /\ v1' = v1 /\ v7' = v7
      BY <1>4, <3>3, <3>5
    <3>4. CASE /\ v2' = v2 /\ v3' = v3 /\ v9' = v9 /\ v1' = v1 /\ v7' = TRUE
               /\ v2 => v1 <= Polls!Shaken + PollTimeout
      BY ONLY <1>4, <2>0, <2>b, <2>c, <2>d, <3>a, <3>4
    <3> QED
      BY <1>3, <3>1, <3>2, <3>3, <3>4
  <2> QED
    BY <1>1, <1>2, <2>a, <2>e DEF FlagSoon
<1> QED
  BY <1>5, FlagSoonIs, PTL

(* What shakes it while it answers is a failure.                           *)
LEMMA ShakenIs ==
  ASSUME Polls!TypeOK, Polls!InTime, NEW j \in Polls!Jobs, Answers(j)
  PROVE  IF Polls!Fails(j) THEN Polls!Shaken' = v1
         ELSE Polls!Shaken' = Polls!Shaken /\ v9' = v9
<1> USE PollsConstants, PollsFacts, PollsSoonFacts
<1>1. CASE Polls!Fails(j)
  <2>1. v3' = v3 /\ v9' = v1 /\ v3 <= v1 /\ v3 \in Int /\ v1 \in Int
    BY <1>1, FailsIs
  <2>2. Polls!Shaken' = Polls!Max({v3, v1})
    BY <2>1 DEF Polls!Shaken
  <2> QED
    BY <1>1, <2>1, <2>2, PollsLarger
<1>2. CASE ~ Polls!Fails(j)
  <2>1. v3' = v3 /\ v9' = v9
    BY <1>2, JobSteps DEF Answers, Polls!Ask, Polls!Answer, Polls!Refused, Polls!Unknown
  <2>2. Polls!Shaken' = Polls!Max({v3, v9})
    BY <2>1 DEF Polls!Shaken
  <2>3. Polls!Shaken = Polls!Max({v3, v9})
    BY DEF Polls!Shaken
  <2> QED
    BY <1>2, <2>1, <2>2, <2>3
<1> QED
  BY <1>1, <1>2

LEMMA ClockActs ==
  ASSUME Polls!TypeOK, Polls!InTime, Polls!ClockIsSoon, Answers(ClockJob)
  PROVE  Polls!ClockIsSoon'
<1> USE PollsConstants, PollsFacts, PollsSoonFacts
<1> DEFINE k == v5[ClockJob]
           c == Polls!Shaken
           n == Polls!Nap
           l == Polls!LongNap
<1>0. /\ FlagSoon /\ ClockJob \in Polls!Jobs
      /\ v1' = v1 /\ v2' = v2
  BY FlagSoonIs, JobSteps
<1>a. /\ v1 \in Nat /\ c \in Nat /\ PollTimeout \in Nat /\ k.due \in Nat /\ k.asked \in Nat
      /\ c <= v1 /\ v1 <= v1 + n /\ v1 <= v1 + l
      /\ n \in Nat /\ l \in Nat /\ n <= l /\ RetryAfter <= n /\ RetryAfter \in Nat
  <2>1. n \in Nat /\ l \in Nat /\ n <= l /\ RetryAfter <= n /\ RetryAfter \in Nat
    BY NapsAre
  <2>2. /\ v1 \in Nat /\ c \in Nat /\ PollTimeout \in Nat /\ k.due \in Nat /\ k.asked \in Nat
        /\ c <= v1
    BY <1>0
  <2> HIDE DEF c, k, n, l
  <2> QED
    BY ONLY <2>1, <2>2
<1>b. /\ ~ Polls!Asks(ClockJob) => k.due <= v1 + (IF v7 THEN l ELSE n)
      /\ ~ Polls!Asks(ClockJob) /\ ~ v2 /\ ~ v7 => k.due <= c + (PollTimeout + n)
      /\ ~ Polls!Asks(ClockJob) /\ v2 /\ v7 => k.due <= c + (PollTimeout + l)
  BY <1>0 DEF FlagSoon
<1> SUFFICES FlagSoon'
  BY FlagSoonIs, PTL
<1>1. CASE Polls!Ask(ClockJob)
  <2>1. /\ Polls!Asks(ClockJob)' /\ k'.asked = v1 /\ v7' = v7 /\ c' = c /\ ~ Polls!Asks(ClockJob)
    <3>1. ~ Polls!Fails(ClockJob)
      BY <1>1 DEF Polls!Ask, Polls!Ready, Polls!Fails, Polls!Asks
    <3> QED
      BY <1>0, <1>1, <3>1, ShakenIs, JobSteps DEF Polls!Asks, Polls!Ask, Polls!Ready
  <2>2. v1 <= k.due \/ v1 <= c + RetryAfter
    BY <1>0, <2>1
  <2>3. /\ ~ v2 /\ ~ v7 => v1 <= c + (PollTimeout + n)
        /\ v2 /\ v7 => v1 <= c + (PollTimeout + l)
    <3> HIDE DEF k, c, n, l
    <3>1. c + RetryAfter <= c + (PollTimeout + n) /\ c + RetryAfter <= c + (PollTimeout + l)
      BY ONLY <1>a
    <3>2. c + (PollTimeout + n) \in Nat /\ c + (PollTimeout + l) \in Nat /\ c + RetryAfter \in Nat
      BY ONLY <1>a
    <3> QED
      BY ONLY <1>a, <1>b, <2>1, <2>2, <3>1, <3>2
  <2> QED
    BY <1>0, <2>1, <2>3 DEF FlagSoon
<1>2. CASE Polls!Answer(ClockJob)
  <2>1. /\ Polls!Asks(ClockJob) /\ v5[ClockJob].refused = FALSE /\ v7' = FALSE
        /\ Polls!Sleep(ClockJob, PollInterval[ClockJob])
    BY <1>0, <1>2 DEF Polls!Answer
  <2>2. ~ Polls!Fails(ClockJob) => c' = c
    BY <1>0, ShakenIs
  <2>3. k'.at = "asleep" /\ k'.due = v1 + PollInterval[ClockJob]
    BY <1>0, <2>1, SleepIs
  <2>4. v1 + PollInterval[ClockJob] <= v1 + n
    BY <1>a, NapsAre
  <2>5. CASE v2
    BY <1>0, <2>1, <2>3, <2>4, <2>5 DEF FlagSoon, Polls!Asks
  <2>6. CASE ~ v2
    <3>1. v5[ClockJob].refused = v2
      BY <2>1, <2>6
    <3>2. v1 <= c + PollTimeout
      BY <1>0, <2>1, <3>1
    <3>3. v1 + PollInterval[ClockJob] <= c + (PollTimeout + n) /\ v1 + PollInterval[ClockJob] <= v1 + (PollTimeout + n)
      <4>1. PollInterval[ClockJob] \in Nat /\ PollInterval[ClockJob] <= n
        BY NapsAre
      <4> HIDE DEF c, n, l
      <4> QED
        BY ONLY <1>a, <3>2, <4>1
    <3>4. c' = c \/ c' = v1
      BY <1>0, ShakenIs
    <3>5. k'.due <= c' + (PollTimeout + n)
      BY <2>3, <3>3, <3>4
    <3> QED
      BY <1>0, <2>1, <2>3, <2>4, <2>6, <3>5 DEF FlagSoon, Polls!Asks
  <2> QED
    BY <2>5, <2>6
<1>3. CASE Polls!Refused(ClockJob)
  <2>1. /\ Polls!Asks(ClockJob) /\ v5[ClockJob].refused = TRUE /\ v7' = TRUE
        /\ Polls!Sleep(ClockJob, Polls!Max({PollInterval[ClockJob], RestrictedWait}))
    BY <1>0, <1>3 DEF Polls!Refused
  <2> DEFINE d == Polls!Max({PollInterval[ClockJob], RestrictedWait})
  <2>2. d \in Nat /\ d <= l
    BY NapsAre
  <2>3. k'.at = "asleep" /\ k'.due = v1 + d
    BY <1>0, <2>1, <2>2, SleepIs
  <2> HIDE DEF d
  <2>4. v1 + d <= v1 + l
    BY <1>a, <2>2
  <2>5. CASE ~ v2
    BY <1>0, <2>1, <2>3, <2>4, <2>5 DEF FlagSoon, Polls!Asks
  <2>6. CASE v2
    <3>1. v5[ClockJob].refused = v2
      BY <2>1, <2>6
    <3>2. v1 <= c + PollTimeout
      BY <1>0, <2>1, <3>1
    <3>3. v1 + d <= c + (PollTimeout + l) /\ v1 + d <= v1 + (PollTimeout + l)
      BY <1>a, <2>2, <3>2
    <3>4. c' = c \/ c' = v1
      BY <1>0, ShakenIs
    <3>5. k'.due <= c' + (PollTimeout + l)
      BY <2>3, <3>3, <3>4
    <3> QED
      BY <1>0, <2>1, <2>3, <2>4, <2>6, <3>5 DEF FlagSoon, Polls!Asks
  <2> QED
    BY <2>5, <2>6
<1>4. CASE Polls!Unknown(ClockJob)
  BY <1>0, <1>4 DEF Polls!Unknown, Polls!Known
<1>5. CASE Polls!Fails(ClockJob)
  <2>1. PICK d \in Nat : d <= n /\ Polls!Sleep(ClockJob, d)
    <3>1. /\ PollInterval[ClockJob] \in Nat /\ PollInterval[ClockJob] <= n
          /\ Polls!Max({PollInterval[ClockJob], RetryAfter}) = n /\ n \in Nat
      BY NapsAre
    <3> QED
      BY <1>5, <3>1 DEF Polls!Fails
  <2>2. k'.at = "asleep" /\ k'.due = v1 + d /\ v7' = v7 /\ c' = v1
    BY <1>0, <1>5, <2>1, SleepIs, FailsIs, ShakenIs
  <2>3. v1 + d <= v1 + n /\ v1 + d <= v1 + l
        /\ v1 + d <= v1 + (PollTimeout + n) /\ v1 + d <= v1 + (PollTimeout + l)
    <3> HIDE DEF c, n, l
    <3>1. d \in Nat /\ d <= n
      BY <2>1
    <3> QED
      BY ONLY <1>a, <3>1
  <2> QED
    BY <1>0, <2>2, <2>3 DEF FlagSoon, Polls!Asks
<1> QED
  BY <1>1, <1>2, <1>3, <1>4, <1>5 DEF Answers

-----------------------------------------------------------------------------
(* The way from symbol p to the answer for symbol i.                       *)
WayFrom(p, i) ==
  IF p <= i THEN Polls!Between + Slots[Len(PollSymbols) + p] ELSE RetryAfter + Slots[p]

LEMMA WaysAre ==
  ASSUME NEW p \in 1..Len(PollSymbols), NEW i \in 1..Len(PollSymbols)
  PROVE  /\ WayFrom(p, i) \in Nat /\ RetryAfter <= WayFrom(p, i)
         /\ p < Len(PollSymbols) /\ p # i => WayFrom(p, i) + PollTimeout <= WayFrom(p + 1, i)
         /\ p > i => WayFrom(p, i) + PollTimeout + PollInterval[SymbolJob] <= WayFrom(1, i)
         /\ Polls!Between + PollTimeout <= WayFrom(1, i)
         /\ WayFrom(p, i) + PollTimeout <= Polls!Round
<1> USE PollsConstants
<1> DEFINE n == Len(PollSymbols)
           B == Polls!Between
           v == PollInterval[SymbolJob]
           T == PollTimeout
<1>1. /\ n \in Nat \ {0} /\ p \in Nat /\ i \in Nat /\ 1 <= p /\ 1 <= i /\ p <= n /\ i <= n
      /\ B \in Nat /\ v \in Nat /\ T \in Nat /\ RetryAfter \in Nat /\ RetryAfter + v <= B
  BY NapsAre
<1>2. /\ Slots[p] \in Nat /\ Slots[n + p] \in Nat /\ Slots[n + 1] \in Nat /\ Slots[1] \in Nat /\ Slots[p + 1] \in Nat
      /\ Slots[n + p + 1] \in Nat /\ Slots[2 * n + 1] \in Nat /\ Slots[n + (p + 1)] = Slots[n + p + 1]
  <2>1. /\ p \in Nat /\ n + p \in Nat /\ n + 1 \in Nat /\ 1 \in Nat /\ p + 1 \in Nat
        /\ n + p + 1 \in Nat /\ 2 * n + 1 \in Nat /\ n + (p + 1) = n + p + 1
    BY ONLY <1>1
  <2> QED
    BY <2>1, SlotsAre
<1>3. /\ Slots[p + 1] = Slots[p] + T /\ Slots[n + p + 1] = Slots[n + p] + T
      /\ Slots[1] = T
  <2>1. 0 \in Nat /\ n + p \in Nat /\ 0 + 1 = 1 /\ p \in Nat
    BY ONLY <1>1
  <2>2. Slots[0 + 1] = Slots[0] + T /\ Slots[0] = 0
    BY <2>1, SlotsAre
  <2>3. Slots[1] = T
    BY <1>1, <2>1, <2>2
  <2> QED
    BY <2>1, <2>3, SlotsAre
<1>4. Slots[p + 1] <= Slots[n + 1] /\ Slots[1] <= Slots[n + 1] /\ Slots[n + p + 1] <= Slots[2 * n + 1] /\ Slots[p + 1] <= Slots[2 * n + 1]
  <2>1. p + 1 \in 0..n + 1 /\ 1 \in 0..n + 1 /\ n + p + 1 \in 0..2 * n + 1 /\ p + 1 \in 0..2 * n + 1
        /\ n + 1 \in Nat /\ 2 * n + 1 \in Nat
    BY <1>1
  <2> QED
    BY <2>1, SlotsAre
<1>5. Polls!Round = B + Slots[2 * n + 1]
  BY <1>1 DEF Slots, Polls!Round, Polls!Between
<1>6. WayFrom(p, i) = IF p <= i THEN B + Slots[n + p] ELSE RetryAfter + Slots[p]
  BY DEF WayFrom
<1>7. WayFrom(1, i) = B + Slots[n + 1]
  BY <1>1 DEF WayFrom
<1>8. WayFrom(p + 1, i) = IF p + 1 <= i THEN B + Slots[n + p + 1] ELSE RetryAfter + Slots[p + 1]
  BY <1>2 DEF WayFrom
<1> HIDE DEF n, B, v, T
<1>a. /\ p <= i => WayFrom(p, i) = B + Slots[n + p]
      /\ p > i => WayFrom(p, i) = RetryAfter + Slots[p]
      /\ p + 1 <= i => WayFrom(p + 1, i) = B + Slots[n + p + 1]
      /\ p + 1 > i => WayFrom(p + 1, i) = RetryAfter + Slots[p + 1]
  BY <1>1, <1>6, <1>8
<1>b. /\ B \in Nat /\ T \in Nat /\ v \in Nat /\ RetryAfter \in Nat /\ RetryAfter + v <= B
      /\ Slots[p] \in Nat /\ Slots[n + p] \in Nat /\ Slots[n + 1] \in Nat /\ Slots[2 * n + 1] \in Nat
      /\ T <= Slots[n + 1] /\ Slots[p] + T <= Slots[n + 1] /\ Slots[p] + T <= Slots[2 * n + 1]
      /\ Slots[n + p] + T <= Slots[2 * n + 1]
  BY <1>1, <1>2, <1>3, <1>4
<1>c. /\ B + Slots[n + p] \in Nat /\ RetryAfter <= B + Slots[n + p]
      /\ RetryAfter + Slots[p] \in Nat /\ RetryAfter <= RetryAfter + Slots[p]
      /\ B + Slots[n + p] + T <= B + Slots[2 * n + 1]
      /\ RetryAfter + Slots[p] + T <= B + Slots[2 * n + 1]
      /\ RetryAfter + Slots[p] + T + v <= B + Slots[n + 1]
      /\ B + T <= B + Slots[n + 1]
  <2>1. PICK x \in Nat, y \in Nat, z \in Nat, w \in Nat :
          x = Slots[p] /\ y = Slots[n + p] /\ z = Slots[n + 1] /\ w = Slots[2 * n + 1]
    BY <1>b, Zenon
  <2>2. PICK b \in Nat, t \in Nat, a \in Nat, r \in Nat :
          b = B /\ t = T /\ a = v /\ r = RetryAfter
    BY <1>b, Zenon
  <2>3. r + a <= b /\ t <= z /\ x + t <= z /\ x + t <= w /\ y + t <= w
    BY <1>b, <2>1, <2>2, Zenon
  <2>4. x \in Nat /\ y \in Nat /\ z \in Nat /\ w \in Nat /\ b \in Nat /\ t \in Nat /\ a \in Nat /\ r \in Nat
    OBVIOUS
  <2>5. /\ b + y \in Nat /\ r <= b + y /\ r + x \in Nat /\ r <= r + x
        /\ b + y + t <= b + w /\ r + x + t <= b + w /\ r + x + t + a <= b + z
        /\ b + t <= b + z
    BY ONLY <2>3, <2>4
  <2> QED
    BY <2>1, <2>2, <2>5, Zenon
<1>9. WayFrom(p, i) \in Nat /\ RetryAfter <= WayFrom(p, i)
  <2>1. CASE p <= i
    <3>1. WayFrom(p, i) = B + Slots[n + p]
      BY <1>a, <2>1
    <3>2. B + Slots[n + p] \in Nat /\ RetryAfter <= B + Slots[n + p]
      BY <1>c
    <3> QED
      BY <3>1, <3>2, Zenon
  <2>2. CASE p > i
    <3>1. WayFrom(p, i) = RetryAfter + Slots[p]
      BY <1>a, <2>2
    <3>2. RetryAfter + Slots[p] \in Nat /\ RetryAfter <= RetryAfter + Slots[p]
      BY <1>c
    <3> QED
      BY <3>1, <3>2, Zenon
  <2> QED
    BY <1>1, <2>1, <2>2
<1>10. p < n /\ p # i => WayFrom(p, i) + T <= WayFrom(p + 1, i)
  BY ONLY <1>1, <1>2, <1>3, <1>a
<1>11. p > i => WayFrom(p, i) + T + v <= WayFrom(1, i)
  <2>1. CASE p > i
    <3>1. WayFrom(p, i) = RetryAfter + Slots[p]
      BY <1>a, <2>1
    <3>2. RetryAfter + Slots[p] + T + v <= B + Slots[n + 1]
      BY <1>c
    <3> QED
      BY <1>7, <3>1, <3>2, Zenon
  <2> QED
    BY <2>1
<1>12. B + T <= WayFrom(1, i)
  BY ONLY <1>1, <1>2, <1>3, <1>4, <1>7
<1>13. WayFrom(p, i) + T <= Polls!Round
  <2>1. CASE p <= i
    <3>1. WayFrom(p, i) = B + Slots[n + p]
      BY <1>a, <2>1
    <3>2. B + Slots[n + p] + T <= B + Slots[2 * n + 1]
      BY <1>c
    <3> QED
      BY <1>5, <3>1, <3>2, Zenon
  <2>2. CASE p > i
    <3>1. WayFrom(p, i) = RetryAfter + Slots[p]
      BY <1>a, <2>2
    <3>2. RetryAfter + Slots[p] + T <= B + Slots[2 * n + 1]
      BY <1>c
    <3> QED
      BY <1>5, <3>1, <3>2, Zenon
  <2> QED
    BY <1>1, <2>1, <2>2
<1> QED
  BY <1>9, <1>10, <1>11, <1>12, <1>13 DEF n, B, T, v

Unheard(i) ==
  IF Polls!Shaken <= v8[PollSymbols[i]] THEN v8[PollSymbols[i]] ELSE Polls!Shaken

SymbolSoon(i) ==
  v2 /\ (\A k \in 1..i : PollSymbols[k] \notin v4) =>
    (IF Polls!Asks(SymbolJob) THEN v5[SymbolJob].asked ELSE v5[SymbolJob].due)
      <= Unheard(i) + WayFrom(v5[SymbolJob].i, i)

SymbolsSoon ==
  /\ ~ Polls!Asks(SymbolJob) =>
       v5[SymbolJob].due <= v1 + (IF v5[SymbolJob].i = 1 THEN Polls!Between ELSE 0)
  /\ \A i \in 1..Len(PollSymbols) : SymbolSoon(i)

LEMMA SymbolsSoonIs == Polls!TypeOK => (Polls!SymbolsAreSoon <=> SymbolsSoon)
<1> SUFFICES ASSUME Polls!TypeOK PROVE Polls!SymbolsAreSoon <=> SymbolsSoon
  OBVIOUS
<1> USE PollsConstants, PollsFacts
<1>0. SymbolJob \in Polls!Jobs /\ Polls!Shaken \in Nat
  OBVIOUS
<1>1. ASSUME NEW i \in 1..Len(PollSymbols)
      PROVE  /\ Polls!Way(i) = WayFrom(v5[SymbolJob].i, i)
             /\ Polls!Max({Polls!Shaken, v8[PollSymbols[i]]}) = Unheard(i)
  <2>1. v8[PollSymbols[i]] \in Nat
    OBVIOUS
  <2>2. Polls!Max({Polls!Shaken, v8[PollSymbols[i]]}) = Unheard(i)
    <3>1. Polls!Shaken \in Int /\ v8[PollSymbols[i]] \in Int
      BY <1>0, <2>1
    <3> QED
      BY <3>1, PollsLarger DEF Unheard
  <2>3. v5[SymbolJob].i \in Nat /\ Len(PollSymbols) + v5[SymbolJob].i \in Nat
    <3>1. v5[SymbolJob].i \in 1..Len(PollSymbols) /\ Len(PollSymbols) \in Nat
      BY <1>0
    <3> QED
      BY ONLY <3>1
  <2>4. Polls!Way(i) = WayFrom(v5[SymbolJob].i, i)
    BY <2>3 DEF Polls!Way, WayFrom, Slots
  <2> QED
    BY <2>2, <2>4
<1> QED
  BY <1>1 DEF Polls!SymbolsAreSoon, SymbolsSoon, SymbolSoon, Polls!Begins

LEMMA SymbolsStay ==
  ASSUME Polls!TypeOK, Polls!InTime, SymbolsSoon, Polls!Next, ~ Answers(SymbolJob),
         Polls!TypeOK'
  PROVE  SymbolsSoon'
<1> USE PollsConstants, PollsFacts, PollsSoonFacts
<1> DEFINE k == v5[SymbolJob]
           c == Polls!Shaken
           b == IF Polls!Asks(SymbolJob) THEN k.asked ELSE k.due
<1>0. SymbolJob \in Polls!Jobs /\ ClockJob \in Polls!Jobs /\ ClockJob # SymbolJob
  OBVIOUS
<1>1. k' = k /\ v4' = v4 /\ v8' = v8 /\ v1 <= v1'
      /\ ((v2' = v2 /\ c' = c) \/ (v1' = v1 /\ c' = v1))
  <2>1. CASE Answers(ClockJob)
    <3>1. k' = k /\ v4' = v4 /\ v1' = v1 /\ v2' = v2
      BY <1>0, <2>1, JobSteps
    <3>2. v8' = v8
      BY <1>0, <2>1 DEF Answers, Polls!Ask, Polls!Answer, Polls!Refused, Polls!Unknown, Polls!Fails
    <3> QED
      BY <1>0, <2>1, <3>1, <3>2, ShakenIs
  <2>2. CASE Polls!OtherRefused \/ Polls!Tick
    <3>1. /\ v5' = v5 /\ v4' = v4 /\ v8' = v8 /\ v2' = v2 /\ v3' = v3 /\ v9' = v9
          /\ (v1' = v1 \/ v1' = v1 + 1)
      BY <2>2 DEF Polls!OtherRefused, Polls!Tick
    <3>2. c' = c
      BY <3>1 DEF Polls!Shaken
    <3> QED
      BY <3>1, <3>2
  <2>3. CASE Polls!Move
    <3>1. v5' = v5 /\ v4' = v4 /\ v8' = v8 /\ v3' = v1 /\ v9' = v9 /\ v1' = v1
      BY <2>3 DEF Polls!Move
    <3>2. c' = Polls!Max({v1, v9})
      BY <3>1 DEF Polls!Shaken
    <3>3. v1 \in Int /\ v9 \in Int /\ v9 <= v1
      BY DEF Polls!InTime
    <3>4. c' = v1
      <4>1. Polls!Max({v1, v9}) = IF v1 <= v9 THEN v9 ELSE v1
        BY <3>3, PollsLarger
      <4> QED
        BY <3>2, <3>3, <4>1
    <3> QED
      BY <3>1, <3>4
  <2> QED
    BY <1>0, <2>1, <2>2, <2>3 DEF Polls!Next, Answers, Polls!Jobs
<1>2. (Polls!Asks(SymbolJob)' <=> Polls!Asks(SymbolJob)) /\ b' = b
  BY <1>1 DEF Polls!Asks
<1>3. /\ b \in Nat /\ v1 \in Nat /\ c \in Nat /\ k.i \in 1..Len(PollSymbols) /\ k.due \in Nat
      /\ Polls!Between \in Nat /\ v1' \in Nat
      /\ b <= v1 + (IF k.i = 1 THEN Polls!Between ELSE 0)
  <2>1. /\ v1 \in Nat /\ k.due \in Nat /\ k.asked \in Nat /\ k.i \in 1..Len(PollSymbols) /\ c \in Nat
        /\ Polls!Between \in Nat
    BY <1>0, NapsAre
  <2>2. v1' \in Nat
    BY DEF Polls!TypeOK
  <2>3. Polls!Asks(SymbolJob) => k.asked <= v1
    BY <1>0
  <2>4. ~ Polls!Asks(SymbolJob) => k.due <= v1 + (IF k.i = 1 THEN Polls!Between ELSE 0)
    BY DEF SymbolsSoon
  <2>5. b \in Nat
    BY <2>1
  <2>6. b <= v1 + (IF k.i = 1 THEN Polls!Between ELSE 0)
    BY <2>1, <2>3, <2>4
  <2> QED
    BY <2>1, <2>2, <2>5, <2>6
<1>4. (~ Polls!Asks(SymbolJob) => k.due <= v1 + (IF k.i = 1 THEN Polls!Between ELSE 0))'
  <2>1. PICK t \in Nat : t = v1'
    BY <1>3
  <2>2. v1 <= t
    BY <1>1, <2>1
  <2>3. ~ Polls!Asks(SymbolJob) => k.due <= v1 + (IF k.i = 1 THEN Polls!Between ELSE 0)
    BY DEF SymbolsSoon
  <2>4. ~ Polls!Asks(SymbolJob) => k.due <= t + (IF k.i = 1 THEN Polls!Between ELSE 0)
    <3> HIDE DEF k
    <3>1. t \in Nat
      OBVIOUS
    <3> QED
      BY ONLY <1>3, <2>2, <2>3, <3>1
  <2> QED
    BY <1>1, <1>2, <2>1, <2>4
<1>5. ASSUME NEW i \in 1..Len(PollSymbols) PROVE SymbolSoon(i)'
  <2> DEFINE h == v8[PollSymbols[i]]
             w == WayFrom(k.i, i)
  <2>1. /\ w \in Nat /\ h \in Nat /\ (k.i = 1 => Polls!Between <= w)
    <3>1. w \in Nat
      BY <1>3, WaysAre
    <3>2. 1 \in 1..Len(PollSymbols) /\ PollTimeout \in Nat
      OBVIOUS
    <3>3. WayFrom(1, i) \in Nat /\ Polls!Between + PollTimeout <= WayFrom(1, i)
      BY <3>2, WaysAre
    <3>4. Polls!Between <= WayFrom(1, i)
      BY ONLY <1>3, <3>2, <3>3
    <3> QED
      BY <3>1, <3>4
  <2>2. CASE v2' = v2 /\ c' = c
    <3>1. Unheard(i)' = Unheard(i)
      BY <1>1, <2>2 DEF Unheard
    <3> QED
      BY <1>1, <1>2, <2>2, <3>1 DEF SymbolsSoon, SymbolSoon
  <2>3. CASE c' = v1
    <3>1. Unheard(i)' = IF v1 <= h THEN h ELSE v1
      BY <1>1, <2>3 DEF Unheard
    <3>2. b <= (IF v1 <= h THEN h ELSE v1) + w
      <4> HIDE DEF b, h, w, k
      <4>1. CASE k.i = 1
        BY ONLY <1>3, <2>1, <4>1
      <4>2. CASE k.i # 1
        BY ONLY <1>3, <2>1, <4>2
      <4> QED
        BY <4>1, <4>2
    <3> QED
      BY <1>1, <1>2, <3>1, <3>2 DEF SymbolSoon
  <2> QED
    BY <1>1, <2>2, <2>3
<1> QED
  BY <1>4, <1>5 DEF SymbolsSoon

LEMMA UnheardIs ==
  ASSUME Polls!TypeOK, Polls!InTime, NEW i \in 1..Len(PollSymbols)
  PROVE  Unheard(i) \in Nat /\ Polls!Shaken <= Unheard(i) /\ v8[PollSymbols[i]] \in Nat
<1>1. v8[PollSymbols[i]] \in Nat /\ Polls!Shaken \in Nat
  BY PollsConstants, PollsFacts
<1>2. CASE Polls!Shaken <= v8[PollSymbols[i]]
  BY <1>1, <1>2 DEF Unheard
<1>3. CASE ~ (Polls!Shaken <= v8[PollSymbols[i]])
  BY <1>1, <1>3 DEF Unheard
<1> QED
  BY <1>2, <1>3

LEMMA SymbolActs ==
  ASSUME Polls!TypeOK, Polls!InTime, SymbolsSoon, Answers(SymbolJob)
  PROVE  SymbolsSoon'
<1> USE PollsConstants, PollsFacts, PollsSoonFacts
<1> DEFINE k == v5[SymbolJob]
           p == k.i
           c == Polls!Shaken
           T == PollTimeout
           B == Polls!Between
           v == PollInterval[SymbolJob]
           q == PollSymbols[p]
<1>0. SymbolJob \in Polls!Jobs /\ ClockJob # SymbolJob /\ v1' = v1 /\ v2' = v2 /\ v4' = v4
  BY JobSteps
<1>a. /\ v1 \in Nat /\ c \in Nat /\ T \in Nat /\ B \in Nat /\ v \in Nat /\ k.due \in Nat /\ k.asked \in Nat
      /\ p \in 1..Len(PollSymbols) /\ c <= v1 /\ v <= B
  <2>1. B \in Nat /\ RetryAfter + v <= B /\ RetryAfter \in Nat /\ v \in Nat
    BY NapsAre
  <2>2. v <= B
    BY ONLY <2>1
  <2> QED
    BY <1>0, <2>1, <2>2
<1>b. ASSUME NEW i \in 1..Len(PollSymbols)
      PROVE  /\ WayFrom(p, i) \in Nat /\ WayFrom(1, i) \in Nat /\ B + T <= WayFrom(1, i)
             /\ RetryAfter <= WayFrom(p, i) /\ Unheard(i) \in Nat /\ c <= Unheard(i)
             /\ p > i => WayFrom(p, i) + T + v <= WayFrom(1, i)
             /\ p < Len(PollSymbols) /\ p # i => WayFrom(p, i) + T <= WayFrom(p + 1, i)
  <2>1. 1 \in 1..Len(PollSymbols)
    OBVIOUS
  <2> QED
    BY <1>a, <2>1, WaysAre, UnheardIs
<1>1. CASE Polls!Ask(SymbolJob)
  <2>1. /\ ~ Polls!Asks(SymbolJob) /\ k'.at = "asks" /\ k'.asked = v1 /\ k'.i = p /\ v8' = v8
        /\ v3' = v3 /\ v9' = v9
    BY <1>0, <1>1, <1>a, JobSteps DEF Polls!Asks, Polls!Ask, Polls!Ready
  <2>2. c' = c
    BY <2>1 DEF Polls!Shaken
  <2>3. v1 <= k.due \/ v1 <= c + RetryAfter
    BY <1>0, <2>1
  <2>4. ASSUME NEW i \in 1..Len(PollSymbols), v2, \A j \in 1..i : PollSymbols[j] \notin v4
        PROVE  v1 <= Unheard(i) + WayFrom(p, i)
    <3>1. k.due <= Unheard(i) + WayFrom(p, i)
      BY <2>1, <2>4 DEF SymbolsSoon, SymbolSoon
    <3>2. PICK s \in Nat, w \in Nat, r \in Nat : s = Unheard(i) /\ w = WayFrom(p, i) /\ r = RetryAfter
      BY <1>b, Zenon
    <3>3. s \in Nat /\ w \in Nat /\ r \in Nat /\ c <= s /\ r <= w /\ k.due <= s + w /\ (v1 <= k.due \/ v1 <= c + r)
      BY <1>b, <2>3, <3>1, <3>2
    <3>4. v1 <= s + w
      <4> HIDE DEF k, c
      <4> QED
        BY ONLY <1>a, <3>3
    <3> QED
      BY <3>2, <3>4
  <2>5. ASSUME NEW i \in 1..Len(PollSymbols) PROVE SymbolSoon(i)'
    <3>1. Unheard(i)' = Unheard(i)
      BY <2>1, <2>2 DEF Unheard
    <3> QED
      BY <1>0, <2>1, <2>4, <3>1 DEF SymbolSoon, Polls!Asks
  <2> QED
    BY <2>1, <2>5 DEF SymbolsSoon, Polls!Asks
(* It sleeps: what has to be shown.                                        *)
<1>c. ASSUME k'.at = "asleep", NEW d \in Nat, k'.due = v1 + d, k'.i = 1, d <= B,
             \A i \in 1..Len(PollSymbols) :
               v2 /\ (\A j \in 1..i : PollSymbols[j] \notin v4) => v1 + d <= Unheard(i)' + WayFrom(1, i)
      PROVE  SymbolsSoon'
  <2>1. v1 + d <= v1 + B
    <3>1. d \in Nat /\ d <= B
      BY <1>c
    <3> HIDE DEF B
    <3> QED
      BY ONLY <1>a, <3>1
  <2>2. ASSUME NEW i \in 1..Len(PollSymbols) PROVE SymbolSoon(i)'
    BY <1>0, <1>c DEF SymbolSoon, Polls!Asks
  <2> QED
    BY <1>0, <1>c, <2>1, <2>2 DEF SymbolsSoon, Polls!Asks
<1>d. ASSUME Polls!Asks(SymbolJob), NEW i \in 1..Len(PollSymbols), v2,
             \A j \in 1..i : PollSymbols[j] \notin v4
      PROVE  /\ v1 <= k.asked + T /\ k.asked <= Unheard(i) + WayFrom(p, i)
             /\ p > i => v1 + v <= Unheard(i) + WayFrom(1, i)
             /\ p < Len(PollSymbols) /\ p # i => v1 <= Unheard(i) + WayFrom(p + 1, i)
  <2>1. k.asked <= Unheard(i) + WayFrom(p, i)
    BY <1>d DEF SymbolsSoon, SymbolSoon
  <2>2. v1 <= k.asked + T
    BY <1>0, <1>d
  <2>3. PICK s \in Nat, w \in Nat, o \in Nat : s = Unheard(i) /\ w = WayFrom(p, i) /\ o = WayFrom(1, i)
    BY <1>b, Zenon
  <2>4. s \in Nat /\ w \in Nat /\ o \in Nat /\ k.asked <= s + w /\ v1 <= k.asked + T
    BY <2>1, <2>2, <2>3
  <2>5. ASSUME p > i PROVE v1 + v <= Unheard(i) + WayFrom(1, i)
    <3>1. w + T + v <= o
      BY <1>b, <2>3, <2>5
    <3>2. v1 + v <= s + o
      <4> HIDE DEF k, T, v
      <4> QED
        BY ONLY <1>a, <2>4, <3>1
    <3> QED
      BY <2>3, <3>2
  <2>6. ASSUME p < Len(PollSymbols), p # i PROVE v1 <= Unheard(i) + WayFrom(p + 1, i)
    <3>1. p + 1 \in 1..Len(PollSymbols)
      <4>1. Len(PollSymbols) \in Nat
        OBVIOUS
      <4> HIDE DEF p
      <4> QED
        BY ONLY <1>a, <2>6, <4>1
    <3>2. PICK u \in Nat : u = WayFrom(p + 1, i)
      BY <3>1, WaysAre
    <3>3. w + T <= u
      BY <1>b, <2>3, <2>6, <3>2
    <3>4. v1 <= s + u
      <4>1. u \in Nat
        OBVIOUS
      <4> HIDE DEF k, T
      <4> QED
        BY ONLY <1>a, <2>4, <3>3, <4>1
    <3> QED
      BY <2>3, <3>2, <3>4
  <2> QED
    BY <2>1, <2>2, <2>5, <2>6
<1>2. CASE Polls!Answer(SymbolJob)
  <2>1. /\ Polls!Asks(SymbolJob) /\ v8' = [v8 EXCEPT ![q] = v1] /\ v3' = v3 /\ v9' = v9
        /\ v8 \in [Polls!Range(PollSymbols) -> Nat] /\ q \in Polls!Range(PollSymbols)
    BY <1>0, <1>2, <1>a DEF Polls!Answer, Polls!Symbol, Polls!TypeOK
  <2>2. c' = c
    BY <2>1 DEF Polls!Shaken
  <2>3. ASSUME NEW i \in 1..Len(PollSymbols)
        PROVE  IF PollSymbols[i] = q THEN Unheard(i)' = v1 ELSE Unheard(i)' = Unheard(i)
    <3>1. PollSymbols[i] \in Polls!Range(PollSymbols)
      OBVIOUS
    <3>2. v8'[PollSymbols[i]] = IF PollSymbols[i] = q THEN v1 ELSE v8[PollSymbols[i]]
      BY <2>1, <3>1
    <3> QED
      BY <1>a, <2>2, <3>2 DEF Unheard
  <2>4. CASE p < Len(PollSymbols)
    <3>1. k'.at = "asleep" /\ k'.due = v1 /\ k'.i = p + 1
      BY <1>0, <1>2, <2>4, GoesOnIs
    <3>2. p + 1 # 1 /\ p + 1 \in 1..Len(PollSymbols)
      <4>1. Len(PollSymbols) \in Nat
        OBVIOUS
      <4> HIDE DEF p
      <4> QED
        BY ONLY <1>a, <2>4, <4>1
    <3>3. ASSUME NEW i \in 1..Len(PollSymbols), v2, \A j \in 1..i : PollSymbols[j] \notin v4
          PROVE  v1 <= Unheard(i)' + WayFrom(p + 1, i)
      <4>1. CASE PollSymbols[i] = q
        <5>1. WayFrom(p + 1, i) \in Nat
          BY <3>2, WaysAre
        <5>2. v1 <= v1 + WayFrom(p + 1, i)
          BY <1>a, <5>1
        <5> QED
          BY <2>3, <4>1, <5>2
      <4>2. CASE PollSymbols[i] # q
        BY <1>d, <2>1, <2>3, <2>4, <3>3, <4>2
      <4> QED
        BY <4>1, <4>2
    <3>4. ASSUME NEW i \in 1..Len(PollSymbols) PROVE SymbolSoon(i)'
      BY <1>0, <3>1, <3>3 DEF SymbolSoon, Polls!Asks
    <3>5. v1 <= v1 + 0
      BY <1>a
    <3> QED
      BY <1>0, <3>1, <3>2, <3>4, <3>5 DEF SymbolsSoon, Polls!Asks
  <2>5. CASE ~ (p < Len(PollSymbols))
    <3>1. Polls!Sleep(SymbolJob, v)
      BY <1>0, <1>2, <2>5 DEF Polls!Answer
    <3>2. k'.at = "asleep" /\ k'.due = v1 + v /\ k'.i = 1
      BY <1>0, <1>a, <3>1, SleepIs
    <3>3. ASSUME NEW i \in 1..Len(PollSymbols), v2, \A j \in 1..i : PollSymbols[j] \notin v4
          PROVE  v1 + v <= Unheard(i)' + WayFrom(1, i)
      <4>1. CASE PollSymbols[i] = q
        <5>1. PICK o \in Nat : o = WayFrom(1, i)
          BY <1>b
        <5>2. o \in Nat /\ B + T <= o
          BY <1>b, <5>1
        <5>3. v1 + v <= v1 + o
          <6> HIDE DEF k, T, B, v
          <6> QED
            BY ONLY <1>a, <5>2
        <5> QED
          BY <2>3, <4>1, <5>1, <5>3
      <4>2. CASE PollSymbols[i] # q
        <5>1. p > i
          <6>1. p # i
            BY <4>2
          <6>2. i \in 1..Len(PollSymbols) /\ Len(PollSymbols) \in Nat
            BY <3>3
          <6> HIDE DEF p
          <6> QED
            BY ONLY <1>a, <2>5, <6>1, <6>2
        <5> QED
          BY <1>d, <2>1, <2>3, <3>3, <4>2, <5>1
      <4> QED
        BY <4>1, <4>2
    <3> QED
      BY <1>a, <1>c, <3>2, <3>3
  <2> QED
    BY <2>4, <2>5
<1>3. CASE Polls!Refused(SymbolJob)
  <2> DEFINE d == Polls!Max({v, RestrictedWait})
  <2>1. /\ Polls!Asks(SymbolJob) /\ k.refused = TRUE /\ v8' = v8 /\ v3' = v3 /\ v9' = v9
        /\ Polls!Sleep(SymbolJob, d)
    BY <1>0, <1>3 DEF Polls!Refused, Polls!TypeOK
  <2>2. d \in Nat /\ d <= B
    BY NapsAre
  <2>3. k'.at = "asleep" /\ k'.due = v1 + d /\ k'.i = 1
    BY <1>0, <2>1, <2>2, SleepIs
  <2>4. ASSUME NEW i \in 1..Len(PollSymbols), v2 PROVE v1 + d <= Unheard(i)' + WayFrom(1, i)
    <3>1. c' = c
      BY <2>1 DEF Polls!Shaken
    <3>2. Unheard(i)' = Unheard(i)
      BY <2>1, <3>1 DEF Unheard
    <3>3. k.refused = v2
      BY <2>1, <2>4
    <3>4. v1 <= c + T
      BY <1>0, <2>1, <3>3
    <3>5. PICK s \in Nat, o \in Nat : s = Unheard(i) /\ o = WayFrom(1, i)
      BY <1>b, Zenon
    <3>6. s \in Nat /\ o \in Nat /\ c <= s /\ B + T <= o
      BY <1>b, <3>5
    <3>7. v1 + d <= s + o
      <4> HIDE DEF c, T, B, v, d
      <4> QED
        BY ONLY <1>a, <2>2, <3>4, <3>6
    <3> QED
      BY <3>2, <3>5, <3>7
  <2> HIDE DEF d
  <2> QED
    BY <1>c, <2>2, <2>3, <2>4
<1>4. CASE Polls!Unknown(SymbolJob)
  <2>1. /\ Polls!Asks(SymbolJob) /\ v8' = v8 /\ v3' = v3 /\ v9' = v9 /\ q \in v4
        /\ Polls!Sleep(SymbolJob, v)
    BY <1>0, <1>4 DEF Polls!Unknown, Polls!Known, Polls!Symbol
  <2>2. k'.at = "asleep" /\ k'.due = v1 + v /\ k'.i = 1
    BY <1>0, <1>a, <2>1, SleepIs
  <2>3. ASSUME NEW i \in 1..Len(PollSymbols), v2, \A j \in 1..i : PollSymbols[j] \notin v4
        PROVE  v1 + v <= Unheard(i)' + WayFrom(1, i)
    <3>1. c' = c
      BY <2>1 DEF Polls!Shaken
    <3>2. Unheard(i)' = Unheard(i)
      BY <2>1, <3>1 DEF Unheard
    <3>3. p > i
      BY <1>a, <2>1, <2>3
    <3> QED
      BY <1>d, <2>1, <2>3, <3>2, <3>3
  <2> QED
    BY <1>a, <1>c, <2>2, <2>3
<1>5. CASE Polls!Fails(SymbolJob)
  <2>1. PICK d \in Nat : d <= B /\ Polls!Sleep(SymbolJob, d)
    <3>1. /\ Polls!Max({v, RetryAfter}) \in Nat /\ Polls!Max({v, RetryAfter}) <= B
      BY NapsAre
    <3> QED
      BY <1>5, <1>a, <3>1 DEF Polls!Fails
  <2>2. k'.at = "asleep" /\ k'.due = v1 + d /\ k'.i = 1 /\ v8' = v8 /\ c' = v1
    BY <1>0, <1>5, <2>1, SleepIs, FailsIs, ShakenIs
  <2>3. ASSUME NEW i \in 1..Len(PollSymbols) PROVE v1 + d <= Unheard(i)' + WayFrom(1, i)
    <3> DEFINE h == v8[PollSymbols[i]]
    <3>1. Unheard(i)' = IF v1 <= h THEN h ELSE v1
      BY <2>2 DEF Unheard
    <3>2. PICK o \in Nat : o = WayFrom(1, i)
      BY <1>b
    <3>3. o \in Nat /\ B + T <= o /\ h \in Nat /\ d \in Nat /\ d <= B
      BY <1>b, <2>1, <3>2, UnheardIs
    <3>4. v1 + d <= (IF v1 <= h THEN h ELSE v1) + o
      <4> HIDE DEF h, T, B
      <4> QED
        BY ONLY <1>a, <3>3
    <3> QED
      BY <3>1, <3>2, <3>4
  <2> QED
    BY <1>c, <2>1, <2>2, <2>3
<1> QED
  BY <1>1, <1>2, <1>3, <1>4, <1>5 DEF Answers

LEMMA PollsInit == Polls!Init => Polls!PollersInv
<1> SUFFICES ASSUME Polls!Init PROVE Polls!PollersInv
  OBVIOUS
<1> USE PollsConstants, NapsAre
<1>0. /\ v1 = 0 /\ v3 = 0 /\ v6 = 0 /\ v9 = 0 /\ v2 \in BOOLEAN /\ v7 = (~ v2)
      /\ v8 = [s \in Polls!Range(PollSymbols) |-> 0]
      /\ v5 \in [Polls!Jobs -> {Polls!Asleep(t) : t \in {0, 1}}]
  BY DEF Polls!Init
<1>1. \A j \in Polls!Jobs : v5[j] \in JobRecord /\ v5[j].at = "asleep" /\ v5[j].due \in {0, 1} /\ v5[j].i = 1
  <2> SUFFICES ASSUME NEW j \in Polls!Jobs
               PROVE  v5[j] \in JobRecord /\ v5[j].at = "asleep" /\ v5[j].due \in {0, 1} /\ v5[j].i = 1
    OBVIOUS
  <2>1. PICK t \in {0, 1} : v5[j] = Polls!Asleep(t)
    BY <1>0
  <2>2. Polls!Asleep(t) \in JobRecord
    <3>1. t \in Nat /\ 0 \in Nat /\ 1 \in DOMAIN PollSymbols /\ FALSE \in BOOLEAN
      OBVIOUS
    <3> QED
      BY <3>1, RecordIs, Zenon DEF Polls!Asleep
  <2> QED
    BY <2>1, <2>2 DEF Polls!Asleep
<1>2. Polls!TypeOK
  <2>1. v7 \in BOOLEAN
    BY <1>0, Zenon
  <2>2. v5 \in [Polls!Jobs -> JobRecord]
    BY <1>0, <1>1
  <2>3. v5[ClockJob].i = 1
    BY <1>1
  <2> QED
    BY <1>0, <2>1, <2>2, <2>3 DEF Polls!TypeOK, JobRecord
<1>3. Polls!InTime
  BY <1>0, <1>1 DEF Polls!InTime, Polls!Asks
<1>4. Polls!ClockIsSoon
  <2>1. v5[ClockJob].due \in {0, 1} /\ v5[ClockJob].at = "asleep"
    BY <1>1
  <2>2. 1 <= Polls!Nap /\ 1 <= Polls!LongNap
    <3>1. /\ PollInterval[ClockJob] \in Nat \ {0} /\ PollInterval[ClockJob] <= Polls!Nap
          /\ Polls!Nap <= Polls!LongNap /\ Polls!Nap \in Nat /\ Polls!LongNap \in Nat
      OBVIOUS
    <3> QED
      BY ONLY <3>1
  <2>3. FlagSoon
    <3>1. ~ (~ v2 /\ ~ v7) /\ ~ (v2 /\ v7)
      BY <1>0, Zenon
    <3>2. v5[ClockJob].due <= v1 + (IF v7 THEN Polls!LongNap ELSE Polls!Nap)
      BY <1>0, <2>1, <2>2, NapsAre
    <3> QED
      BY <3>1, <3>2 DEF FlagSoon
  <2> QED
    BY <2>3, FlagSoonIs
<1>5. Polls!SymbolsAreSoon
  <2>1. v5[SymbolJob].due \in {0, 1} /\ v5[SymbolJob].at = "asleep" /\ v5[SymbolJob].i = 1
    BY <1>1
  <2>2. Polls!Between \in Nat /\ 1 <= Polls!Between
    OBVIOUS
  <2>3. ASSUME NEW i \in 1..Len(PollSymbols) PROVE SymbolSoon(i)
    <3>1. Unheard(i) \in Nat
      BY <1>2, <1>3, UnheardIs
    <3>2. 1 \in 1..Len(PollSymbols) /\ PollTimeout \in Nat
      OBVIOUS
    <3>3. PICK o \in Nat, s \in Nat : o = WayFrom(1, i) /\ s = Unheard(i)
      BY <3>1, <3>2, WaysAre
    <3>4. o \in Nat /\ s \in Nat /\ Polls!Between + PollTimeout <= o
      BY <3>2, <3>3, WaysAre
    <3>5. 1 <= s + o /\ 0 <= s + o
      BY ONLY <2>2, <3>2, <3>4
    <3> QED
      BY <2>1, <3>3, <3>5 DEF SymbolSoon, Polls!Asks
  <2>4. SymbolsSoon
    BY <1>0, <2>1, <2>2, <2>3 DEF SymbolsSoon, Polls!Asks
  <2> QED
    BY <1>2, <2>4, SymbolsSoonIs
<1> QED
  BY <1>2, <1>3, <1>4, <1>5 DEF Polls!PollersInv

LEMMA PollsNext == ASSUME Polls!PollersInv, Polls!Next PROVE Polls!PollersInv'
<1> USE DEF Polls!PollersInv
<1>1. Polls!TypeOK' /\ Polls!InTime'
  BY PollsTypes, PollsInTime
<1>2. Polls!ClockIsSoon'
  BY <1>1, ClockStays, ClockActs
<1>3. Polls!SymbolsAreSoon'
  <2>1. SymbolsSoon
    BY SymbolsSoonIs
  <2>2. SymbolsSoon'
    BY <1>1, <2>1, SymbolsStay, SymbolActs
  <2> QED
    BY <1>1, <2>2, SymbolsSoonIs, PTL
<1> QED
  BY <1>1, <1>2, <1>3

(* What does not change stays true.                                        *)
LEMMA PollsStay ==
  ASSUME Polls!PollersInv, UNCHANGED <<v1, v2, v3, v4, v5, v6, v7, v8, v9, v10>>
  PROVE  Polls!PollersInv'
<1>1. Polls!TypeOK' /\ Polls!InTime'
  BY DEF Polls!PollersInv, Polls!TypeOK, Polls!InTime, Polls!Asks
<1>2. Polls!ClockIsSoon'
  BY DEF Polls!PollersInv, Polls!ClockIsSoon, Polls!Asks, Polls!Begins, Polls!Shaken
<1>3. Polls!SymbolsAreSoon'
  BY DEF Polls!PollersInv, Polls!SymbolsAreSoon, Polls!Asks, Polls!Begins, Polls!Shaken, Polls!Way
<1> QED
  BY <1>1, <1>2, <1>3 DEF Polls!PollersInv

(* What it says of the pollers.                                            *)
LEMMA PollsMean == ASSUME Polls!PollersInv PROVE Polls!FlagIsTrue /\ Polls!SymbolsAreFresh
<1> USE PollsConstants, PollsFacts, PollsSoonFacts, NapsAre DEF Polls!PollersInv
<1> DEFINE c == Polls!Shaken
<1>0. c \in Nat /\ v1 \in Nat /\ c <= v1 /\ PollTimeout \in Nat /\ RetryAfter \in Nat /\ Polls!Calm = v1 - c
  BY DEF Polls!Calm, Polls!Shaken
<1>1. Polls!FlagIsTrue
  <2> DEFINE k == v5[ClockJob]
             b == IF Polls!Asks(ClockJob) THEN k.asked ELSE k.due
             n == Polls!Nap
             l == Polls!LongNap
  <2>1. /\ b \in Nat /\ n \in Nat /\ l \in Nat /\ RetryAfter <= n /\ RetryAfter <= l
        /\ v1 <= b + PollTimeout \/ v1 <= c + RetryAfter
    <3>1. ClockJob \in Polls!Jobs /\ k.due \in Nat /\ k.asked \in Nat
      OBVIOUS
    <3>2. n \in Nat /\ l \in Nat /\ RetryAfter <= n /\ n <= l
      OBVIOUS
    <3>3. RetryAfter <= l
      BY ONLY <1>0, <3>2
    <3>4. Polls!Asks(ClockJob) => v1 <= k.asked + PollTimeout
      BY <3>1
    <3>5. ~ Polls!Asks(ClockJob) => v1 <= k.due \/ v1 <= c + RetryAfter
      BY <3>1
    <3>6. b \in Nat
      BY <3>1
    <3>7. v1 <= b + PollTimeout \/ v1 <= c + RetryAfter
      BY ONLY <1>0, <3>1, <3>4, <3>5
    <3> QED
      BY <3>2, <3>3, <3>6, <3>7
  <2>2. /\ ~ v2 /\ ~ v7 => b <= c + (PollTimeout + n)
        /\ v2 /\ v7 => b <= c + (PollTimeout + l)
    BY FlagSoonIs DEF FlagSoon
  <2>3. /\ ~ v2 /\ ~ v7 => ~ (v1 - c > n + 2 * PollTimeout)
        /\ v2 /\ v7 => ~ (v1 - c > l + 2 * PollTimeout)
    <3> HIDE DEF b, c, n, l, k
    <3>1. b <= c + (PollTimeout + n) => ~ (v1 - c > n + 2 * PollTimeout)
      BY ONLY <1>0, <2>1
    <3>2. b <= c + (PollTimeout + l) => ~ (v1 - c > l + 2 * PollTimeout)
      BY ONLY <1>0, <2>1
    <3> QED
      BY <2>2, <3>1, <3>2
  <2> QED
    BY <1>0, <2>3 DEF Polls!FlagIsTrue, Polls!LongNap, Polls!Nap
<1>2. Polls!SymbolsAreFresh
  <2> SUFFICES ASSUME NEW i \in 1..Len(PollSymbols), \A j \in 1..i : PollSymbols[j] \notin v4,
                      v2, Polls!Calm > Polls!Round
               PROVE  v1 - v8[PollSymbols[i]] <= Polls!Round
    BY DEF Polls!SymbolsAreFresh, Polls!Polled
  <2> DEFINE k == v5[SymbolJob]
             b == IF Polls!Asks(SymbolJob) THEN k.asked ELSE k.due
             h == v8[PollSymbols[i]]
  <2>1. /\ SymbolJob \in Polls!Jobs /\ k.due \in Nat /\ k.asked \in Nat /\ k.i \in 1..Len(PollSymbols)
        /\ h \in Nat
    BY UnheardIs
  <2>2. PICK w \in Nat : w = WayFrom(k.i, i)
    BY <2>1, WaysAre
  <2>3. w \in Nat /\ RetryAfter <= w /\ w + PollTimeout <= Polls!Round
    BY <2>1, <2>2, WaysAre
  <2>4. b <= (IF c <= h THEN h ELSE c) + w
    BY <2>2, SymbolsSoonIs DEF SymbolsSoon, SymbolSoon, Unheard
  <2>5. b \in Nat /\ (v1 <= b + PollTimeout \/ v1 <= c + RetryAfter)
    <3>1. Polls!Asks(SymbolJob) => v1 <= k.asked + PollTimeout
      BY <2>1
    <3>2. ~ Polls!Asks(SymbolJob) => v1 <= k.due \/ v1 <= c + RetryAfter
      BY <2>1
    <3>3. b \in Nat
      BY <2>1
    <3>4. v1 <= b + PollTimeout \/ v1 <= c + RetryAfter
      BY ONLY <1>0, <2>1, <3>1, <3>2
    <3> QED
      BY <3>3, <3>4
  <2>6. PICK r \in Int : r = Polls!Round
    <3>1. Len(PollSymbols) \in Nat /\ Polls!Between \in Nat
      OBVIOUS
    <3> QED
      BY <1>0, <3>1 DEF Polls!Round, Polls!Between
  <2>7. r \in Int /\ v1 - c > r /\ w + PollTimeout <= r
    BY <1>0, <2>3, <2>6
  <2>8. v1 - h <= r
    <3> HIDE DEF b, c, h, k
    <3> QED
      BY ONLY <1>0, <2>1, <2>3, <2>4, <2>5, <2>7
  <2> QED
    BY <2>6, <2>8
<1> QED
  BY <1>1, <1>2

-----------------------------------------------------------------------------
(* The minute bars of a bot.                                               *)
LEMMA LiveConstants ==
  /\ LivePage \in Nat \ {0} /\ LiveHistory \in Nat \ {0} /\ LiveGrid \in Nat \ {0}
  /\ LiveEpoch \in Nat \ {0} /\ LiveRows \in Nat /\ LiveReload \in Nat /\ LiveSleep \in Nat
BY LiveBarsAssumption DEF Live!LiveAssumption

LEMMA StretchEnds ==
  ASSUME NEW lo \in Int, NEW hi \in Int, lo <= hi
  PROVE  Live!Min(lo..hi) = lo /\ Live!Max(lo..hi) = hi /\ lo..hi # {} /\ lo..hi \subseteq Int
<1>1. lo \in lo..hi /\ hi \in lo..hi /\ \A k \in lo..hi : lo <= k /\ hi >= k
  OBVIOUS
<1>2. \A x \in lo..hi : (\A y \in lo..hi : x <= y) => x = lo
  BY <1>1
<1>3. \A x \in lo..hi : (\A y \in lo..hi : x >= y) => x = hi
  BY <1>1
<1>4. Live!Min(lo..hi) = lo
  BY <1>1, <1>2 DEF Live!Min
<1>5. Live!Max(lo..hi) = hi
  BY <1>1, <1>3 DEF Live!Max
<1> QED
  BY <1>1, <1>4, <1>5

LEMMA LesserOf ==
  ASSUME NEW i \in Int, NEW j \in Int PROVE Live!Min({i, j}) = IF i <= j THEN i ELSE j
<1>1. \E x \in {i, j} : \A y \in {i, j} : x <= y
  OBVIOUS
<1> QED
  BY <1>1 DEF Live!Min

LEMMA ClosedIs ==
  ASSUME NEW i \in Int, NEW j \in Int, v1 \in Nat
  PROVE  /\ Live!Closed(i, j) \subseteq Int
         /\ j < v1 => Live!Closed(i, j) = i..j
         /\ j = v1 \/ j = v1 - 1 => Live!Closed(i, j) = i..(v1 - 1)
BY DEF Live!Closed

LEMMA LiveStarts == ASSUME Live!LiveInit PROVE Live!LiveInv
<1>1. v1 = LiveEpoch /\ v2 = {} /\ v3 = "off" /\ v4 = 0 /\ v5 = 0 /\ v6 = FALSE /\ v7 = FALSE
  BY DEF Live!LiveInit
<1>2. v1 \in Nat \ {0} /\ 0 < v1
  BY <1>1, LiveConstants
<1>3. Live!TypeOK
  <2>1. v6 \in BOOLEAN /\ v7 \in BOOLEAN
    BY <1>1
  <2>2. v4 \in Int /\ v5 \in Int /\ v2 \subseteq Int /\ v3 \in {"off", "history", "ready", "update"}
    BY <1>1
  <2> QED
    BY <1>2, <2>1, <2>2 DEF Live!TypeOK
<1> QED
  BY <1>1, <1>2, <1>3 DEF Live!LiveInv, Live!Complete

LEMMA LivePass ==
  ASSUME Live!LiveInv, NEW minutes \in 1..LiveSleep, Live!Pass(minutes) PROVE Live!LiveInv'
<1> USE LiveConstants
<1>1. /\ v1' = v1 + minutes /\ v6' = FALSE /\ UNCHANGED <<v2, v3, v4, v5, v7>>
      /\ minutes \in Nat /\ minutes > 0 /\ v1 \in Nat
  BY DEF Live!Pass, Live!LiveInv, Live!TypeOK
<1>2. PICK n \in Nat : n = v1' /\ v1 < n
  BY <1>1
<1>3. Live!TypeOK'
  <2>1. v1' \in Nat \ {0}
    <3>1. n # 0
      BY <1>1, <1>2
    <3> QED
      BY <1>2, <3>1
  <2> QED
    BY <1>1, <2>1 DEF Live!LiveInv, Live!TypeOK
<1>4. v5' < v1'
  BY <1>1, <1>2 DEF Live!LiveInv, Live!TypeOK
<1>5. ASSUME ~ v7' PROVE Live!Complete'
  <2>1. Live!Complete
    BY <1>1, <1>5 DEF Live!LiveInv
  <2>2. v4 \in Int
    BY DEF Live!LiveInv, Live!TypeOK
  <2>3. v3' = "history" =>
          /\ v4' < v1'
          /\ \/ v2' = {} /\ v4' <= v1' - LiveHistory
             \/ \E first \in Int : first < v4' /\ v2' = first..(v4' - 1) /\ first <= v1' - LiveHistory
    <3>1. \A i \in Int : i <= v1 - LiveHistory => i <= n - LiveHistory
      BY <1>1, <1>2
    <3>2. v4 < v1 => v4 < n
      BY <1>1, <1>2, <2>2
    <3> QED
      BY <1>1, <1>2, <2>1, <2>2, <3>1, <3>2 DEF Live!Complete
  <2>4. v3' \in {"ready", "update"} =>
          \E first, last \in Int :
            v2' = first..last /\ first <= last /\ last < v1' /\ first <= last - LiveHistory + LiveGrid
    BY <1>1, <1>2, <2>1 DEF Live!Complete
  <2> QED
    BY <1>1, <2>1, <2>3, <2>4 DEF Live!Complete
<1> QED
  BY <1>1, <1>3, <1>4, <1>5 DEF Live!LiveInv

LEMMA LiveLoad == ASSUME Live!LiveInv, Live!Load PROVE Live!LiveInv'
<1> USE LiveConstants
<1>1. /\ v3 = "off" /\ v3' = "history" /\ v4' = v1 - LiveHistory /\ UNCHANGED <<v1, v2, v5, v6, v7>>
  BY DEF Live!Load
<1>2. v1 \in Nat /\ v4' \in Int /\ v4' < v1 /\ v4' <= v1 - LiveHistory
  BY <1>1 DEF Live!LiveInv, Live!TypeOK
<1> QED
  BY <1>1, <1>2 DEF Live!LiveInv, Live!TypeOK, Live!Complete

LEMMA LiveHistoryPage == ASSUME Live!LiveInv, Live!HistoryPage PROVE Live!LiveInv'
<1> USE LiveConstants
<1>0. v1 \in Nat /\ v4 \in Int /\ v2 \subseteq Int /\ v3 = "history"
      /\ UNCHANGED <<v1, v5, v6, v7>>
  BY DEF Live!LiveInv, Live!TypeOK, Live!HistoryPage
<1>1. PICK last \in Int : last = Live!Min({v4 + LivePage - 1, v1})
                          /\ last = IF v4 + LivePage - 1 <= v1 THEN v4 + LivePage - 1 ELSE v1
  BY <1>0, LesserOf
<1>2. PICK more \in BOOLEAN : more = (last - v4 + 1 = LivePage /\ last + 1 < v1)
  BY Zenon
<1>3. /\ v2' = v2 \cup Live!Closed(v4, last)
      /\ v4' = IF more THEN last + 1 ELSE 0
      /\ v3' = IF more THEN "history" ELSE IF v5 = 0 THEN "ready" ELSE "update"
  BY <1>0, <1>1, <1>2 DEF Live!HistoryPage
<1>4. Live!TypeOK'
  <2>1. v2' \subseteq Int
    BY <1>0, <1>3, ClosedIs
  <2>2. v4' \in Int
    <3>1. last + 1 \in Int
      OBVIOUS
    <3> QED
      BY <1>3, <3>1
  <2>3. v3' \in {"history", "ready", "update"}
    BY <1>3
  <2> QED
    BY <1>0, <2>1, <2>2, <2>3 DEF Live!LiveInv, Live!TypeOK
<1>5. v6' = FALSE
  BY <1>0 DEF Live!LiveInv, Live!TypeOK
<1>6. ASSUME ~ v7' PROVE Live!Complete'
  <2>1. v4 < v1
        /\ \/ v2 = {} /\ v4 <= v1 - LiveHistory
           \/ \E first \in Int : first < v4 /\ v2 = first..(v4 - 1) /\ first <= v1 - LiveHistory
    BY <1>0, <1>6 DEF Live!LiveInv, Live!Complete
  <2>2. PICK first \in Int : first <= v4 /\ v2 = first..(v4 - 1) /\ first <= v1 - LiveHistory
    <3>1. CASE v2 = {} /\ v4 <= v1 - LiveHistory
      <4>1. v4..(v4 - 1) = {} /\ v4 <= v4
        BY <1>0
      <4> QED
        BY <1>0, <3>1, <4>1
    <3>2. CASE \E first \in Int : first < v4 /\ v2 = first..(v4 - 1) /\ first <= v1 - LiveHistory
      BY <1>0, <3>2
    <3> QED
      BY <2>1, <3>1, <3>2
  <2>3. CASE more
    <3>1. last + 1 < v1 /\ last = v4 + LivePage - 1 /\ v4 <= last
      <4>1. last - v4 + 1 = LivePage /\ last + 1 < v1
        BY <1>2, <2>3
      <4>2. v1 \in Nat /\ v4 \in Int /\ last \in Int /\ LivePage \in Nat \ {0}
        BY <1>0
      <4> QED
        BY ONLY <4>1, <4>2
    <3>2. v2' = first..last
      <4>1. Live!Closed(v4, last) = v4..last
        BY <1>0, <3>1, ClosedIs
      <4> QED
        BY <1>0, <1>3, <2>2, <3>1, <4>1
    <3>3. PICK s \in Int : s = v4' /\ s = last + 1
      BY <1>3, <2>3
    <3>4. s < v1 /\ first < s /\ first..last = first..(s - 1)
      BY <1>0, <2>2, <3>1, <3>3
    <3> QED
      BY <1>0, <1>3, <2>2, <2>3, <3>2, <3>3, <3>4 DEF Live!Complete
  <2>4. CASE ~ more
    <3>1. last = v1 \/ last = v1 - 1
      <4>1. ~ (last - v4 + 1 = LivePage /\ last + 1 < v1)
        BY <1>2, <2>4
      <4>2. v1 \in Nat /\ v4 \in Int /\ last \in Int /\ LivePage \in Nat
            /\ last = IF v4 + LivePage - 1 <= v1 THEN v4 + LivePage - 1 ELSE v1
        BY <1>0, <1>1
      <4> QED
        BY ONLY <4>1, <4>2
    <3>2. v2' = first..(v1 - 1)
      <4>1. Live!Closed(v4, last) = v4..(v1 - 1)
        BY <1>0, <3>1, ClosedIs
      <4> QED
        BY <1>0, <1>3, <2>1, <2>2, <4>1
    <3>3. PICK l \in Int : l = v1 - 1
      BY <1>0
    <3>4. first <= l /\ l < v1 /\ first <= l - LiveHistory + LiveGrid
      BY <1>0, <2>1, <2>2, <3>3
    <3> QED
      BY <1>0, <1>3, <2>4, <3>2, <3>3, <3>4 DEF Live!Complete
  <2> QED
    BY <2>3, <2>4
<1> QED
  BY <1>0, <1>4, <1>5, <1>6 DEF Live!LiveInv

LEMMA LiveFetch == ASSUME Live!LiveInv, Live!Fetch PROVE Live!LiveInv'
<1> USE LiveConstants
<1>0. v1 \in Nat /\ v4 \in Int /\ v2 \subseteq Int /\ v3 = "update" /\ v5 \in Int /\ v5 < v1
      /\ UNCHANGED <<v1, v5, v6>> /\ v6 = FALSE /\ v7 \in BOOLEAN
  BY DEF Live!LiveInv, Live!TypeOK, Live!Fetch
<1>1. CASE v2' = {} /\ v3' = "history" /\ v4' = v1 - LiveHistory /\ v7' = v7
  <2>1. v4' \in Int /\ v4' < v1 /\ v4' <= v1 - LiveHistory
    BY <1>0, <1>1
  <2> QED
    BY <1>0, <1>1, <2>1 DEF Live!LiveInv, Live!TypeOK, Live!Complete
<1>2. CASE /\ v2 # {} /\ v2' = v2 \cup Live!Closed(v1 - Live!Limit + 1, v1)
           /\ v7' = (v7 \/ v1 - Live!LastBar > LiveRows \/ v1 - v5 > 3)
           /\ v3' = v3 /\ v4' = v4
  <2>1. v7' \in BOOLEAN
    <3>1. PICK b \in BOOLEAN : b = (v7 \/ v1 - Live!LastBar > LiveRows \/ v1 - v5 > 3)
      BY Zenon
    <3> QED
      BY <1>2, <3>1
  <2>2. Live!Closed(v1 - Live!Limit + 1, v1) \subseteq Int
    BY <1>0 DEF Live!Closed
  <2>3. ASSUME ~ v7' PROVE Live!Complete'
    <3>1. Live!Complete /\ ~ (v1 - Live!LastBar > LiveRows) /\ ~ (v1 - v5 > 3)
      BY <1>2, <2>3 DEF Live!LiveInv
    <3>2. PICK first, last \in Int : /\ v2 = first..last /\ first <= last /\ last < v1
                                     /\ first <= last - LiveHistory + LiveGrid
      BY <1>0, <3>1 DEF Live!Complete
    <3>3. Live!LastBar = last
      BY <3>2, StretchEnds DEF Live!LastBar
    <3>4. PICK limit \in Int : limit = Live!Limit
                               /\ limit = IF v5 - last + 3 <= LiveRows THEN v5 - last + 3 ELSE LiveRows
      BY <1>0, <3>3, LesserOf DEF Live!Limit, Live!Gap
    <3>5. v1 - last <= limit
      BY <1>0, <3>1, <3>3, <3>4
    <3>6. PICK from, l \in Int : from = v1 - limit + 1 /\ l = v1 - 1
      BY <1>0
    <3>7. v2' = (first..last) \cup (from..l)
      <4>1. Live!Closed(from, v1) = from..l
        BY <1>0, <3>6, ClosedIs
      <4> QED
        BY <1>2, <3>2, <3>4, <3>6, <4>1
    <3>8. PICK f \in Int : f = IF first <= from THEN first ELSE from
      OBVIOUS
    <3>9. from <= last + 1 /\ last <= l
      BY <1>0, <3>2, <3>5, <3>6
    <3>10. v2' = f..l
      BY <3>2, <3>7, <3>8, <3>9
    <3>11. f <= l /\ l < v1 /\ f <= l - LiveHistory + LiveGrid
      BY <1>0, <3>2, <3>6, <3>8, <3>9
    <3> QED
      BY <1>0, <1>2, <3>10, <3>11 DEF Live!Complete
  <2> QED
    BY <1>0, <1>2, <2>1, <2>2, <2>3 DEF Live!LiveInv, Live!TypeOK
<1> QED
  BY <1>1, <1>2 DEF Live!Fetch

LEMMA LiveUpdated == ASSUME Live!LiveInv, Live!Updated PROVE Live!LiveInv'
<1> USE LiveConstants
<1>0. v1 \in Nat /\ v5 \in Int /\ v2 \subseteq Int /\ v3 = "update" /\ v3' = "ready" /\ v5' = 0
      /\ v2' = {m \in v2 : m >= v5 - (LiveHistory + LiveGrid)} /\ Live!LastBar >= v5
      /\ v5 < v1 /\ v1 # 0 /\ UNCHANGED <<v1, v4, v7>>
  BY DEF Live!LiveInv, Live!TypeOK, Live!Updated
<1>1. ASSUME ~ v7' PROVE Live!Complete'
  <2>1. PICK first, last \in Int : /\ v2 = first..last /\ first <= last /\ last < v1
                                   /\ first <= last - LiveHistory + LiveGrid
    BY <1>0, <1>1 DEF Live!Complete, Live!LiveInv
  <2>2. last >= v5
    BY <1>0, <2>1, StretchEnds DEF Live!LastBar
  <2>3. PICK f \in Int : f = IF first >= v5 - (LiveHistory + LiveGrid) THEN first
                             ELSE v5 - (LiveHistory + LiveGrid)
    BY <1>0
  <2>4. v2' = f..last
    BY <1>0, <2>1, <2>3
  <2>5. f <= last /\ f <= last - LiveHistory + LiveGrid
    BY <1>0, <2>1, <2>2, <2>3
  <2> QED
    BY <1>0, <2>1, <2>4, <2>5 DEF Live!Complete
<1>2. v5' < v1'
  BY <1>0
<1>3. Live!TypeOK'
  <2>0. v6' \in BOOLEAN
    BY Zenon DEF Live!Updated
  <2>1. v2' \subseteq Int
    BY <1>0
  <2>2. v5' \in Int
    BY <1>0
  <2>3. v3' \in {"off", "history", "ready", "update"}
    BY <1>0
  <2> QED
    BY <1>0, <2>0, <2>1, <2>2, <2>3 DEF Live!LiveInv, Live!TypeOK
<1> QED
  BY <1>0, <1>1, <1>2, <1>3 DEF Live!LiveInv

LEMMA LiveOthers ==
  ASSUME Live!LiveInv, Live!Decide \/ Live!RequestFails PROVE Live!LiveInv'
<1> USE LiveConstants
<1>1. CASE Live!Decide
  <2>1. /\ v3 = "ready" /\ v3' = "update" /\ v5' = v1 - 1 /\ v6' = FALSE
        /\ UNCHANGED <<v1, v2, v4, v7>> /\ v1 \in Nat
    BY <1>1 DEF Live!Decide, Live!LiveInv, Live!TypeOK
  <2>2. v5' \in Int /\ v5' < v1
    BY <2>1
  <2> QED
    BY <2>1, <2>2 DEF Live!LiveInv, Live!TypeOK, Live!Complete
<1>2. CASE Live!RequestFails
  <2>0. PICK b \in BOOLEAN : b = (v7 \/ v3 = "history")
    BY Zenon
  <2>1. v1 \in Nat /\ v5 < v1 /\ v5 \in Int /\ (v3 \in {"history", "update"} => v6 = FALSE) /\ v1' = v1
        /\ v4' = 0 /\ v6' = v6
    BY <1>2 DEF Live!RequestFails, Live!LiveInv, Live!TypeOK
  <2>2. CASE /\ v3 = "history" /\ v5 = 0 /\ v3' = "off" /\ v2' = {} /\ v5' = v5 /\ v7' = v7
    BY <2>1, <2>2 DEF Live!LiveInv, Live!TypeOK, Live!Complete
  <2>3. CASE /\ v3 \in {"history", "update"} /\ v5 # 0 /\ v3' = "ready" /\ v5' = 0 /\ v2' = v2 /\ v7' = b
    <3>1. 0 < v1
      <4>1. v1 # 0
        BY DEF Live!LiveInv, Live!TypeOK
      <4> QED
        BY <2>1, <4>1
    <3>2. ASSUME ~ v7' PROVE Live!Complete'
      <4>1. ~ v7 /\ v3 = "update"
        BY <2>0, <2>3, <3>2
      <4> QED
        BY <2>1, <2>3, <4>1 DEF Live!Complete, Live!LiveInv
    <3> QED
      BY <2>1, <2>3, <3>1, <3>2 DEF Live!LiveInv, Live!TypeOK
  <2> QED
    BY <1>2, <2>0, <2>2, <2>3 DEF Live!RequestFails
<1> QED
  BY <1>1, <1>2

LEMMA LiveNexts ==
  ASSUME Live!LiveInv, [Live!LiveNext]_(Live!vars) PROVE Live!LiveInv'
<1>1. CASE Live!LiveNext
  BY <1>1, LivePass, LiveLoad, LiveHistoryPage, LiveFetch, LiveUpdated, LiveOthers DEF Live!LiveNext
<1>2. CASE UNCHANGED Live!vars
  BY <1>2 DEF Live!vars, Live!LiveInv, Live!TypeOK, Live!Complete
<1> QED
  BY <1>1, <1>2

LEMMA LiveMeans == ASSUME Live!LiveInv PROVE Live!WholeUnlessExcused
<1> SUFFICES ASSUME v6, ~ v7 PROVE Live!Whole
  BY DEF Live!WholeUnlessExcused
<1>1. PICK first, last \in Int : /\ v2 = first..last /\ first <= last
                                 /\ first <= last - LiveHistory + LiveGrid
  BY DEF Live!LiveInv, Live!Complete
<1> QED
  BY <1>1, StretchEnds DEF Live!Whole, Live!LastBar

-----------------------------------------------------------------------------
(* The system: the part that runs keeps its invariant.                     *)

OnlineInv ==
  /\ part = "budget"  => Budget!BudgetInv
  /\ part = "risk"    => Risk!RiskInv
  /\ part = "entries" => Entries!BotInv
  /\ part = "capture" => Capture!RecorderInv
  /\ part = "page"    => Status!PageInv
  /\ part = "polls"   => Polls!PollersInv
  /\ part = "live"    => Live!LiveInv

LEMMA OnlineStarts == OnlineInit => OnlineInv
BY BudgetStarts, RiskStarts, EntriesStarts, CaptureInit, PageBegins, PollsInit, LiveStarts
   DEF OnlineInit, OnlineInv

LEMMA OnlineStep == ASSUME OnlineInv, [OnlineNext]_vars PROVE OnlineInv'
<1>1. CASE OnlineNext
  BY <1>1, BudgetStep, RiskStep, EntriesStep, CaptureNext, PageNext, PollsNext, LiveNexts
     DEF OnlineNext, OnlineInv
<1>2. CASE UNCHANGED vars
  <2>1. /\ UNCHANGED <<part, v1, v2, v3, v4, v5, v6, v7, v8, v9, v10, v11>>
        /\ UNCHANGED Capture!vars /\ UNCHANGED Status!vars /\ UNCHANGED Live!vars
    BY <1>2 DEF vars, Capture!vars, Status!vars, Live!vars
  <2> QED
    BY <2>1, BudgetStays, RiskStays, EntriesStay, CaptureNext, PageNext, PollsStay, LiveNexts
       DEF OnlineInv
<1> QED
  BY <1>1, <1>2

LEMMA OnlineAlwaysHolds == OnlineSpec => []OnlineInv
BY OnlineStarts, OnlineStep, PTL DEF OnlineSpec

(* Whatever the weights, limits, clocks and lots are: the exchange's weight*)
(* limit is kept but for requests that were given up (WeightBudget), gross *)
(* exposure, positions and order rates stay within the limits (RiskCheck), *)
(* and an entry of the bot risks its share of the balance at most (plan).  *)
THEOREM LimitsAlwaysHold == OnlineSpec => []LimitsHold
<1>1. OnlineInv => LimitsHold
  BY BudgetMeans, RiskMeans, EntriesMean DEF OnlineInv, LimitsHold
<1> QED
  BY <1>1, OnlineAlwaysHolds, PTL

(* No entry takes positions and entries beyond the bot's share of the      *)
(* balance, for any contracts, prices and balances (open_notional, plan).  *)
THEOREM CapsAlwaysKept == OnlineSpec => CapsAreKept
<1>1. OnlineInv /\ [OnlineNext]_vars => [part = "entries" => Entries!GrossIsBounded]_vars
  BY EntriesCaps DEF OnlineNext, OnlineInv
<1> QED
  BY <1>1, OnlineAlwaysHolds, PTL DEF OnlineSpec, CapsAreKept

(* The losses of a recorder are told by records next to them, the status   *)
(* page is green and adds up truly, the pollers' flag and symbols are      *)
(* fresh, and the live bars have no hole: for any queues, intervals,       *)
(* timeouts, pages and symbols (check_disk, derive, poll_symbols, update). *)
THEOREM CaptureStaysTrue == OnlineSpec => []CaptureIsTrue
<1>1. OnlineInv => CaptureIsTrue
  BY CaptureMeans, GreenMeans, IncreaseMeans, PollsMean, LiveMeans DEF OnlineInv, CaptureIsTrue
<1> QED
  BY <1>1, OnlineAlwaysHolds, PTL

=============================================================================
