----------------------------- MODULE FoldProofs -----------------------------
(***************************************************************************)
(* Facts about the folds and sums of the community modules that the proofs  *)
(* about Round and Receipts rest on.                                       *)
(*                                                                         *)
(* A fold is the value of a function defined by recursion over the subsets  *)
(* of a finite set.  What recursion and induction are needed for is stated  *)
(* here with functions and sets in the place of operators and predicates,   *)
(* so that the provers can use it: a set of subsets has a least member, and *)
(* a set of numbers that holds 0 and every successor holds them all.        *)
(***************************************************************************)
EXTENDS Integers, Folds, Functions, FiniteSetTheorems, TLAPS

\* A set of subsets of a finite set has a minimal member.
LEMMA MinimalSubset ==
  ASSUME NEW S, IsFiniteSet(S), NEW C, C \subseteq SUBSET S, C # {}
  PROVE  \E T \in C : \A U \in C : U \subseteq T => U = T
<1> DEFINE R == StrictSubsetOrdering(S)
<1>1. IsWellFoundedOn(R, SUBSET S)
  BY FS_StrictSubsetOrderingWellFounded, FS_FiniteSubsetsOfFinite
<1>2. \A T, U \in SUBSET S : <<U, T>> \in R <=> U \subseteq T /\ U # T
  BY DEF StrictSubsetOrdering
<1> HIDE DEF R
<1>3. \E T \in C : \A U \in C : ~(<<U, T>> \in R)
  BY <1>1, WFMin, Zenon
<1> QED BY <1>2, <1>3

\* Induction over the subsets of a finite set, for sets of subsets.
LEMMA SetInduction ==
  ASSUME NEW S, IsFiniteSet(S), NEW G,
         \A T \in SUBSET S : (\A x \in T : T \ {x} \in G) => T \in G
  PROVE  S \in G
<1>1. PICK C : C = (SUBSET S) \ G OBVIOUS
<1>2. ASSUME C # {} PROVE FALSE
  <2>1. C \subseteq SUBSET S BY <1>1
  <2>2. PICK T \in C : \A U \in C : U \subseteq T => U = T
    BY <1>2, <2>1, MinimalSubset
  <2>3. ASSUME NEW x \in T PROVE T \ {x} \in G
    <3>1. T \ {x} \in SUBSET S /\ T \ {x} # T /\ T \ {x} \subseteq T BY <2>1, <2>3
    <3> QED BY <1>1, <2>2, <3>1
  <2> QED BY <1>1, <2>2, <2>3
<1> QED BY <1>1, <1>2

\* Induction over the natural numbers, for sets.
LEMMA NatSetInduction ==
  ASSUME NEW G, 0 \in G, \A n \in Nat : n \in G => n + 1 \in G
  PROVE  Nat \subseteq G
<1> SUFFICES ASSUME NEW n \in Nat PROVE n \in G OBVIOUS
<1> DEFINE H == {T \in SUBSET (1 .. n) : Cardinality(T) \in G}
<1>1. IsFiniteSet(1 .. n) /\ Cardinality(1 .. n) = n BY FS_Interval
<1>2. {} \in H BY FS_EmptySet
<1>3. ASSUME NEW T \in SUBSET (1 .. n), \A x \in T : T \ {x} \in H PROVE T \in H
  <2>1. IsFiniteSet(T) BY <1>1, FS_Subset
  <2>2. CASE T = {} BY <1>2, <2>2
  <2>3. CASE T # {}
    <3>1. PICK x \in T : TRUE BY <2>3
    <3>2. IsFiniteSet(T \ {x}) /\ Cardinality(T \ {x}) = Cardinality(T) - 1
      BY <2>1, FS_RemoveElement
    <3>3. Cardinality(T) \in Nat /\ Cardinality(T \ {x}) \in Nat
      BY <2>1, <3>2, FS_CardinalityType
    <3>4. Cardinality(T \ {x}) + 1 \in G BY <1>3, <3>3
    <3> QED BY <3>2, <3>3, <3>4
  <2> QED BY <2>2, <2>3
<1>4. 1 .. n \in H
  <2> HIDE DEF H
  <2> QED BY <1>1, <1>3, SetInduction
<1> QED BY <1>1, <1>4

-----------------------------------------------------------------------------
(* Recursion over the subsets of a finite set.                             *)

\* g is the fold with `step` over the subsets of S in the order of `pick`.
FoldsSubsets(g, S, base, pick, step) ==
  g = [s \in SUBSET S |-> IF s = {} THEN base ELSE step[<<pick[s], g[s \ {pick[s]}]>>]]

Picks(pick, S) == \A s \in SUBSET S : s # {} => pick[s] \in s

LEMMA FoldExists ==
  ASSUME NEW S, IsFiniteSet(S), NEW A, NEW base \in A, NEW pick, Picks(pick, S),
         NEW step \in [S \X A -> A]
  PROVE  \E g \in [SUBSET S -> A] : FoldsSubsets(g, S, base, pick, step)
<1> DEFINE At(g, s) == g[s] = IF s = {} THEN base ELSE step[<<pick[s], g[s \ {pick[s]}]>>]
           G == {n \in Nat : \E g \in [SUBSET S -> A] :
                               \A s \in SUBSET S : Cardinality(s) <= n => At(g, s)}
<1>1. \A s \in SUBSET S : IsFiniteSet(s) /\ Cardinality(s) \in Nat
  BY FS_Subset, FS_CardinalityType
<1>2. 0 \in G
  <2>1. [s \in SUBSET S |-> base] \in [SUBSET S -> A] OBVIOUS
  <2>2. \A s \in SUBSET S : Cardinality(s) <= 0 => s = {} BY <1>1, FS_EmptySet
  <2> QED BY <2>1, <2>2
<1>3. ASSUME NEW n \in Nat, n \in G PROVE n + 1 \in G
  <2>1. PICK g \in [SUBSET S -> A] : \A s \in SUBSET S : Cardinality(s) <= n => At(g, s)
    BY <1>3
  <2> DEFINE h == [s \in SUBSET S |-> IF s = {} THEN base ELSE step[<<pick[s], g[s \ {pick[s]}]>>]]
  <2>2. \A s \in SUBSET S : s # {} => pick[s] \in s BY DEF Picks
  <2>3. h \in [SUBSET S -> A]
    <3> SUFFICES ASSUME NEW s \in SUBSET S, s # {} PROVE step[<<pick[s], g[s \ {pick[s]}]>>] \in A
      OBVIOUS
    <3>1. pick[s] \in S /\ g[s \ {pick[s]}] \in A BY <2>2
    <3> QED BY <3>1
  <2>4. \A s \in SUBSET S : Cardinality(s) <= n => h[s] = g[s] BY <2>1
  <2>5. ASSUME NEW s \in SUBSET S, Cardinality(s) <= n + 1 PROVE At(h, s)
    <3>1. CASE s = {} BY <3>1
    <3>2. CASE s # {}
      <4>1. s \ {pick[s]} \in SUBSET S /\ pick[s] \in s BY <2>2, <3>2
      <4>2. Cardinality(s \ {pick[s]}) = Cardinality(s) - 1
        BY <1>1, <4>1, FS_RemoveElement
      <4>3. Cardinality(s \ {pick[s]}) <= n BY <1>1, <2>5, <4>1, <4>2
      <4>4. h[s \ {pick[s]}] = g[s \ {pick[s]}]
        <5> HIDE DEF h
        <5> QED BY <2>4, <4>1, <4>3
      <4>5. h[s] = step[<<pick[s], g[s \ {pick[s]}]>>] BY <3>2
      <4> HIDE DEF h
      <4> QED BY <3>2, <4>4, <4>5
    <3> QED BY <3>1, <3>2
  <2>6. \E f \in [SUBSET S -> A] : \A s \in SUBSET S : Cardinality(s) <= n + 1 => At(f, s)
    <3> HIDE DEF h
    <3> QED BY <2>3, <2>5
  <2>7. n + 1 \in Nat OBVIOUS
  <2> HIDE DEF h, At
  <2> QED BY <2>6, <2>7
<1>4. Cardinality(S) \in G
  <2> HIDE DEF G
  <2> QED BY <1>1, <1>2, <1>3, NatSetInduction
<1>5. PICK g \in [SUBSET S -> A] : \A s \in SUBSET S : Cardinality(s) <= Cardinality(S) => At(g, s)
  BY <1>4
<1>6. \A s \in SUBSET S : At(g, s) BY <1>5, FS_Subset
<1>7. g = [s \in SUBSET S |-> g[s]] OBVIOUS
<1> QED BY <1>6, <1>7 DEF FoldsSubsets

LEMMA FoldUnique ==
  ASSUME NEW S, IsFiniteSet(S), NEW base, NEW pick, Picks(pick, S), NEW step, NEW g, NEW h,
         FoldsSubsets(g, S, base, pick, step), FoldsSubsets(h, S, base, pick, step)
  PROVE  g = h
<1>0. PICK C : C = {s \in SUBSET S : g[s] # h[s]} OBVIOUS
<1>1. ASSUME C # {} PROVE FALSE
  <2>1. C \subseteq SUBSET S BY <1>0
  <2>2. PICK s \in C : \A u \in C : u \subseteq s => u = s
    BY <1>1, <2>1, MinimalSubset
  <2>3. g[s] = IF s = {} THEN base ELSE step[<<pick[s], g[s \ {pick[s]}]>>] BY <1>0, <2>2 DEF FoldsSubsets
  <2>4. h[s] = IF s = {} THEN base ELSE step[<<pick[s], h[s \ {pick[s]}]>>] BY <1>0, <2>2 DEF FoldsSubsets
  <2>5. s # {} /\ s \in SUBSET S BY <1>0, <2>2, <2>3, <2>4
  <2>6. pick[s] \in s BY <2>5 DEF Picks
  <2>7. g[s \ {pick[s]}] = h[s \ {pick[s]}] BY <1>0, <2>2, <2>5, <2>6
  <2> QED BY <1>0, <2>2, <2>3, <2>4, <2>5, <2>7
<1>2. g = [s \in SUBSET S |-> g[s]] /\ h = [s \in SUBSET S |-> h[s]] BY DEF FoldsSubsets
<1> QED BY <1>0, <1>1, <1>2

-----------------------------------------------------------------------------
(* Sums of a function over a finite set, with SumFunctionOnSet of Functions. *)

Ints(F, S) == \A x \in S : F[x] \in Int

\* The sum takes the elements one by one, in the order of CHOOSE.
LEMMA SumByChoice ==
  ASSUME NEW S, IsFiniteSet(S), NEW F, Ints(F, S)
  PROVE  /\ SumFunctionOnSet(F, {}) = 0
         /\ \A T \in SUBSET S :
              /\ SumFunctionOnSet(F, T) \in Int
              /\ T # {} => \E c \in T :
                   SumFunctionOnSet(F, T) = F[c] + SumFunctionOnSet(F, T \ {c})
<1>0. PICK ch : ch = [s \in SUBSET S |-> CHOOSE x \in s : TRUE] OBVIOUS
<1>1. \A s \in SUBSET S : /\ ch[s] = CHOOSE x \in s : TRUE
                          /\ s # {} => ch[s] \in s
  BY <1>0
<1> DEFINE D(g, T) == g = [s \in SUBSET T |-> IF s = {} THEN 0 ELSE F[ch[s]] + g[s \ {ch[s]}]]
<1>2. ASSUME NEW T \in SUBSET S
      PROVE  \E g \in [SUBSET T -> Int] : D(g, T)
  <2>0. PICK step : step = [p \in T \X Int |-> F[p[1]] + p[2]] OBVIOUS
  <2>1. IsFiniteSet(T) BY FS_Subset
  <2>2. Picks(ch, T) BY <1>1 DEF Picks
  <2>3. step \in [T \X Int -> Int] BY <2>0 DEF Ints
  <2>4. PICK g \in [SUBSET T -> Int] : FoldsSubsets(g, T, 0, ch, step)
    <3>1. 0 \in Int OBVIOUS
    <3> QED BY <2>1, <2>2, <2>3, <3>1, FoldExists
  <2>5. \A s \in SUBSET T : s # {} =>
          step[<<ch[s], g[s \ {ch[s]}]>>] = F[ch[s]] + g[s \ {ch[s]}]
    <3> SUFFICES ASSUME NEW s \in SUBSET T, s # {}
                 PROVE  step[<<ch[s], g[s \ {ch[s]}]>>] = F[ch[s]] + g[s \ {ch[s]}]
      OBVIOUS
    <3>1. ch[s] \in T /\ g[s \ {ch[s]}] \in Int BY <1>1
    <3>2. <<ch[s], g[s \ {ch[s]}]>> \in T \X Int BY <3>1
    <3> QED BY <2>0, <3>2
  <2> QED BY <2>4, <2>5 DEF FoldsSubsets
<1>3. ASSUME NEW T \in SUBSET S, NEW g, NEW h, D(g, T), D(h, T) PROVE g = h
  <2>1. IsFiniteSet(T) BY FS_Subset
  <2>2. PICK C : C = {s \in SUBSET T : g[s] # h[s]} OBVIOUS
  <2>3. ASSUME C # {} PROVE FALSE
    <3>1. C \subseteq SUBSET T BY <2>2
    <3>2. PICK s \in C : \A u \in C : u \subseteq s => u = s
      BY <2>1, <2>3, <3>1, MinimalSubset
    <3>3. PICK c : c = ch[s] OBVIOUS
    <3>4. g[s] = IF s = {} THEN 0 ELSE F[c] + g[s \ {c}] BY <1>3, <3>1, <3>2, <3>3
    <3>5. h[s] = IF s = {} THEN 0 ELSE F[c] + h[s \ {c}] BY <1>3, <3>1, <3>2, <3>3
    <3>6. s # {} BY <2>2, <3>2, <3>4, <3>5
    <3>7. c \in s BY <1>1, <3>1, <3>2, <3>3, <3>6
    <3>8. s \ {c} \in SUBSET T /\ s \ {c} \subseteq s /\ s \ {c} # s BY <3>1, <3>2, <3>7
    <3>9. g[s \ {c}] = h[s \ {c}] BY <2>2, <3>2, <3>8
    <3> QED BY <2>2, <3>2, <3>4, <3>5, <3>6, <3>9
  <2>4. g = [s \in SUBSET T |-> g[s]] /\ h = [s \in SUBSET T |-> h[s]] BY <1>3
  <2> HIDE DEF D
  <2> QED BY <2>2, <2>3, <2>4
<1>4. \A T \in SUBSET S : SumFunctionOnSet(F, T) = (CHOOSE g : D(g, T))[T]
  <2> SUFFICES ASSUME NEW T \in SUBSET S
               PROVE  SumFunctionOnSet(F, T) = (CHOOSE g : D(g, T))[T]
    OBVIOUS
  <2> DEFINE E(g) == g = [s \in SUBSET T |->
                            IF s = {} THEN 0
                            ELSE F[CHOOSE x \in s : TRUE] + g[s \ {CHOOSE x \in s : TRUE}]]
  <2>1. SumFunctionOnSet(F, T) = (CHOOSE g : E(g))[T]
    BY DEF SumFunctionOnSet, FoldFunctionOnSet, MapThenFoldSet
  <2>2. \A g : E(g) <=> D(g, T) BY <1>1
  <2>3. \E g : D(g, T) BY <1>2
  <2> HIDE DEF D, E
  <2>4. D(CHOOSE g : D(g, T), T) BY <2>3
  <2>5. \E g : E(g) BY <2>2, <2>3
  <2>6. E(CHOOSE g : E(g)) BY <2>5
  <2> QED BY <1>3, <2>1, <2>2, <2>4, <2>6
<1>5. ASSUME NEW T \in SUBSET S, NEW g, D(g, T)
      PROVE  SumFunctionOnSet(F, T) = g[T]
  <2> HIDE DEF D
  <2>1. D(CHOOSE h : D(h, T), T) BY <1>5
  <2> QED BY <1>3, <1>4, <1>5, <2>1
<1>6. SumFunctionOnSet(F, {}) = 0
  <2>1. PICK g : D(g, {}) BY <1>2
  <2>2. SumFunctionOnSet(F, {}) = g[{}] BY <1>5, <2>1
  <2> QED BY <2>1, <2>2
<1>7. ASSUME NEW T \in SUBSET S, NEW g \in [SUBSET T -> Int], D(g, T), NEW U \in SUBSET T
      PROVE  SumFunctionOnSet(F, U) = g[U]
  <2> DEFINE h == [s \in SUBSET U |-> g[s]]
  <2>1. \A s \in SUBSET U : s \ {ch[s]} \in SUBSET U /\ s \in SUBSET T OBVIOUS
  <2>2. \A s \in SUBSET U : g[s] = IF s = {} THEN 0 ELSE F[ch[s]] + g[s \ {ch[s]}]
    BY <1>7, <2>1
  <2>3. \A s \in SUBSET U : h[s \ {ch[s]}] = g[s \ {ch[s]}] BY <2>1
  <2>4. D(h, U) BY <2>2, <2>3
  <2>5. SumFunctionOnSet(F, U) = h[U]
    <3> HIDE DEF h, D
    <3> QED BY <1>5, <2>4
  <2> QED BY <2>5
<1>8. ASSUME NEW T \in SUBSET S
      PROVE  /\ SumFunctionOnSet(F, T) \in Int
             /\ T # {} => \E c \in T :
                  SumFunctionOnSet(F, T) = F[c] + SumFunctionOnSet(F, T \ {c})
  <2>1. PICK g \in [SUBSET T -> Int] : D(g, T) BY <1>2
  <2>2. SumFunctionOnSet(F, T) = g[T] BY <1>7, <2>1
  <2>3. ASSUME T # {} PROVE \E c \in T : SumFunctionOnSet(F, T) = F[c] + SumFunctionOnSet(F, T \ {c})
    <3>1. PICK c : c = ch[T] OBVIOUS
    <3>2. c \in T BY <1>1, <2>3, <3>1
    <3>3. g[T] = F[c] + g[T \ {c}] BY <2>1, <2>3, <3>1
    <3>4. T \ {c} \in SUBSET T OBVIOUS
    <3>5. SumFunctionOnSet(F, T \ {c}) = g[T \ {c}]
      <4> HIDE DEF D
      <4> QED BY <1>7, <2>1, <3>4
    <3> QED BY <2>2, <3>2, <3>3, <3>5
  <2> QED BY <2>1, <2>2, <2>3
<1> QED BY <1>6, <1>8

\* Any element can be taken first.
LEMMA SumTakeOut ==
  ASSUME NEW S, IsFiniteSet(S), NEW F, Ints(F, S), NEW x \in S
  PROVE  SumFunctionOnSet(F, S) = F[x] + SumFunctionOnSet(F, S \ {x})
<1> DEFINE sum(T) == SumFunctionOnSet(F, T)
           G == {T \in SUBSET S : \A y \in T : sum(T) = F[y] + sum(T \ {y})}
<1>1. \A T \in SUBSET S : sum(T) \in Int /\ (T # {} => \E c \in T : sum(T) = F[c] + sum(T \ {c}))
  BY SumByChoice
<1> HIDE DEF sum
<1>2. ASSUME NEW T \in SUBSET S, \A y \in T : T \ {y} \in G PROVE T \in G
  <2> SUFFICES ASSUME NEW y \in T PROVE sum(T) = F[y] + sum(T \ {y}) OBVIOUS
  <2>1. PICK c \in T : sum(T) = F[c] + sum(T \ {c}) BY <1>1
  <2>2. CASE c = y BY <2>1, <2>2
  <2>3. CASE c # y
    <3>1. sum(T \ {c}) = F[y] + sum((T \ {c}) \ {y}) BY <1>2, <2>3
    <3>2. sum(T \ {y}) = F[c] + sum((T \ {y}) \ {c}) BY <1>2, <2>3
    <3>3. (T \ {c}) \ {y} = (T \ {y}) \ {c} /\ (T \ {c}) \ {y} \in SUBSET S OBVIOUS
    <3>4. F[c] \in Int /\ F[y] \in Int /\ sum((T \ {c}) \ {y}) \in Int BY <1>1, <3>3 DEF Ints
    <3>5. sum(T \ {y}) = F[c] + sum((T \ {c}) \ {y}) BY <3>2, <3>3
    <3> QED BY <2>1, <3>1, <3>4, <3>5
  <2> QED BY <2>2, <2>3
<1>3. S \in G
  <2> HIDE DEF G
  <2> QED BY <1>2, SetInduction
<1> QED BY <1>3 DEF sum

\* The sum only depends on the values of its elements.
LEMMA SumSame ==
  ASSUME NEW S, IsFiniteSet(S), NEW F, Ints(F, S), NEW H, \A x \in S : H[x] = F[x]
  PROVE  SumFunctionOnSet(H, S) = SumFunctionOnSet(F, S)
<1> DEFINE G == {T \in SUBSET S : SumFunctionOnSet(H, T) = SumFunctionOnSet(F, T)}
<1>1. Ints(H, S) BY DEF Ints
<1>2. \A T \in SUBSET S : IsFiniteSet(T) /\ Ints(F, T) /\ Ints(H, T)
  BY <1>1, FS_Subset DEF Ints
<1>3. ASSUME NEW T \in SUBSET S, \A x \in T : T \ {x} \in G PROVE T \in G
  <2>1. CASE T = {}
    <3>1. SumFunctionOnSet(H, {}) = 0 BY <1>1, SumByChoice
    <3>2. SumFunctionOnSet(F, {}) = 0 BY SumByChoice
    <3> QED BY <2>1, <3>1, <3>2
  <2>2. CASE T # {}
    <3>1. PICK x \in T : TRUE BY <2>2
    <3>2. SumFunctionOnSet(H, T) = H[x] + SumFunctionOnSet(H, T \ {x}) BY <1>2, SumTakeOut
    <3>3. SumFunctionOnSet(F, T) = F[x] + SumFunctionOnSet(F, T \ {x}) BY <1>2, SumTakeOut
    <3> QED BY <1>3, <3>1, <3>2, <3>3
  <2> QED BY <2>1, <2>2
<1>4. S \in G
  <2> HIDE DEF G
  <2> QED BY <1>3, SetInduction
<1> QED BY <1>4

\* Two functions that differ in one element have sums that differ as it does.
LEMMA SumUpdate ==
  ASSUME NEW S, IsFiniteSet(S), NEW F, Ints(F, S), NEW H, Ints(H, S), NEW x \in S,
         \A y \in S \ {x} : H[y] = F[y]
  PROVE  SumFunctionOnSet(H, S) = SumFunctionOnSet(F, S) - F[x] + H[x]
<1>1. IsFiniteSet(S \ {x}) /\ Ints(F, S \ {x}) BY FS_Subset DEF Ints
<1>2. SumFunctionOnSet(H, S \ {x}) = SumFunctionOnSet(F, S \ {x}) BY <1>1, SumSame
<1>3. SumFunctionOnSet(F, S) = F[x] + SumFunctionOnSet(F, S \ {x}) BY SumTakeOut
<1>4. SumFunctionOnSet(H, S) = H[x] + SumFunctionOnSet(H, S \ {x}) BY SumTakeOut
<1>5. SumFunctionOnSet(F, S \ {x}) \in Int BY SumByChoice
<1>6. F[x] \in Int /\ H[x] \in Int BY DEF Ints
<1> QED BY <1>2, <1>3, <1>4, <1>5, <1>6

LEMMA SumZero ==
  ASSUME NEW S, IsFiniteSet(S), NEW F, \A x \in S : F[x] = 0
  PROVE  SumFunctionOnSet(F, S) = 0
<1> DEFINE G == {T \in SUBSET S : SumFunctionOnSet(F, T) = 0}
<1>1. Ints(F, S) BY DEF Ints
<1>2. \A T \in SUBSET S : IsFiniteSet(T) /\ Ints(F, T) BY <1>1, FS_Subset DEF Ints
<1>3. ASSUME NEW T \in SUBSET S, \A x \in T : T \ {x} \in G PROVE T \in G
  <2>1. CASE T = {} BY <1>1, <2>1, SumByChoice
  <2>2. CASE T # {}
    <3>1. PICK x \in T : TRUE BY <2>2
    <3>2. SumFunctionOnSet(F, T) = F[x] + SumFunctionOnSet(F, T \ {x}) BY <1>2, SumTakeOut
    <3> QED BY <1>3, <3>1, <3>2
  <2> QED BY <2>1, <2>2
<1>4. S \in G
  <2> HIDE DEF G
  <2> QED BY <1>3, SetInduction
<1> QED BY <1>4

\* A smaller set of summands that are not negative has a smaller sum.
LEMMA SumMonotone ==
  ASSUME NEW S, IsFiniteSet(S), NEW F, Ints(F, S), \A x \in S : F[x] >= 0, NEW T \in SUBSET S
  PROVE  SumFunctionOnSet(F, T) <= SumFunctionOnSet(F, S)
<1> DEFINE sum(U) == SumFunctionOnSet(F, U)
           G == {U \in SUBSET S : sum(U \cap T) <= sum(U)}
<1>1. \A U \in SUBSET S : IsFiniteSet(U) /\ Ints(F, U) BY FS_Subset DEF Ints
<1>2. \A U \in SUBSET S : sum(U) \in Int BY SumByChoice
<1>3. \A U \in SUBSET S : \A x \in U : sum(U) = F[x] + sum(U \ {x}) BY <1>1, SumTakeOut
<1> HIDE DEF sum
<1>4. ASSUME NEW U \in SUBSET S, \A x \in U : U \ {x} \in G PROVE U \in G
  <2>1. CASE U = {}
    <3>1. U \cap T = U BY <2>1
    <3> QED BY <1>2, <3>1
  <2>2. CASE U # {}
    <3>1. PICK x \in U : TRUE BY <2>2
    <3>2. sum((U \ {x}) \cap T) <= sum(U \ {x}) BY <1>4
    <3>3. sum(U) = F[x] + sum(U \ {x}) BY <1>3
    <3>4. /\ F[x] \in Int /\ F[x] >= 0
          /\ sum(U) \in Int /\ sum(U \ {x}) \in Int /\ sum((U \ {x}) \cap T) \in Int
      BY <1>2 DEF Ints
    <3>5. CASE x \in T
      <4>1. sum(U \cap T) = F[x] + sum((U \cap T) \ {x}) BY <1>3, <3>5
      <4>2. (U \cap T) \ {x} = (U \ {x}) \cap T OBVIOUS
      <4>3. sum(U \cap T) = F[x] + sum((U \ {x}) \cap T) BY <4>1, <4>2
      <4> QED BY <3>2, <3>3, <3>4, <4>3
    <3>6. CASE x \notin T
      <4>1. U \cap T = (U \ {x}) \cap T BY <3>6
      <4>2. sum(U \cap T) = sum((U \ {x}) \cap T) BY <4>1
      <4> QED BY <3>2, <3>3, <3>4, <4>2
    <3> QED BY <3>5, <3>6
  <2> QED BY <2>1, <2>2
<1>5. S \in G
  <2> HIDE DEF G
  <2> QED BY <1>4, SetInduction
<1>6. S \cap T = T OBVIOUS
<1> QED BY <1>5, <1>6 DEF sum

\* The sum over the row of a table is the sum over the pairs of that row.
LEMMA SumRow ==
  ASSUME NEW S, IsFiniteSet(S), NEW r, NEW F, Ints(F, S), NEW P,
         \A x \in S : P[<<r, x>>] = F[x]
  PROVE  IsFiniteSet({r} \X S) /\ SumFunctionOnSet(P, {r} \X S) = SumFunctionOnSet(F, S)
<1> DEFINE G == {T \in SUBSET S : SumFunctionOnSet(P, {r} \X T) = SumFunctionOnSet(F, T)}
<1>1. IsFiniteSet({r}) BY FS_Singleton
<1>2. \A T \in SUBSET S : /\ IsFiniteSet(T) /\ Ints(F, T)
                          /\ IsFiniteSet({r} \X T) /\ Ints(P, {r} \X T)
  <2> SUFFICES ASSUME NEW T \in SUBSET S
               PROVE  /\ IsFiniteSet(T) /\ Ints(F, T)
                      /\ IsFiniteSet({r} \X T) /\ Ints(P, {r} \X T)
    OBVIOUS
  <2>1. IsFiniteSet(T) BY FS_Subset
  <2>2. IsFiniteSet({r} \X T) BY <1>1, <2>1, FS_Product
  <2>3. Ints(F, T) /\ Ints(P, {r} \X T) BY DEF Ints
  <2> QED BY <2>1, <2>2, <2>3
<1>3. ASSUME NEW T \in SUBSET S, \A x \in T : T \ {x} \in G PROVE T \in G
  <2>1. CASE T = {}
    <3>1. {r} \X T = {} BY <2>1
    <3>2. SumFunctionOnSet(F, {}) = 0 BY SumByChoice
    <3>3. SumFunctionOnSet(P, {}) = 0
      <4>1. Ints(P, {}) /\ IsFiniteSet({}) BY FS_EmptySet DEF Ints
      <4> QED BY <4>1, SumByChoice
    <3> QED BY <2>1, <3>1, <3>2, <3>3
  <2>2. CASE T # {}
    <3>1. PICK x \in T : TRUE BY <2>2
    <3>2. SumFunctionOnSet(F, T) = F[x] + SumFunctionOnSet(F, T \ {x}) BY <1>2, SumTakeOut
    <3>3. <<r, x>> \in {r} \X T /\ ({r} \X T) \ {<<r, x>>} = {r} \X (T \ {x}) OBVIOUS
    <3>4. SumFunctionOnSet(P, {r} \X T)
            = P[<<r, x>>] + SumFunctionOnSet(P, ({r} \X T) \ {<<r, x>>})
      BY <1>2, <3>3, SumTakeOut
    <3> QED BY <1>3, <3>1, <3>2, <3>3, <3>4
  <2> QED BY <2>1, <2>2
<1>4. S \in G
  <2> HIDE DEF G
  <2> QED BY <1>3, SetInduction
<1> QED BY <1>2, <1>4
=============================================================================
