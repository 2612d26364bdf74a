---------------------------- MODULE SumTheorems ----------------------------
(***************************************************************************)
(* What the sums and maxima of the models are, for every finite set.       *)
(*                                                                         *)
(* This takes induction over a set.  It is done with the well-foundedness  *)
(* of the natural numbers, as the existence of a least counterexample, so  *)
(* that the property it is used for is a set and not an operator.          *)
(***************************************************************************)
EXTENDS Integers, Sequences, Functions, FiniteSetsExt, FiniteSetTheorems, WellFoundedInduction,
        TLAPS

(* Every set of natural numbers that is not empty has a least element. *)
LEMMA Least ==
    ASSUME NEW T \in SUBSET Nat, T # {}
    PROVE  \E n \in T : \A m \in T : n <= m
<1> DEFINE LT == {ss \in Nat \X Nat : ss[1] < ss[2]}
<1>1. IsWellFoundedOn(LT, Nat)
  BY NatLessThanWellFounded, Zenon DEF OpToRel
<1>2. PICK x \in T : \A y \in T : ~ (<<y, x>> \in LT)
  BY <1>1, WFMin
<1>3. ASSUME NEW m \in T PROVE x <= m
  <2>1. m \in Nat /\ x \in Nat /\ ~(<<m, x>> \in LT)
    BY <1>2
  <2>2. <<m, x>> \in Nat \X Nat
    BY <2>1
  <2>3. ~(m < x)
    BY <2>1, <2>2
  <2> QED
    BY <2>1, <2>3
<1> QED
  BY <1>3

(* Induction over the subsets of a finite set: what holds of a set when it *)
(* holds of its proper subsets holds of all.                               *)
LEMMA SubsetInduction ==
    ASSUME NEW S, IsFiniteSet(S), NEW P,
           \A T \in SUBSET S : (\A U \in SUBSET T : U # T => U \in P) => T \in P
    PROVE  \A T \in SUBSET S : T \in P
<1> SUFFICES ASSUME NEW T0 \in SUBSET S, T0 \notin P PROVE FALSE
  OBVIOUS
<1> DEFINE Bad == {T \in SUBSET S : T \notin P}
           Sizes == {Cardinality(T) : T \in Bad}
<1>1. ASSUME NEW T \in SUBSET S PROVE IsFiniteSet(T) /\ Cardinality(T) \in Nat
  BY FS_Subset, FS_CardinalityType
<1>2. Sizes \in SUBSET Nat /\ Sizes # {}
  BY <1>1
<1>3. PICK n \in Sizes : \A m \in Sizes : n <= m
  BY <1>2, Least
<1>4. PICK T \in Bad : Cardinality(T) = n
  OBVIOUS
<1>5. ASSUME NEW U \in SUBSET T, U # T PROVE U \in P
  <2>1. Cardinality(U) <= n /\ Cardinality(U) # n /\ Cardinality(U) \in Nat /\ n \in Nat
    BY <1>1, <1>4, <1>5, FS_Subset
  <2>2. Cardinality(U) \notin Sizes
    BY <1>3, <2>1
  <2> QED
    BY <2>2
<1> QED
  BY <1>4, <1>5

(* The greatest number of a set that is bounded. *)
LEMMA Greatest ==
    ASSUME NEW S \in SUBSET Nat, S # {}, NEW b \in Nat, \A x \in S : x <= b
    PROVE  Max(S) \in S /\ \A x \in S : x <= Max(S)
<1> DEFINE T == {b - x : x \in S}
<1>1. T \in SUBSET Nat /\ T # {}
  <2>1. ASSUME NEW x \in S PROVE b - x \in Nat
    <3>1. x \in Nat /\ x <= b
      OBVIOUS
    <3> QED
      BY <3>1
  <2> QED
    BY <2>1
<1>2. PICK n \in T : \A m \in T : n <= m
  BY <1>1, Least
<1>3. PICK x \in S : n = b - x
  OBVIOUS
<1>4. \A y \in S : x >= y
  <2> SUFFICES ASSUME NEW y \in S PROVE x >= y
    OBVIOUS
  <2>1. b - y \in T /\ x \in Nat /\ y \in Nat
    OBVIOUS
  <2>2. b - x <= b - y
    BY <1>2, <1>3, <2>1
  <2> QED
    BY <2>1, <2>2
<1>5. Max(S) \in S /\ \A y \in S : Max(S) >= y
  BY <1>4 DEF Max
<1> QED
  BY <1>5

(* The greater of two numbers. *)
LEMMA MaxOfTwo ==
    ASSUME NEW m \in Nat, NEW n \in Nat
    PROVE  Max({m, n}) \in {m, n} /\ m <= Max({m, n}) /\ n <= Max({m, n})
<1>1. {m, n} \in SUBSET Nat /\ \A x \in {m, n} : x <= m + n
  OBVIOUS
<1> QED
  BY <1>1, Greatest

(* The numbers of a sequence are bounded. *)
LEMMA SequenceBounded ==
    ASSUME NEW s \in Seq(Nat)
    PROVE  \E b \in Nat : \A i \in 1..Len(s) : s[i] <= b
<1> DEFINE Bound(n) == \E b \in Nat : \A i \in 1..n : s[i] <= b
           Bad == {n \in 0..Len(s) : ~Bound(n)}
<1> SUFFICES Bad = {}
  <2>1. Len(s) \in 0..Len(s)
    OBVIOUS
  <2> QED
    BY <2>1
<1> SUFFICES ASSUME Bad # {} PROVE FALSE
  OBVIOUS
<1>1. PICK n \in Bad : \A m \in Bad : n <= m
  <2>1. Bad \in SUBSET Nat
    OBVIOUS
  <2> QED
    BY <2>1, Least
<1>2. n # 0
  <2>1. Bound(0)
    <3>1. 0 \in Nat /\ 1..0 = {}
      OBVIOUS
    <3> QED
      BY <3>1
  <2> QED
    BY <2>1
<1>3. n \in 0..Len(s) /\ ~Bound(n)
  OBVIOUS
<1>4. \A m \in 0..Len(s) : ~Bound(m) => n <= m
  BY <1>1
<1> HIDE DEF Bad, Bound
<1>5. n \in 1..Len(s) /\ n - 1 \in 0..Len(s) /\ ~(n <= n - 1) /\ s[n] \in Nat
  BY <1>2, <1>3
<1>6. PICK b \in Nat : \A i \in 1..(n - 1) : s[i] <= b
  BY <1>4, <1>5 DEF Bound
<1>7. b + s[n] \in Nat
  BY <1>5
<1>8. \A i \in 1..n : s[i] <= b + s[n]
  <2> SUFFICES ASSUME NEW i \in 1..n PROVE s[i] <= b + s[n]
    OBVIOUS
  <2>1. s[i] \in Nat
    BY <1>5
  <2>2. CASE i = n
    BY <1>5, <2>2
  <2>3. CASE i # n
    <3>1. i \in 1..(n - 1)
      BY <1>5, <2>3
    <3> QED
      BY <1>5, <1>6, <2>1, <3>1
  <2> QED
    BY <2>2, <2>3
<1> QED
  BY <1>3, <1>7, <1>8 DEF Bound

-----------------------------------------------------------------------------
(* The sum of a function over a set. *)

Pick(s) == CHOOSE x \in s : TRUE

(* g is the recursive function behind SumFunctionOnSet(f, S). *)
Sums(g, f, S) ==
    g = [s \in SUBSET S |-> IF s = {} THEN 0 ELSE f[Pick(s)] + g[s \ {Pick(s)}]]

(* The library's sum is the value of that function. *)
LEMMA SumChosen ==
    ASSUME NEW f, NEW S
    PROVE  SumFunctionOnSet(f, S) = (CHOOSE g : Sums(g, f, S))[S]
  BY Zenon DEF SumFunctionOnSet, FoldFunctionOnSet, MapThenFoldSet, Sums, Pick

(* The equation has one solution on the subsets of a finite set, the sums. *)
LEMMA SumsSolved ==
    ASSUME NEW f, NEW S, IsFiniteSet(S)
    PROVE  \A T \in SUBSET S : \A g : Sums(g, f, T) <=> g = [s \in SUBSET T |-> SumFunctionOnSet(f, s)]
<1> DEFINE F(s) == SumFunctionOnSet(f, s)
           Solved(T) == \A g : Sums(g, f, T) <=> g = [s \in SUBSET T |-> F(s)]
           P == {T \in SUBSET S : Solved(T)}
<1>1. ASSUME NEW T \in SUBSET S, \A U \in SUBSET T : U # T => U \in P
      PROVE  T \in P
  <2> DEFINE Total(s) == IF s = {} THEN 0 ELSE f[Pick(s)] + F(s \ {Pick(s)})
             H == [s \in SUBSET T |-> Total(s)]
  <2>0. ASSUME NEW s \in SUBSET T, s # {}
        PROVE  s \ {Pick(s)} \in SUBSET T /\ s \ {Pick(s)} # T
    BY <2>0 DEF Pick
  <2>1. ASSUME NEW U \in SUBSET T, U # T PROVE F(U) = Total(U)
    <3>1. Sums([s \in SUBSET U |-> F(s)], f, U)
      BY <1>1, <2>1
    <3> HIDE DEF F
    <3> QED
      BY <3>1 DEF Sums
  <2> HIDE DEF F
  <2>2. ASSUME NEW g, Sums(g, f, T), NEW U \in SUBSET T, U # T PROVE g[U] = F(U)
    <3>1. Sums([s \in SUBSET U |-> g[s]], f, U)
      BY <2>2 DEF Sums
    <3>2. [s \in SUBSET U |-> g[s]] = [s \in SUBSET U |-> F(s)]
      BY <1>1, <2>2, <3>1
    <3> QED
      BY <3>2
  <2>3. Sums(H, f, T)
    <3>1. ASSUME NEW s \in SUBSET T, s # {} PROVE F(s \ {Pick(s)}) = H[s \ {Pick(s)}]
      BY <2>0, <2>1, <3>1
    <3> QED
      BY <3>1 DEF Sums
  <2>4. ASSUME NEW g, Sums(g, f, T) PROVE g = H
    <3>1. ASSUME NEW s \in SUBSET T, s # {} PROVE g[s \ {Pick(s)}] = F(s \ {Pick(s)})
      BY <2>0, <2>2, <2>4, <3>1
    <3> QED
      BY <2>4, <3>1 DEF Sums
  <2>5. F(T) = H[T]
    <3>1. (CHOOSE g : Sums(g, f, T)) = H
      BY <2>3, <2>4
    <3> QED
      BY <3>1, SumChosen DEF F
  <2>6. H = [s \in SUBSET T |-> F(s)]
    BY <2>1, <2>5
  <2> QED
    BY <2>3, <2>4, <2>6
<1> HIDE DEF P
<1>2. \A T \in SUBSET S : T \in P
  BY <1>1, SubsetInduction
<1> QED
  BY <1>2 DEF P

(* What a sum is: nothing, or one element and the rest. *)
LEMMA SumUnfold ==
    ASSUME NEW f, NEW S, IsFiniteSet(S)
    PROVE  /\ SumFunctionOnSet(f, {}) = 0
           /\ S # {} => Pick(S) \in S
                        /\ SumFunctionOnSet(f, S) = f[Pick(S)] + SumFunctionOnSet(f, S \ {Pick(S)})
<1> DEFINE F(s) == SumFunctionOnSet(f, s)
<1>1. Sums([s \in SUBSET S |-> F(s)], f, S)
  BY SumsSolved
<1> HIDE DEF F
<1>2. F({}) = 0 /\ (S # {} => F(S) = f[Pick(S)] + F(S \ {Pick(S)}))
  BY <1>1 DEF Sums
<1> QED
  BY <1>2 DEF F, Pick

(* A sum of natural numbers is one. *)
LEMMA SumNat ==
    ASSUME NEW f, NEW S, IsFiniteSet(S), \A x \in S : f[x] \in Nat
    PROVE  \A T \in SUBSET S : SumFunctionOnSet(f, T) \in Nat
<1> DEFINE P == {T \in SUBSET S : SumFunctionOnSet(f, T) \in Nat}
<1>1. ASSUME NEW T \in SUBSET S, \A U \in SUBSET T : U # T => U \in P
      PROVE  T \in P
  <2>1. IsFiniteSet(T)
    BY FS_Subset
  <2>2. CASE T = {}
    <3>1. SumFunctionOnSet(f, {}) = 0
      BY FS_EmptySet, SumUnfold
    <3> QED
      BY <2>2, <3>1
  <2>3. CASE T # {}
    <3>1. Pick(T) \in T /\ SumFunctionOnSet(f, T) = f[Pick(T)] + SumFunctionOnSet(f, T \ {Pick(T)})
      BY <2>1, <2>3, SumUnfold
    <3>2. SumFunctionOnSet(f, T \ {Pick(T)}) \in Nat
      BY <1>1, <3>1
    <3> QED
      BY <3>1, <3>2
  <2> QED
    BY <2>2, <2>3
<1> HIDE DEF P
<1>2. \A T \in SUBSET S : T \in P
  BY <1>1, SubsetInduction
<1> QED
  BY <1>2 DEF P

(* Any element may be taken out first. *)
LEMMA SumRemove ==
    ASSUME NEW f, NEW S, IsFiniteSet(S), \A x \in S : f[x] \in Nat
    PROVE  \A T \in SUBSET S : \A x \in T :
              SumFunctionOnSet(f, T) = f[x] + SumFunctionOnSet(f, T \ {x})
<1> DEFINE F(s) == SumFunctionOnSet(f, s)
           P == {T \in SUBSET S : \A x \in T : F(T) = f[x] + F(T \ {x})}
<1>1. \A T \in SUBSET S : F(T) \in Nat
  BY SumNat
<1>2. ASSUME NEW T \in SUBSET S, T # {}
      PROVE  Pick(T) \in T /\ F(T) = f[Pick(T)] + F(T \ {Pick(T)})
  BY <1>2, FS_Subset, SumUnfold
<1> HIDE DEF F
<1>3. ASSUME NEW T \in SUBSET S, \A U \in SUBSET T : U # T => U \in P
      PROVE  T \in P
  <2> SUFFICES ASSUME NEW x \in T, x # Pick(T) PROVE F(T) = f[x] + F(T \ {x})
    BY <1>2
  <2> DEFINE a == Pick(T)
             R == (T \ {a}) \ {x}
  <2>1. a \in T /\ F(T) = f[a] + F(T \ {a})
    BY <1>2
  <2> HIDE DEF a
  <2>2. T \ {a} \in P /\ T \ {x} \in P
    BY <1>3, <2>1
  <2>3. F(T \ {a}) = f[x] + F(R)
    BY <2>1, <2>2 DEF a
  <2>4. F(T \ {x}) = f[a] + F(R)
    <3>1. R = (T \ {x}) \ {a}
      OBVIOUS
    <3>2. a \in T \ {x}
      BY <2>1 DEF a
    <3> QED
      BY <2>2, <3>1, <3>2
  <2>5. f[x] \in Nat /\ f[a] \in Nat /\ F(R) \in Nat
    BY <1>1, <2>1
  <2> HIDE DEF R
  <2> QED
    BY <2>1, <2>3, <2>4, <2>5
<1> HIDE DEF P
<1>4. \A T \in SUBSET S : T \in P
  BY <1>3, SubsetInduction
<1> QED
  BY <1>4 DEF P, F

(* A sum depends on the values it adds only. *)
LEMMA SumSame ==
    ASSUME NEW f, NEW g, NEW S, IsFiniteSet(S), \A x \in S : f[x] = g[x]
    PROVE  \A T \in SUBSET S : SumFunctionOnSet(f, T) = SumFunctionOnSet(g, T)
<1> DEFINE P == {T \in SUBSET S : SumFunctionOnSet(f, T) = SumFunctionOnSet(g, T)}
<1>1. ASSUME NEW T \in SUBSET S, \A U \in SUBSET T : U # T => U \in P
      PROVE  T \in P
  <2>1. IsFiniteSet(T)
    BY FS_Subset
  <2>2. CASE T = {}
    BY <2>1, <2>2, SumUnfold
  <2>3. CASE T # {}
    <3>1. /\ Pick(T) \in T
          /\ SumFunctionOnSet(f, T) = f[Pick(T)] + SumFunctionOnSet(f, T \ {Pick(T)})
          /\ SumFunctionOnSet(g, T) = g[Pick(T)] + SumFunctionOnSet(g, T \ {Pick(T)})
      BY <2>1, <2>3, SumUnfold
    <3>2. SumFunctionOnSet(f, T \ {Pick(T)}) = SumFunctionOnSet(g, T \ {Pick(T)})
      BY <1>1, <3>1
    <3> QED
      BY <3>1, <3>2
  <2> QED
    BY <2>2, <2>3
<1> HIDE DEF P
<1>2. \A T \in SUBSET S : T \in P
  BY <1>1, SubsetInduction
<1> QED
  BY <1>2 DEF P

(* One more in one place is one more in the sum. *)
LEMMA SumOneMore ==
    ASSUME NEW f, NEW g, NEW S, IsFiniteSet(S), \A y \in S : f[y] \in Nat,
           NEW x \in S, g[x] = f[x] + 1, \A y \in S \ {x} : g[y] = f[y]
    PROVE  SumFunctionOnSet(g, S) = SumFunctionOnSet(f, S) + 1
<1>1. IsFiniteSet(S \ {x}) /\ S \in SUBSET S /\ \A y \in S : g[y] \in Nat
  BY FS_RemoveElement
<1>2. SumFunctionOnSet(f, S) = f[x] + SumFunctionOnSet(f, S \ {x})
  BY <1>1, SumRemove
<1>3. SumFunctionOnSet(g, S) = g[x] + SumFunctionOnSet(g, S \ {x})
  BY <1>1, SumRemove
<1>4. SumFunctionOnSet(f, S \ {x}) = SumFunctionOnSet(g, S \ {x})
  BY <1>1, SumSame
<1>5. SumFunctionOnSet(f, S \ {x}) \in Nat
  BY SumNat
<1> QED
  BY <1>2, <1>3, <1>4, <1>5

(* Nothing adds up to nothing. *)
LEMMA SumZero ==
    ASSUME NEW f, NEW S, IsFiniteSet(S), \A x \in S : f[x] = 0
    PROVE  \A T \in SUBSET S : SumFunctionOnSet(f, T) = 0
<1> DEFINE P == {T \in SUBSET S : SumFunctionOnSet(f, T) = 0}
<1>1. ASSUME NEW T \in SUBSET S, \A U \in SUBSET T : U # T => U \in P
      PROVE  T \in P
  <2>1. IsFiniteSet(T)
    BY FS_Subset
  <2>2. CASE T = {}
    BY <2>1, <2>2, SumUnfold
  <2>3. CASE T # {}
    <3>1. Pick(T) \in T /\ SumFunctionOnSet(f, T) = f[Pick(T)] + SumFunctionOnSet(f, T \ {Pick(T)})
      BY <2>1, <2>3, SumUnfold
    <3>2. SumFunctionOnSet(f, T \ {Pick(T)}) = 0
      BY <1>1, <3>1
    <3> QED
      BY <3>1, <3>2
  <2> QED
    BY <2>2, <2>3
<1> HIDE DEF P
<1>2. \A T \in SUBSET S : T \in P
  BY <1>1, SubsetInduction
<1> QED
  BY <1>2 DEF P
=============================================================================
