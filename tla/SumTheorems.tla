----------------------------- MODULE SumTheorems -----------------------------
(***************************************************************************)
(* What a total over a finite set is worth: the facts that the proofs      *)
(* about balances, commitments and daily limits cite.                      *)
(*                                                                         *)
(* Total is a recursive function over the subsets of its set, chosen with  *)
(* CHOOSE.  What is known of it needs an induction, and the induction      *)
(* principles used here speak of sets rather than of operators: a set of   *)
(* numbers that holds 0 and the successor of each of its members is Nat    *)
(* (NatSteps), and a set of subsets of a finite S that holds {} and, with  *)
(* a member, every subset one larger holds S (SetSteps).  An induction     *)
(* over a formula is that principle for the set of what satisfies it.      *)
(***************************************************************************)
EXTENDS Totals, WellFoundedInduction, FiniteSetTheorems, TLAPS

-----------------------------------------------------------------------------
(* Induction over numbers and over finite sets. *)

\* A set of numbers that has a member has a least one.
LEMMA NatLeast == ASSUME NEW T \in SUBSET Nat, T # {} PROVE \E x \in T : \A y \in T : x <= y
<1> DEFINE R == OpToRel(<, Nat)
<1>1. IsWellFoundedOn(R, Nat)
  BY NatLessThanWellFounded
<1>2. \A p : p \in R <=> p \in Nat \X Nat /\ p[1] < p[2]
  BY DEF OpToRel
<1> HIDE DEF R
<1>3. \A x, y \in Nat : y < x => <<y, x>> \in R
  BY <1>2
<1>4. PICK x \in T : \A y \in T : ~(<<y, x>> \in R)
  BY <1>1, WFMin
<1>5. ASSUME NEW y \in T PROVE x <= y
  <2>1. x \in Nat /\ y \in Nat
    OBVIOUS
  <2>2. ~(y < x)
    BY <1>3, <1>4, <2>1
  <2> QED BY <2>1, <2>2
<1> QED BY <1>5

\* Induction over the numbers.
LEMMA NatSteps == ASSUME NEW T \in SUBSET Nat, 0 \in T, \A n \in T : n + 1 \in T PROVE T = Nat
<1> SUFFICES ASSUME Nat \ T # {} PROVE FALSE
  OBVIOUS
<1>1. PICK u \in Nat \ T : \A y \in Nat \ T : u <= y
  BY NatLeast
<1>2. u - 1 \in Nat /\ u - 1 < u
  BY <1>1
<1>3. u - 1 \in T
  BY <1>1, <1>2
<1>4. (u - 1) + 1 = u
  OBVIOUS
<1> QED BY <1>3, <1>4

\* Induction over a finite set, one element at a time.
LEMMA SetSteps ==
  ASSUME NEW S, IsFiniteSet(S), NEW F, {} \in F,
         \A s \in SUBSET S, x \in S : s \in F /\ x \notin s => s \cup {x} \in F
  PROVE  S \in F
<1> DEFINE T == {n \in Nat : \A s \in SUBSET S : Cardinality(s) = n => s \in F}
<1>1. 0 \in T
  <2>1. ASSUME NEW s \in SUBSET S, Cardinality(s) = 0 PROVE s \in F
    BY <2>1, FS_Subset, FS_EmptySet
  <2> QED BY <2>1
<1>2. ASSUME NEW n \in T PROVE n + 1 \in T
  <2>1. ASSUME NEW s \in SUBSET S, Cardinality(s) = n + 1 PROVE s \in F
    <3>1. IsFiniteSet(s)
      BY FS_Subset
    <3>2. s # {}
      BY <2>1, FS_EmptySet
    <3>3. PICK x \in s : TRUE
      BY <3>2
    <3>4. IsFiniteSet(s \ {x}) /\ Cardinality(s \ {x}) = n
      <4>1. n \in Nat
        OBVIOUS
      <4>2. IsFiniteSet(s \ {x}) /\ Cardinality(s \ {x}) = Cardinality(s) - 1
        BY <3>1, FS_RemoveElement
      <4> HIDE DEF T
      <4> QED BY <2>1, <4>1, <4>2
    <3>5. s \ {x} \in F
      BY <3>4
    <3>6. (s \ {x}) \cup {x} = s /\ x \in S /\ x \notin s \ {x}
      OBVIOUS
    <3>7. (s \ {x}) \cup {x} \in F
      BY <3>5, <3>6
    <3> QED BY <3>6, <3>7
  <2> QED BY <2>1
<1>3. T = Nat
  <2> HIDE DEF T
  <2>1. T \in SUBSET Nat
    BY DEF T
  <2> QED BY <1>1, <1>2, <2>1, NatSteps
<1>4. Cardinality(S) \in T
  BY <1>3, FS_CardinalityType
<1> QED BY <1>4

-----------------------------------------------------------------------------
(* The recursion that Total is. *)

Pick(s) == CHOOSE x \in s : TRUE

\* g adds up the amounts of every member of U, one picked element at a time.
Fold(amount, U, g) ==
  g = [s \in U |-> IF s = {} THEN 0 ELSE amount[Pick(s)] + g[s \ {Pick(s)}]]

\* Finite sets, with every set that is one element smaller.
Downward(U) == \A s \in U : IsFiniteSet(s) /\ \A x \in s : s \ {x} \in U

\* Two such functions agree where both are defined.
LEMMA FoldUnique ==
  ASSUME NEW amount, NEW S, IsFiniteSet(S), NEW U, NEW V, NEW g, NEW h, S \in U, S \in V, Downward(U), Downward(V),
         Fold(amount, U, g), Fold(amount, V, h)
  PROVE  g[S] = h[S]
<1> DEFINE T == {n \in Nat : \A s \in U \cap V : Cardinality(s) = n => g[s] = h[s]}
<1>1. \A s \in U \cap V : /\ g[s] = IF s = {} THEN 0 ELSE amount[Pick(s)] + g[s \ {Pick(s)}]
                          /\ h[s] = IF s = {} THEN 0 ELSE amount[Pick(s)] + h[s \ {Pick(s)}]
  <2> HIDE DEF Pick
  <2> QED BY DEF Fold
<1>2. 0 \in T
  <2>1. ASSUME NEW s \in U \cap V, Cardinality(s) = 0 PROVE g[s] = h[s]
    <3>1. s = {}
      BY <2>1, FS_EmptySet DEF Downward
    <3> QED BY <1>1, <3>1
  <2> QED BY <2>1
<1>3. ASSUME NEW n \in T PROVE n + 1 \in T
  <2>1. ASSUME NEW s \in U \cap V, Cardinality(s) = n + 1 PROVE g[s] = h[s]
    <3>1. IsFiniteSet(s) /\ s # {}
      BY <2>1, FS_EmptySet DEF Downward
    <3>2. Pick(s) \in s
      BY <3>1 DEF Pick
    <3>3. s \ {Pick(s)} \in U \cap V /\ Cardinality(s \ {Pick(s)}) = n
      <4>1. n \in Nat
        OBVIOUS
      <4>2. Cardinality(s \ {Pick(s)}) = Cardinality(s) - 1
        BY <3>1, <3>2, FS_RemoveElement
      <4>3. s \ {Pick(s)} \in U \cap V
        BY <3>2 DEF Downward
      <4> HIDE DEF T
      <4> QED BY <2>1, <4>1, <4>2, <4>3
    <3>4. g[s \ {Pick(s)}] = h[s \ {Pick(s)}]
      BY <3>3
    <3> QED BY <1>1, <3>1, <3>4
  <2> QED BY <2>1
<1>4. T = Nat
  <2> HIDE DEF T
  <2>1. T \in SUBSET Nat
    BY DEF T
  <2> QED BY <1>2, <1>3, <2>1, NatSteps
<1>5. Cardinality(S) \in T
  BY <1>4, FS_CardinalityType
<1> QED BY <1>5

\* There is one over the subsets of a finite set: grown from the sets of n to those of n + 1.
LEMMA FoldExists ==
  ASSUME NEW amount, NEW S, IsFiniteSet(S)
  PROVE  \E g : Fold(amount, SUBSET S, g)
<1> DEFINE L(n) == {s \in SUBSET S : Cardinality(s) <= n}
           T == {n \in Nat : \E g : Fold(amount, L(n), g)}
<1>0. ASSUME NEW s \in SUBSET S, s # {}
      PROVE  /\ Pick(s) \in s /\ IsFiniteSet(s) /\ Cardinality(s) \in Nat
             /\ s \ {Pick(s)} \in SUBSET S /\ Cardinality(s \ {Pick(s)}) = Cardinality(s) - 1
  <2>1. Pick(s) \in s
    BY <1>0 DEF Pick
  <2>2. IsFiniteSet(s)
    BY FS_Subset
  <2> QED BY <2>1, <2>2, FS_RemoveElement, FS_CardinalityType
<1>1. 0 \in T
  <2> DEFINE g == [s \in L(0) |-> 0]
  <2>1. ASSUME NEW s \in L(0) PROVE s = {}
    <3>1. IsFiniteSet(s) /\ Cardinality(s) \in Nat /\ Cardinality(s) <= 0
      BY FS_Subset, FS_CardinalityType
    <3>2. Cardinality(s) = 0
      BY <3>1
    <3> QED BY <3>1, <3>2, FS_EmptySet
  <2>2. g = [s \in L(0) |-> IF s = {} THEN 0 ELSE amount[Pick(s)] + g[s \ {Pick(s)}]]
    BY <2>1
  <2>3. Fold(amount, L(0), g)
    BY <2>2 DEF Fold
  <2> QED BY <2>3
<1>2. ASSUME NEW n \in T PROVE n + 1 \in T
  <2>1. PICK g : Fold(amount, L(n), g)
    OBVIOUS
  <2> DEFINE V(h, s) == IF s = {} THEN 0 ELSE amount[Pick(s)] + h[s \ {Pick(s)}]
             h == [s \in L(n + 1) |-> V(g, s)]
  <2>2. \A s \in L(n) : g[s] = V(g, s)
    BY <2>1 DEF Fold
  <2>3. \A s \in L(n) : s \in L(n + 1) /\ h[s] = g[s]
    BY <2>2, FS_Subset, FS_CardinalityType
  <2>4. ASSUME NEW s \in L(n + 1) PROVE V(h, s) = V(g, s)
    <3>1. CASE s = {}
      BY <3>1
    <3>2. CASE s # {}
      <4>1. s \ {Pick(s)} \in L(n)
        BY <1>0, <3>2
      <4>2. h[s \ {Pick(s)}] = g[s \ {Pick(s)}]
        BY <2>3, <4>1
      <4> HIDE DEF h, Pick
      <4> QED BY <4>2
    <3> QED BY <3>1, <3>2
  <2>5. h = [s \in L(n + 1) |-> V(h, s)]
    BY <2>4
  <2>6. Fold(amount, L(n + 1), h)
    BY <2>5 DEF Fold
  <2>7. n + 1 \in Nat
    OBVIOUS
  <2> HIDE DEF L
  <2> QED BY <2>6, <2>7
<1>3. T = Nat
  <2> HIDE DEF T
  <2>1. T \in SUBSET Nat
    BY DEF T
  <2> QED BY <1>1, <1>2, <2>1, NatSteps
<1>4. L(Cardinality(S)) = SUBSET S
  BY FS_Subset
<1>5. Cardinality(S) \in T
  BY <1>3, FS_CardinalityType
<1> QED BY <1>4, <1>5

\* So the function that Total chooses is one.
LEMMA TotalIsFold ==
  ASSUME NEW amount, NEW S, IsFiniteSet(S)
  PROVE  \E g : Fold(amount, SUBSET S, g) /\ Total(amount, S) = g[S]
<1> DEFINE iter == CHOOSE g : Fold(amount, SUBSET S, g)
<1>1. Total(amount, S) = iter[S]
  BY DEF Total, MapThenSumSet, MapThenFoldSet, Fold, Pick
<1>2. Fold(amount, SUBSET S, iter)
  <2> HIDE DEF Pick
  <2> QED BY FoldExists
<1> QED BY <1>1, <1>2

-----------------------------------------------------------------------------
(* Totals. *)

LEMMA TotalEmpty == ASSUME NEW amount PROVE Total(amount, {}) = 0
<1>1. IsFiniteSet({}) /\ {} \in SUBSET {}
  BY FS_EmptySet
<1>2. PICK g : Fold(amount, SUBSET {}, g) /\ Total(amount, {}) = g[{}]
  BY <1>1, TotalIsFold
<1> QED BY <1>1, <1>2 DEF Fold

\* The recursion, between totals.
LEMMA TotalPick ==
  ASSUME NEW amount, NEW S, IsFiniteSet(S), S # {}
  PROVE  Pick(S) \in S /\ Total(amount, S) = amount[Pick(S)] + Total(amount, S \ {Pick(S)})
<1> DEFINE R == S \ {Pick(S)}
<1>1. IsFiniteSet(R) /\ R \in SUBSET S /\ S \in SUBSET S
  BY FS_Subset
<1>2. PICK g : Fold(amount, SUBSET S, g) /\ Total(amount, S) = g[S]
  BY TotalIsFold
<1>3. PICK h : Fold(amount, SUBSET R, h) /\ Total(amount, R) = h[R]
  BY <1>1, TotalIsFold
<1>4. Downward(SUBSET S) /\ Downward(SUBSET R) /\ R \in SUBSET R
  BY <1>1, FS_Subset DEF Downward
<1>5. g[R] = h[R]
  <2> HIDE DEF R
  <2> QED BY <1>1, <1>2, <1>3, <1>4, FoldUnique
<1>6. g[S] = amount[Pick(S)] + g[R]
  BY <1>1, <1>2 DEF Fold
<1>7. Pick(S) \in S
  BY DEF Pick
<1> QED BY <1>2, <1>3, <1>5, <1>6, <1>7

\* The order of the additions does not matter: any element may come first.
LEMMA TotalAdds ==
  ASSUME NEW amount, NEW S, IsFiniteSet(S), \A x \in S : amount[x] \in Int
  PROVE  /\ Total(amount, S) \in Int
         /\ \A x \in S : Total(amount, S) = amount[x] + Total(amount, S \ {x})
<1> DEFINE Good(s) == /\ Total(amount, s) \in Int
                      /\ \A x \in s : /\ Total(amount, s \ {x}) \in Int
                                      /\ Total(amount, s) = amount[x] + Total(amount, s \ {x})
           T == {n \in Nat : \A s \in SUBSET S : Cardinality(s) = n => Good(s)}
<1>0. ASSUME NEW s \in SUBSET S
      PROVE  /\ IsFiniteSet(s) /\ Cardinality(s) \in Nat /\ (Cardinality(s) = 0 <=> s = {})
             /\ \A x \in s : s \ {x} \in SUBSET S /\ Cardinality(s \ {x}) = Cardinality(s) - 1
  <2>1. IsFiniteSet(s)
    BY FS_Subset
  <2> QED BY <2>1, FS_CardinalityType, FS_EmptySet, FS_RemoveElement
<1>1. 0 \in T
  <2>1. ASSUME NEW s \in SUBSET S, Cardinality(s) = 0 PROVE Good(s)
    <3>1. s = {}
      BY <1>0, <2>1
    <3> QED BY <3>1, TotalEmpty
  <2> HIDE DEF Good
  <2> QED BY <2>1
<1>2. ASSUME NEW n \in T PROVE n + 1 \in T
  <2>1. n \in Nat /\ \A s \in SUBSET S : Cardinality(s) = n => Good(s)
    OBVIOUS
  <2>2. ASSUME NEW s \in SUBSET S, Cardinality(s) = n + 1 PROVE Good(s)
    <3>1. s # {} /\ IsFiniteSet(s)
      BY <1>0, <2>1, <2>2
    <3> DEFINE p == Pick(s)
    <3>2. p \in s /\ Total(amount, s) = amount[p] + Total(amount, s \ {p})
      BY <3>1, TotalPick
    <3> HIDE DEF p, Good
    <3>3. \A x \in s : s \ {x} \in SUBSET S /\ Cardinality(s \ {x}) = n
      <4>1. (n + 1) - 1 = n
        BY <2>1
      <4> QED BY <1>0, <2>2, <4>1
    <3>4. \A x \in s : Good(s \ {x})
      BY <2>1, <3>3
    <3>5. \A x \in s : Total(amount, s \ {x}) \in Int /\ amount[x] \in Int
      BY <3>4 DEF Good
    <3>6. ASSUME NEW x \in s PROVE Total(amount, s) = amount[x] + Total(amount, s \ {x})
      <4>1. CASE x = p
        BY <3>2, <4>1
      <4>2. CASE x # p
        <5>1. x \in s \ {p} /\ p \in s \ {x} /\ (s \ {p}) \ {x} = (s \ {x}) \ {p}
          BY <3>2, <4>2
        <5>2. Total(amount, s \ {p}) = amount[x] + Total(amount, (s \ {p}) \ {x})
          BY <3>2, <3>4, <5>1 DEF Good
        <5>3. Total(amount, s \ {x}) = amount[p] + Total(amount, (s \ {x}) \ {p})
          BY <3>4, <5>1 DEF Good
        <5>4. Total(amount, (s \ {x}) \ {p}) \in Int
          BY <3>4, <5>1 DEF Good
        <5>5. Total(amount, s \ {p}) = amount[x] + Total(amount, (s \ {x}) \ {p})
          BY <5>1, <5>2
        <5>6. amount[p] \in Int /\ amount[x] \in Int
          BY <3>2, <3>5
        <5> QED BY <3>2, <5>3, <5>4, <5>5, <5>6
      <4> QED BY <4>1, <4>2
    <3>7. amount[p] + Total(amount, s \ {p}) \in Int
      BY <3>2, <3>5
    <3>8. Total(amount, s) \in Int
      BY <3>2, <3>7
    <3> HIDE DEF T
    <3> QED BY <3>5, <3>6, <3>8 DEF Good
  <2> HIDE DEF Good
  <2> QED BY <2>1, <2>2
<1>3. T = Nat
  <2> HIDE DEF T
  <2>1. T \in SUBSET Nat
    BY DEF T
  <2> QED BY <1>1, <1>2, <2>1, NatSteps
<1>4. Cardinality(S) \in T
  BY <1>3, FS_CardinalityType
<1> QED BY <1>4

LEMMA TotalInt ==
  ASSUME NEW amount, NEW S, IsFiniteSet(S), \A x \in S : amount[x] \in Int
  PROVE  Total(amount, S) \in Int
  BY TotalAdds

\* One element less, or one more.
LEMMA TotalWithout ==
  ASSUME NEW amount, NEW S, IsFiniteSet(S), \A x \in S : amount[x] \in Int, NEW x \in S
  PROVE  Total(amount, S \ {x}) = Total(amount, S) - amount[x]
<1>1. IsFiniteSet(S \ {x})
  BY FS_Subset
<1>2. Total(amount, S \ {x}) \in Int /\ amount[x] \in Int /\ Total(amount, S) \in Int
  BY <1>1, TotalInt
<1>3. Total(amount, S) = amount[x] + Total(amount, S \ {x})
  BY TotalAdds
<1> QED BY <1>2, <1>3

LEMMA TotalWith ==
  ASSUME NEW amount, NEW S, IsFiniteSet(S), \A x \in S : amount[x] \in Int, NEW y, y \notin S, amount[y] \in Int
  PROVE  Total(amount, S \cup {y}) = Total(amount, S) + amount[y]
<1>1. IsFiniteSet(S \cup {y})
  BY FS_AddElement
<1>2. (S \cup {y}) \ {y} = S
  OBVIOUS
<1>3. Total(amount, S \cup {y}) = amount[y] + Total(amount, (S \cup {y}) \ {y})
  BY <1>1, TotalAdds
<1>4. Total(amount, S \cup {y}) = amount[y] + Total(amount, S)
  BY <1>2, <1>3
<1>5. Total(amount, S) \in Int
  BY TotalInt
<1> QED BY <1>4, <1>5

\* Amounts that agree have the same total.
LEMMA TotalSame ==
  ASSUME NEW S, IsFiniteSet(S), NEW a, NEW b, \A x \in S : a[x] \in Int /\ b[x] = a[x]
  PROVE  Total(b, S) = Total(a, S)
<1> DEFINE F == {s \in SUBSET S : Total(b, s) = Total(a, s)}
<1>1. {} \in F
  BY TotalEmpty
<1>2. ASSUME NEW s \in SUBSET S, NEW x \in S, s \in F, x \notin s PROVE s \cup {x} \in F
  <2>1. IsFiniteSet(s)
    BY FS_Subset
  <2>2. Total(a, s \cup {x}) = Total(a, s) + a[x]
    BY <1>2, <2>1, TotalWith
  <2>3. Total(b, s \cup {x}) = Total(b, s) + b[x]
    BY <1>2, <2>1, TotalWith
  <2> QED BY <1>2, <2>2, <2>3
<1> HIDE DEF F
<1>3. S \in F
  BY <1>1, <1>2, SetSteps
<1> QED BY <1>3 DEF F

\* A part and the rest.
LEMMA TotalMinus ==
  ASSUME NEW amount, NEW S, IsFiniteSet(S), \A x \in S : amount[x] \in Int, NEW T \in SUBSET S
  PROVE  Total(amount, S \ T) = Total(amount, S) - Total(amount, T)
<1> DEFINE F == {t \in SUBSET T : Total(amount, S \ t) = Total(amount, S) - Total(amount, t)}
<1>0. IsFiniteSet(T) /\ Total(amount, S) \in Int
  BY FS_Subset, TotalInt
<1>1. {} \in F
  <2>1. S \ {} = S
    OBVIOUS
  <2> QED BY <1>0, <2>1, TotalEmpty
<1>2. ASSUME NEW t \in SUBSET T, NEW x \in T, t \in F, x \notin t PROVE t \cup {x} \in F
  <2>1. IsFiniteSet(t) /\ IsFiniteSet(S \ t) /\ x \in S \ t /\ S \ (t \cup {x}) = (S \ t) \ {x}
    BY <1>2, FS_Subset
  <2>2. Total(amount, t) \in Int /\ amount[x] \in Int
    BY <2>1, TotalInt
  <2>3. Total(amount, t \cup {x}) = Total(amount, t) + amount[x]
    BY <1>2, <2>1, TotalWith
  <2>4. Total(amount, (S \ t) \ {x}) = Total(amount, S \ t) - amount[x]
    BY <2>1, TotalWithout
  <2>5. Total(amount, S \ t) = Total(amount, S) - Total(amount, t)
    BY <1>2
  <2>6. Total(amount, S \ (t \cup {x})) = Total(amount, S) - Total(amount, t \cup {x})
    BY <1>0, <2>1, <2>2, <2>3, <2>4, <2>5
  <2> QED BY <2>6
<1> HIDE DEF F
<1>3. T \in F
  BY <1>0, <1>1, <1>2, SetSteps
<1> QED BY <1>3 DEF F

\* Amounts that are never negative have a total that is not.
LEMMA TotalNat ==
  ASSUME NEW amount, NEW S, IsFiniteSet(S), \A x \in S : amount[x] \in Nat
  PROVE  Total(amount, S) \in Nat
<1> DEFINE F == {s \in SUBSET S : Total(amount, s) \in Nat}
<1>1. {} \in F
  BY TotalEmpty
<1>2. ASSUME NEW s \in SUBSET S, NEW x \in S, s \in F, x \notin s PROVE s \cup {x} \in F
  <2>1. IsFiniteSet(s)
    BY FS_Subset
  <2>2. Total(amount, s \cup {x}) = Total(amount, s) + amount[x]
    BY <1>2, <2>1, TotalWith
  <2>3. Total(amount, s) \in Nat /\ amount[x] \in Nat
    BY <1>2
  <2>4. Total(amount, s \cup {x}) \in Nat
    BY <2>2, <2>3
  <2> QED BY <2>4
<1> HIDE DEF F
<1>3. S \in F
  BY <1>1, <1>2, SetSteps
<1> QED BY <1>3 DEF F

\* Nothing adds up to nothing.
LEMMA TotalZero ==
  ASSUME NEW amount, NEW S, IsFiniteSet(S), \A x \in S : amount[x] = 0
  PROVE  Total(amount, S) = 0
<1> DEFINE F == {s \in SUBSET S : Total(amount, s) = 0}
<1>1. {} \in F
  BY TotalEmpty
<1>2. ASSUME NEW s \in SUBSET S, NEW x \in S, s \in F, x \notin s PROVE s \cup {x} \in F
  <2>1. IsFiniteSet(s)
    BY FS_Subset
  <2>2. Total(amount, s \cup {x}) = Total(amount, s) + amount[x]
    BY <1>2, <2>1, TotalWith
  <2> QED BY <1>2, <2>2
<1> HIDE DEF F
<1>3. S \in F
  BY <1>1, <1>2, SetSteps
<1> QED BY <1>3 DEF F

\* Amounts that are nowhere greater have a total that is not.
LEMMA TotalMonotone ==
  ASSUME NEW S, IsFiniteSet(S), NEW a, NEW b, \A x \in S : a[x] \in Int /\ b[x] \in Int /\ b[x] <= a[x]
  PROVE  Total(b, S) <= Total(a, S)
<1> DEFINE F == {s \in SUBSET S : Total(b, s) <= Total(a, s)}
<1>1. {} \in F
  BY TotalEmpty
<1>2. ASSUME NEW s \in SUBSET S, NEW x \in S, s \in F, x \notin s PROVE s \cup {x} \in F
  <2>1. IsFiniteSet(s)
    BY FS_Subset
  <2>2. Total(a, s \cup {x}) = Total(a, s) + a[x]
    BY <1>2, <2>1, TotalWith
  <2>3. Total(b, s \cup {x}) = Total(b, s) + b[x]
    BY <1>2, <2>1, TotalWith
  <2>4. Total(a, s) \in Int /\ Total(b, s) \in Int
    BY <2>1, TotalInt
  <2>5. Total(b, s) <= Total(a, s)
    BY <1>2
  <2>6. Total(b, s \cup {x}) <= Total(a, s \cup {x})
    BY <2>2, <2>3, <2>4, <2>5
  <2> QED BY <2>6
<1> HIDE DEF F
<1>3. S \in F
  BY <1>1, <1>2, SetSteps
<1> QED BY <1>3 DEF F

\* Amounts of at most k have a total of at most k each.
LEMMA TotalMost ==
  ASSUME NEW amount, NEW S, IsFiniteSet(S), NEW k \in Nat, \A x \in S : amount[x] \in Int /\ amount[x] <= k
  PROVE  Total(amount, S) <= Cardinality(S) * k
<1> DEFINE F == {s \in SUBSET S : Total(amount, s) <= Cardinality(s) * k}
<1>1. {} \in F
  BY TotalEmpty, FS_EmptySet
<1>2. ASSUME NEW s \in SUBSET S, NEW x \in S, s \in F, x \notin s PROVE s \cup {x} \in F
  <2>1. IsFiniteSet(s) /\ Cardinality(s) \in Nat
    BY FS_Subset, FS_CardinalityType
  <2>2. Total(amount, s \cup {x}) = Total(amount, s) + amount[x] /\ Total(amount, s) \in Int
    BY <1>2, <2>1, TotalWith, TotalInt
  <2>3. Cardinality(s \cup {x}) = Cardinality(s) + 1
    BY <1>2, <2>1, FS_AddElement
  <2>4. Total(amount, s) <= Cardinality(s) * k
    BY <1>2
  <2>5. \A n \in Nat : (n + 1) * k = n * k + k /\ n * k \in Int
    OBVIOUS
  <2>6. Total(amount, s \cup {x}) <= Cardinality(s \cup {x}) * k
    <3>1. (Cardinality(s) + 1) * k = Cardinality(s) * k + k /\ Cardinality(s) * k \in Int
      BY <2>1, <2>5
    <3>2. \A t, a, c \in Int : t <= c /\ a <= k => t + a <= c + k
      OBVIOUS
    <3>3. amount[x] \in Int /\ amount[x] <= k
      OBVIOUS
    <3> QED BY <2>2, <2>3, <2>4, <3>1, <3>2, <3>3
  <2> QED BY <2>6
<1> HIDE DEF F
<1>3. S \in F
  BY <1>1, <1>2, SetSteps
<1> QED BY <1>3 DEF F

=============================================================================
