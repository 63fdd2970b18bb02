--------------------------- MODULE ExtremaLemmas ----------------------------
(***************************************************************************)
(* Least and greatest elements of sets of integers, for the modules that   *)
(* pick the first or the last index with some property; folds and sums.    *)
(***************************************************************************)
EXTENDS Integers, SequencesExt, FiniteSetsExt, WellFoundedInduction,
        FiniteSetTheorems, SequenceTheorems, TLAPS

(* A lower bound that is attained is the minimum, an upper bound the       *)
(* maximum.                                                                *)
LEMMA MinIs ==
  ASSUME NEW S \in SUBSET Int, NEW m \in S, \A i \in S : m <= i
  PROVE  Min(S) = m
<1>1. \E x \in S : \A y \in S : x =< y
  OBVIOUS
<1>2. Min(S) \in S /\ \A y \in S : Min(S) =< y
  BY <1>1, Zenon DEF Min
<1>3. Min(S) \in Int /\ m \in Int
  BY <1>2
<1>4. Min(S) <= m /\ m <= Min(S)
  BY <1>2
<1> QED
  BY <1>3, <1>4

LEMMA MaxIs ==
  ASSUME NEW S \in SUBSET Int, NEW m \in S, \A i \in S : m >= i
  PROVE  Max(S) = m
<1>1. \E x \in S : \A y \in S : x >= y
  OBVIOUS
<1>2. Max(S) \in S /\ \A y \in S : Max(S) >= y
  BY <1>1, Zenon DEF Max
<1>3. Max(S) \in Int /\ m \in Int
  BY <1>2
<1>4. Max(S) >= m /\ m >= Max(S)
  BY <1>2
<1> QED
  BY <1>3, <1>4

(* A nonempty set of naturals has a least element. *)
LEMMA NatSetHasLeast ==
  ASSUME NEW S \in SUBSET Nat, S # {}
  PROVE  \E m \in S : \A i \in S : m <= i
<1> DEFINE R == OpToRel(<, Nat)
<1>1. IsWellFoundedOn(R, Nat)
  BY NatLessThanWellFounded
<1>2. \A x, y \in Nat : x < y => <<x, y>> \in R
  BY DEF OpToRel
<1> HIDE DEF R
<1>3. PICK m \in S : \A i \in S : ~(<<i, m>> \in R)
  BY <1>1, WFMin
<1>4. \A i \in S : i \in Nat
  OBVIOUS
<1>5. \A i \in S : ~(i < m)
  BY <1>2, <1>3, <1>4
<1>6. \A i \in S : m <= i
  BY <1>4, <1>5
<1> QED
  BY <1>6

LEMMA MinExists ==
  ASSUME NEW S \in SUBSET Nat, S # {}
  PROVE  /\ Min(S) \in S
         /\ \A i \in S : Min(S) <= i
<1>1. PICK m \in S : \A i \in S : m <= i
  BY NatSetHasLeast
<1>2. Min(S) = m
  BY <1>1, MinIs, S \in SUBSET Int
<1> QED
  BY <1>1, <1>2

(* A nonempty set of integers with an upper bound has a greatest element.  *)
LEMMA MaxExists ==
  ASSUME NEW b \in Int, NEW S \in SUBSET Int, S # {}, \A i \in S : i <= b
  PROVE  /\ Max(S) \in S
         /\ \A i \in S : i <= Max(S)
<1> DEFINE D == {b - i : i \in S}
<1>1. \A i \in S : i \in Int /\ b - i \in Nat
  OBVIOUS
<1>2. D \in SUBSET Nat /\ D # {}
  BY <1>1
<1>3. \A i \in S : b - i \in D
  OBVIOUS
<1>4. PICK d \in D : \A e \in D : d <= e
  BY <1>2, NatSetHasLeast
<1>5. PICK m \in S : d = b - m
  BY <1>4
<1>6. \A i \in S : b - m <= b - i
  BY <1>3, <1>4, <1>5
<1>7. \A i \in S : m >= i
  BY <1>1, <1>6
<1>8. Max(S) = m
  BY <1>7, MaxIs
<1> QED
  BY <1>1, <1>7, <1>8

-----------------------------------------------------------------------------
(***************************************************************************)
(* Folds. What a fold computes is a function on the subsets of the set it  *)
(* goes over; a set that holds 0 and the successor of what it holds is all *)
(* of Nat, which is how its values are reasoned about.                     *)
(***************************************************************************)
LEMMA SetInduction ==
  ASSUME NEW S, 0 \in S, \A n \in Nat : n \in S => n + 1 \in S
  PROVE  \A n \in Nat : n \in S
<1> DEFINE Bad == {n \in Nat : n \notin S}
<1>1. SUFFICES ASSUME Bad # {}  PROVE FALSE
  OBVIOUS
<1>2. PICK m \in Bad : \A i \in Bad : m <= i
  BY <1>1, NatSetHasLeast
<1>3. m # 0 /\ m \in Nat
  OBVIOUS
<1>4. m - 1 \in Nat /\ ~(m <= m - 1) /\ (m - 1) + 1 = m
  BY <1>3
<1>5. m - 1 \in S
  BY <1>2, <1>4
<1> QED
  BY <1>4, <1>5

(* Taking the chosen element out of a finite set makes it smaller.         *)
LEMMA SmallerRest ==
  ASSUME NEW D, IsFiniteSet(D), NEW s \in SUBSET D, NEW x \in s
  PROVE  /\ s \ {x} \in SUBSET D
         /\ Cardinality(s) \in Nat /\ Cardinality(s \ {x}) \in Nat
         /\ Cardinality(s \ {x}) = Cardinality(s) - 1
<1>1. IsFiniteSet(s)
  BY FS_Subset
<1>2. Cardinality(s) \in Nat
  BY <1>1, FS_CardinalityType
<1>3. IsFiniteSet(s \ {x}) /\ Cardinality(s \ {x}) = Cardinality(s) - 1
  BY <1>1, FS_RemoveElement
<1>4. Cardinality(s \ {x}) \in Nat
  BY <1>3, FS_CardinalityType
<1> QED
  BY <1>2, <1>3, <1>4

(* A fold is defined: the recursion over the subsets of a finite set, one  *)
(* chosen element c[s] after the other, has a solution.                    *)
FoldsTo(D, V, base, c, op) ==
  \E f \in [SUBSET D -> V] : \A s \in SUBSET D :
    f[s] = IF s = {} THEN base ELSE op[f[s \ {c[s]}]][c[s]]

LEMMA FoldExists ==
  ASSUME NEW D, IsFiniteSet(D), NEW V, NEW base \in V,
         NEW c, \A s \in SUBSET D : s # {} => c[s] \in s,
         NEW op, \A v \in V, x \in D : op[v][x] \in V
  PROVE  FoldsTo(D, V, base, c, op)
<1> DEFINE Small(n) == {s \in SUBSET D : Cardinality(s) <= n}
           Solves(f, n) == /\ f \in [Small(n) -> V]
                           /\ \A s \in Small(n) :
                                f[s] = IF s = {} THEN base ELSE op[f[s \ {c[s]}]][c[s]]
           Solved == {n \in Nat : \E f : Solves(f, n)}
<1>1. \A s \in SUBSET D : Cardinality(s) \in Nat
  BY FS_Subset, FS_CardinalityType
<1>2. 0 \in Solved
  <2> DEFINE f == [s \in Small(0) |-> base]
  <2>1. \A s \in Small(0) : s = {}
    <3> SUFFICES ASSUME NEW s \in Small(0), s # {}  PROVE FALSE
      OBVIOUS
    <3>1. c[s] \in s
      OBVIOUS
    <3>2. Cardinality(s) \in Nat /\ Cardinality(s \ {c[s]}) \in Nat
          /\ Cardinality(s \ {c[s]}) = Cardinality(s) - 1
      BY <3>1, SmallerRest
    <3>3. Cardinality(s) <= 0
      OBVIOUS
    <3> QED
      BY <3>2, <3>3
  <2>2. Solves(f, 0)
    BY <2>1
  <2> QED
    BY <2>2
<1>3. ASSUME NEW n \in Nat, n \in Solved
      PROVE  n + 1 \in Solved
  <2>1. PICK f : Solves(f, n)
    BY <1>3
  <2> DEFINE g == [s \in Small(n + 1) |->
                     IF s = {} THEN base ELSE op[f[s \ {c[s]}]][c[s]]]
  <2>2. \A s \in Small(n + 1) : s # {} => c[s] \in D /\ s \ {c[s]} \in Small(n)
    <3> SUFFICES ASSUME NEW s \in Small(n + 1), s # {}
                 PROVE  c[s] \in D /\ s \ {c[s]} \in Small(n)
      OBVIOUS
    <3>1. c[s] \in s
      OBVIOUS
    <3>2. /\ s \ {c[s]} \in SUBSET D
          /\ Cardinality(s) \in Nat /\ Cardinality(s \ {c[s]}) \in Nat
          /\ Cardinality(s \ {c[s]}) = Cardinality(s) - 1
      BY <3>1, SmallerRest
    <3>3. Cardinality(s) <= n + 1
      OBVIOUS
    <3> QED
      BY <3>1, <3>2, <3>3
  <2>3. \A s \in Small(n) : s \in Small(n + 1)
    BY <1>1
  <2>4. \A s \in Small(n) : g[s] = f[s]
    BY <2>1, <2>3
  <2>5. g \in [Small(n + 1) -> V]
    BY <2>1, <2>2
  <2>6. \A s \in Small(n + 1) : g[s] = IF s = {} THEN base ELSE op[g[s \ {c[s]}]][c[s]]
    BY <2>2, <2>4
  <2>7. Solves(g, n + 1)
    BY <2>5, <2>6
  <2> HIDE DEF g, Solves
  <2> QED
    BY <2>7
<1>4. \A n \in Nat : n \in Solved
  BY <1>2, <1>3, SetInduction
<1>5. Cardinality(D) \in Nat /\ \A s \in SUBSET D : Cardinality(s) <= Cardinality(D)
  BY FS_Subset, FS_CardinalityType
<1>6. PICK f : Solves(f, Cardinality(D))
  BY <1>4, <1>5
<1>7. Small(Cardinality(D)) = SUBSET D
  BY <1>5
<1> QED
  BY <1>6, <1>7 DEF FoldsTo

(* Induction over the subsets of a finite set, by one element less.        *)
Hereditary(D, Good) == \A s \in SUBSET D : (\A x \in s : s \ {x} \in Good) => s \in Good

LEMMA SubsetInduction ==
  ASSUME NEW D, IsFiniteSet(D), NEW Good, Hereditary(D, Good)
  PROVE  SUBSET D \subseteq Good
<1> USE DEF Hereditary
<1> DEFINE Whole == {n \in Nat : \A s \in SUBSET D : Cardinality(s) = n => s \in Good}
<1>1. 0 \in Whole
  <2>1. \A s \in SUBSET D : Cardinality(s) = 0 => s = {}
    BY FS_Subset, FS_EmptySet
  <2> QED
    BY <2>1
<1>2. ASSUME NEW n \in Nat, n \in Whole
      PROVE  n + 1 \in Whole
  <2> SUFFICES ASSUME NEW s \in SUBSET D, Cardinality(s) = n + 1
               PROVE  s \in Good
    OBVIOUS
  <2>1. ASSUME NEW x \in s  PROVE s \ {x} \in Good
    <3>1. s \ {x} \in SUBSET D /\ Cardinality(s \ {x}) = n
      BY SmallerRest
    <3> QED
      BY <1>2, <3>1
  <2> QED
    BY <2>1
<1>3. \A n \in Nat : n \in Whole
  BY <1>1, <1>2, SetInduction
<1>4. \A s \in SUBSET D : Cardinality(s) \in Nat
  BY FS_Subset, FS_CardinalityType
<1> QED
  BY <1>3, <1>4

(* Appending adds one member.                                              *)
LEMMA AppendMembers ==
  ASSUME NEW S, NEW seq \in Seq(S), NEW x \in S
  PROVE  ToSet(Append(seq, x)) = ToSet(seq) \cup {x}
<1> DEFINE more == Append(seq, x)  n == Len(seq)
<1>1. n \in Nat /\ DOMAIN seq = 1 .. n
  BY LenProperties
<1>2. DOMAIN more = 1 .. n + 1 /\ more[n + 1] = x /\ \A i \in 1 .. n : more[i] = seq[i]
  OBVIOUS
<1>3. 1 .. n + 1 = (1 .. n) \cup {n + 1} /\ n + 1 \notin 1 .. n
  BY <1>1
<1> HIDE DEF more, n
<1>4. \A y : (\E i \in 1 .. n + 1 : more[i] = y) <=> (y = x \/ \E i \in 1 .. n : seq[i] = y)
  BY <1>2, <1>3
<1> QED
  BY <1>1, <1>2, <1>4 DEF ToSet, more

(* A fold from the left takes the greatest of the indices left last.       *)
LEMMA LastFirst ==
  ASSUME NEW R, NEW rows \in Seq(R)
  PROVE  /\ IsFiniteSet(DOMAIN rows)
         /\ \A s \in SUBSET DOMAIN rows : s # {} => Max(s) \in s
<1>1. DOMAIN rows = 1 .. Len(rows) /\ Len(rows) \in Nat
  BY LenProperties
<1>2. IsFiniteSet(DOMAIN rows)
  BY <1>1, FS_Interval
<1>3. ASSUME NEW s \in SUBSET DOMAIN rows, s # {}
      PROVE  Max(s) \in s
  <2>1. s \in SUBSET Int /\ Len(rows) \in Int /\ \A i \in s : i <= Len(rows)
    BY <1>1
  <2> QED
    BY <1>3, <2>1, MaxExists
<1> QED
  BY <1>2, <1>3

-----------------------------------------------------------------------------
(* Sums over a finite set, of the values of a function.                    *)
Picked(s) == CHOOSE x \in s : TRUE

SumsTo(F, g) ==
  /\ g \in [SUBSET DOMAIN F -> Int]
  /\ g[DOMAIN F] = SumFunction(F)
  /\ g[{}] = 0
  /\ \A s \in SUBSET DOMAIN F : s # {} =>
       g[s] = F[Picked(s)] + g[s \ {Picked(s)}]

LEMMA SumRecursion ==
  ASSUME NEW D, IsFiniteSet(D), NEW F \in [D -> Int]
  PROVE  \E g : SumsTo(F, g)
<1> DEFINE Pick(s) == CHOOSE x \in s : TRUE
           Rec(g) == g = [s \in SUBSET D |-> IF s = {} THEN 0 ELSE F[Pick(s)] + g[s \ {Pick(s)}]]
           iter == CHOOSE g : Rec(g)
           c == [s \in SUBSET D |-> Pick(s)]
           op == [v \in Int |-> [x \in D |-> F[x] + v]]
<1>1. \A s : s # {} => Pick(s) \in s
  OBVIOUS
<1>2. SumFunction(F) = iter[D] /\ DOMAIN F = D
  BY DEF SumFunction, SumFunctionOnSet, FoldFunctionOnSet, MapThenFoldSet
<1> HIDE DEF Pick
<1>3. PICK f \in [SUBSET D -> Int] : \A s \in SUBSET D :
        f[s] = IF s = {} THEN 0 ELSE op[f[s \ {c[s]}]][c[s]]
  <2>1. \A s \in SUBSET D : s # {} => c[s] \in s
    BY <1>1
  <2>2. \A v \in Int, x \in D : op[v][x] \in Int
    OBVIOUS
  <2>3. 0 \in Int
    OBVIOUS
  <2> HIDE DEF c, op
  <2>4. FoldsTo(D, Int, 0, c, op)
    BY <2>1, <2>2, <2>3, FoldExists
  <2> QED
    BY <2>4 DEF FoldsTo
<1>4. \A s \in SUBSET D : f[s] = IF s = {} THEN 0 ELSE F[Pick(s)] + f[s \ {Pick(s)}]
  BY <1>1, <1>3
<1>5. Rec(iter)
  <2>1. f = [s \in SUBSET D |-> f[s]]
    OBVIOUS
  <2>2. Rec(f)
    BY <1>4, <2>1
  <2> HIDE DEF Rec
  <2> QED
    BY <2>2
<1>6. \A s \in SUBSET D : iter[s] = IF s = {} THEN 0 ELSE F[Pick(s)] + iter[s \ {Pick(s)}]
  <2> DEFINE it == iter
  <2>1. Rec(it)
    BY <1>5
  <2> HIDE DEF it
  <2>2. \A s \in SUBSET D : it[s] = IF s = {} THEN 0 ELSE F[Pick(s)] + it[s \ {Pick(s)}]
    BY <2>1
  <2> QED
    BY <2>2 DEF it
<1>7. iter = [s \in SUBSET D |-> iter[s]]
  <2> DEFINE it == iter
  <2>1. Rec(it)
    BY <1>5
  <2> HIDE DEF it
  <2>2. it = [s \in SUBSET D |-> it[s]]
    BY <2>1
  <2> QED
    BY <2>2 DEF it
<1> HIDE DEF iter
<1> DEFINE Good == {s \in SUBSET D : iter[s] \in Int}
<1>8. SUBSET D \subseteq Good
  <2>1. ASSUME NEW s \in SUBSET D, \A x \in s : s \ {x} \in Good
        PROVE  s \in Good
    <3>1. CASE s = {}
      <4>1. iter[s] = 0
        BY <1>6, <3>1
      <4> QED
        BY <4>1
    <3>2. CASE s # {}
      <4>1. Pick(s) \in D /\ iter[s \ {Pick(s)}] \in Int /\ F[Pick(s)] \in Int
        BY <1>1, <2>1, <3>2
      <4>2. iter[s] = F[Pick(s)] + iter[s \ {Pick(s)}]
        BY <1>6, <3>2
      <4> QED
        BY <4>1, <4>2
    <3> QED
      BY <3>1, <3>2
  <2>2. Hereditary(D, Good)
    BY <2>1 DEF Hereditary
  <2> HIDE DEF Good
  <2> QED
    BY <2>2, SubsetInduction
<1>9. iter \in [SUBSET D -> Int]
  BY <1>7, <1>8
<1>10. iter[{}] = 0
  BY <1>6
<1>11. SumsTo(F, iter)
  BY <1>2, <1>6, <1>9, <1>10 DEF SumsTo, Pick, Picked
<1> QED
  BY <1>11

(* Adding to the value at one place adds as much to the sum.               *)
LEMMA SumChange ==
  ASSUME NEW D, IsFiniteSet(D), NEW F \in [D -> Int], NEW G \in [D -> Int],
         NEW a \in D, \A x \in D : x # a => G[x] = F[x]
  PROVE  SumFunction(G) \in Int /\ SumFunction(F) \in Int
         /\ SumFunction(G) = SumFunction(F) + (G[a] - F[a])
<1>1. PICK f : SumsTo(F, f)
  BY SumRecursion
<1>2. PICK g : SumsTo(G, g)
  BY SumRecursion
<1> DEFINE diff == G[a] - F[a]
           Good == {s \in SUBSET D : g[s] = f[s] + IF a \in s THEN diff ELSE 0}
<1>3. DOMAIN F = D /\ DOMAIN G = D
  OBVIOUS
<1>4. f \in [SUBSET D -> Int] /\ g \in [SUBSET D -> Int] /\ f[{}] = 0 /\ g[{}] = 0
      /\ f[D] = SumFunction(F) /\ g[D] = SumFunction(G)
  BY <1>1, <1>2, <1>3 DEF SumsTo
<1>5. \A s \in SUBSET D : s # {} =>
        \E x \in s : f[s] = F[x] + f[s \ {x}] /\ g[s] = G[x] + g[s \ {x}]
  <2> SUFFICES ASSUME NEW s \in SUBSET D, s # {}
               PROVE  \E x \in s : f[s] = F[x] + f[s \ {x}] /\ g[s] = G[x] + g[s \ {x}]
    OBVIOUS
  <2>1. Picked(s) \in s
    BY Zenon DEF Picked
  <2>2. f[s] = F[Picked(s)] + f[s \ {Picked(s)}]
    BY <1>1, <1>3 DEF SumsTo
  <2>3. g[s] = G[Picked(s)] + g[s \ {Picked(s)}]
    BY <1>2, <1>3 DEF SumsTo
  <2> QED
    BY <2>1, <2>2, <2>3
<1>6. SUBSET D \subseteq Good
  <2>1. ASSUME NEW s \in SUBSET D, \A x \in s : s \ {x} \in Good
        PROVE  s \in Good
    <3>1. CASE s = {}
      BY <1>4, <3>1
    <3>2. CASE s # {}
      <4>1. PICK x \in s : f[s] = F[x] + f[s \ {x}] /\ g[s] = G[x] + g[s \ {x}]
        BY <1>5, <3>2
      <4>2. /\ F[x] \in Int /\ G[x] \in Int /\ F[a] \in Int /\ G[a] \in Int
            /\ f[s \ {x}] \in Int /\ g[s \ {x}] \in Int /\ f[s] \in Int /\ g[s] \in Int
        BY <1>4
      <4>3. g[s \ {x}] = f[s \ {x}] + IF a \in s \ {x} THEN diff ELSE 0
        BY <2>1
      <4>4. CASE x = a
        <5>1. a \in s /\ a \notin s \ {x}
          BY <4>4
        <5>2. g[s] = f[s] + diff
          BY <4>1, <4>2, <4>3, <4>4, <5>1
        <5> QED
          BY <5>1, <5>2
      <4>5. CASE x # a
        <5>1. G[x] = F[x] /\ (a \in s <=> a \in s \ {x})
          BY <4>5
        <5>2. g[s] = f[s] + IF a \in s THEN diff ELSE 0
          BY <4>1, <4>2, <4>3, <5>1
        <5> QED
          BY <5>2
      <4> QED
        BY <4>4, <4>5
    <3> QED
      BY <3>1, <3>2
  <2>2. Hereditary(D, Good)
    BY <2>1 DEF Hereditary
  <2> HIDE DEF Good
  <2> QED
    BY <2>2, SubsetInduction
<1>7. g[D] = f[D] + diff
  BY <1>6
<1> QED
  BY <1>4, <1>7

LEMMA SumOfZeros ==
  ASSUME NEW D, IsFiniteSet(D), NEW F \in [D -> Int], \A x \in D : F[x] = 0
  PROVE  SumFunction(F) = 0
<1>1. PICK f : SumsTo(F, f)
  BY SumRecursion
<1> DEFINE Good == {s \in SUBSET D : f[s] = 0}
<1>2. DOMAIN F = D
  OBVIOUS
<1>3. f[{}] = 0 /\ f[D] = SumFunction(F)
  BY <1>1, <1>2 DEF SumsTo
<1>4. \A s \in SUBSET D : s # {} => \E x \in s : f[s] = F[x] + f[s \ {x}]
  <2> SUFFICES ASSUME NEW s \in SUBSET D, s # {}
               PROVE  \E x \in s : f[s] = F[x] + f[s \ {x}]
    OBVIOUS
  <2>1. Picked(s) \in s
    BY Zenon DEF Picked
  <2>2. f[s] = F[Picked(s)] + f[s \ {Picked(s)}]
    BY <1>1, <1>2 DEF SumsTo
  <2> QED
    BY <2>1, <2>2
<1>5. SUBSET D \subseteq Good
  <2>1. ASSUME NEW s \in SUBSET D, \A x \in s : s \ {x} \in Good
        PROVE  s \in Good
    <3>1. CASE s = {}
      BY <1>3, <3>1
    <3>2. CASE s # {}
      <4>1. PICK x \in s : f[s] = F[x] + f[s \ {x}]
        BY <1>4, <3>2
      <4>2. F[x] = 0 /\ f[s \ {x}] = 0
        BY <2>1
      <4> QED
        BY <4>1, <4>2
    <3> QED
      BY <3>1, <3>2
  <2>2. Hereditary(D, Good)
    BY <2>1 DEF Hereditary
  <2> HIDE DEF Good
  <2> QED
    BY <2>2, SubsetInduction
<1> QED
  BY <1>3, <1>5

AnyOrder(F, f) ==
  \A s \in SUBSET DOMAIN F : \A x \in s : f[s] = F[x] + f[s \ {x}]

(* The elements of a sum may be taken off it in any order.                 *)
LEMMA SumAnyOrder ==
  ASSUME NEW D, IsFiniteSet(D), NEW F \in [D -> Int], NEW f, SumsTo(F, f)
  PROVE  AnyOrder(F, f)
<1> DEFINE Good == {s \in SUBSET D : \A x \in s : f[s] = F[x] + f[s \ {x}]}
<1>1. DOMAIN F = D
  OBVIOUS
<1>2. f \in [SUBSET D -> Int]
  BY <1>1 DEF SumsTo
<1>3. ASSUME NEW s \in SUBSET D, \A y \in s : s \ {y} \in Good, NEW x \in s
      PROVE  f[s] = F[x] + f[s \ {x}]
  <2> DEFINE y == Picked(s)
  <2>1. y \in s
    BY Zenon DEF Picked
  <2>2. f[s] = F[y] + f[s \ {y}]
    BY <1>1 DEF SumsTo
  <2> HIDE DEF y
  <2>3. CASE x = y
    BY <2>2, <2>3
  <2>4. CASE x # y
    <3>1. x \in s \ {y} /\ y \in s \ {x}
      BY <2>1, <2>4
    <3>2. f[s \ {y}] = F[x] + f[(s \ {y}) \ {x}]
      BY <1>3, <2>1, <3>1
    <3>3. f[s \ {x}] = F[y] + f[(s \ {x}) \ {y}]
      BY <1>3, <3>1
    <3>4. (s \ {y}) \ {x} = (s \ {x}) \ {y}
      OBVIOUS
    <3> DEFINE v == f[(s \ {x}) \ {y}]
    <3>5. F[x] \in Int /\ F[y] \in Int /\ v \in Int
      BY <1>2, <2>1
    <3>6. f[s \ {y}] = F[x] + v /\ f[s \ {x}] = F[y] + v
      BY <3>2, <3>3, <3>4
    <3> HIDE DEF v
    <3>7. F[y] + (F[x] + v) = F[x] + (F[y] + v)
      BY <3>5
    <3>8. f[s] = F[y] + (F[x] + v)
      BY <2>2, <3>6
    <3> QED
      BY <3>6, <3>7, <3>8
  <2> QED
    BY <2>3, <2>4
<1>4. Hereditary(D, Good)
  BY <1>3 DEF Hereditary
<1> HIDE DEF Good
<1>5. SUBSET D \subseteq Good
  BY <1>4, SubsetInduction
<1> QED
  BY <1>1, <1>5 DEF Good, AnyOrder

(* One element more adds its value to the sum.                             *)
LEMMA SumOneMore ==
  ASSUME NEW D, IsFiniteSet(D), NEW a, a \notin D,
         NEW F \in [D -> Int], NEW G \in [D \cup {a} -> Int], \A x \in D : G[x] = F[x]
  PROVE  SumFunction(F) \in Int /\ SumFunction(G) = SumFunction(F) + G[a]
<1> DEFINE E == D \cup {a}
<1>1. IsFiniteSet(E)
  BY FS_AddElement
<1>2. PICK f : SumsTo(F, f)
  BY SumRecursion
<1>3. PICK g : SumsTo(G, g)
  BY <1>1, SumRecursion
<1>4. DOMAIN F = D /\ DOMAIN G = E
  OBVIOUS
<1>5. /\ f \in [SUBSET D -> Int] /\ f[D] = SumFunction(F) /\ f[{}] = 0
  BY <1>2, <1>4 DEF SumsTo
<1>6. /\ g \in [SUBSET E -> Int] /\ g[E] = SumFunction(G) /\ g[{}] = 0
  BY <1>3, <1>4 DEF SumsTo
<1> HIDE DEF E
<1>7. \A s \in SUBSET D : \A x \in s : f[s] = F[x] + f[s \ {x}]
  <2>1. AnyOrder(F, f)
    BY <1>2, SumAnyOrder
  <2> QED
    BY <1>4, <2>1 DEF AnyOrder
<1>8. \A s \in SUBSET E : \A x \in s : g[s] = G[x] + g[s \ {x}]
  <2>1. G \in [E -> Int]
    BY DEF E
  <2>2. AnyOrder(G, g)
    BY <1>1, <1>3, <2>1, SumAnyOrder
  <2> QED
    BY <1>4, <2>2 DEF AnyOrder
<1> DEFINE Good == {s \in SUBSET D : g[s] = f[s]}
<1>9. ASSUME NEW s \in SUBSET D, \A x \in s : s \ {x} \in Good
      PROVE  g[s] = f[s]
  <2> USE DEF E
  <2>1. CASE s = {}
    BY <1>5, <1>6, <2>1
  <2>2. CASE s # {}
    <3>1. PICK x \in s : TRUE
      BY <2>2
    <3>2. f[s] = F[x] + f[s \ {x}] /\ g[s] = G[x] + g[s \ {x}]
      BY <1>7, <1>8
    <3>3. G[x] = F[x] /\ g[s \ {x}] = f[s \ {x}]
      BY <1>9
    <3> QED
      BY <3>2, <3>3
  <2> QED
    BY <2>1, <2>2
<1>10. Hereditary(D, Good)
  BY <1>9 DEF Hereditary
<1> HIDE DEF Good
<1>11. SUBSET D \subseteq Good
  BY <1>10, SubsetInduction
<1>12. g[D] = f[D]
  BY <1>11 DEF Good
<1>13. a \in E /\ E \ {a} = D
  BY DEF E
<1>14. g[E] = G[a] + g[D]
  BY <1>8, <1>13
<1>15. f[D] \in Int /\ G[a] \in Int
  BY <1>5 DEF E
<1> QED
  BY <1>5, <1>6, <1>12, <1>14, <1>15

(* The values a function takes over a finite set are finitely many.        *)
LEMMA ValuesFinite ==
  ASSUME NEW S, IsFiniteSet(S), NEW h, DOMAIN h = S
  PROVE  IsFiniteSet({h[x] : x \in S})
<1> DEFINE T == {h[x] : x \in S}
           e == [x \in S |-> h[x]]
<1>1. e \in Surjection(S, T)
  BY DEF Surjection
<1> HIDE DEF e, T
<1>2. IsFiniteSet(T)
  BY <1>1, FS_Surjection
<1> QED
  BY <1>2 DEF T

(* Two sets that share nothing count as the sum of their counts.           *)
LEMMA DisjointCount ==
  ASSUME NEW A, NEW B, IsFiniteSet(A), IsFiniteSet(B), A \cap B = {}
  PROVE  /\ IsFiniteSet(A \cup B)
         /\ Cardinality(A \cup B) = Cardinality(A) + Cardinality(B)
<1> DEFINE a == Cardinality(A)
           b == Cardinality(B)
           u == Cardinality(A \cup B)
           c == Cardinality(A \cap B)
<1>1. IsFiniteSet(A \cup B) /\ u = a + b - c
  BY FS_Union
<1>2. a \in Nat /\ b \in Nat
  BY FS_CardinalityType
<1>3. c = 0
  BY FS_EmptySet
<1> HIDE DEF a, b, u, c
<1>4. u = a + b
  BY <1>1, <1>2, <1>3
<1> QED
  BY <1>1, <1>4 DEF a, b, u
=============================================================================
