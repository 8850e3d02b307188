-------------------------- MODULE LoadBalancerProofs --------------------------
(***************************************************************************)
(* Selection by a LoadBalancer, for lists of any length and any weights:   *)
(* round robin is a strict rotation, and the weighted strategy gives each  *)
(* node its share.  The induction over the list that the second needs is   *)
(* drawn from the well-foundedness of the natural numbers.                 *)
(***************************************************************************)
EXTENDS NodeManager, FiniteSetTheorems, WellFoundedInduction, TLAPS

\* The prover of a step that names none; SMT is named where Zenon does not do.
USE ZenonT(60), SMTT(60)

-------------------------------------------------------------------------------
(* Induction over the natural numbers, for sets *)

\* A set of natural numbers has a least element.
LEMMA LeastNumber ==
  ASSUME NEW S \in SUBSET Nat, S # {}
  PROVE  \E m \in S : \A k \in S : m <= k
<1> DEFINE R == OpToRel(<, Nat)
<1>1. \E x \in S : \A y \in S : ~(<<y, x>> \in R)
  BY NatLessThanWellFounded, WFMin
<1>2. \A x, y \in Nat : <<y, x>> \in R <=> y < x
  BY DEF OpToRel
<1> HIDE DEF R
<1>3. PICK x \in S : \A y \in S : ~(<<y, x>> \in R)
  BY <1>1
<1>4. \A y \in S : ~(y < x)
  BY <1>2, <1>3
<1>5. QED
  BY <1>4, SMTT(60)

\* Induction over the numbers up to n.
LEMMA InductionUpTo ==
  ASSUME NEW n \in Nat, NEW S, 0 \in S, \A i \in 0 .. n - 1 : i \in S => i + 1 \in S
  PROVE  0 .. n \subseteq S
<1> DEFINE M == {i \in 0 .. n : i \notin S}
<1> SUFFICES ASSUME M # {} PROVE FALSE
  OBVIOUS
<1>0. M \in SUBSET Nat
  BY SMTT(60)
<1> HIDE DEF M
<1>1. PICK m \in M : \A k \in M : m <= k
  BY <1>0, LeastNumber
<1> USE DEF M
<1>2. m - 1 \in 0 .. n - 1 /\ m - 1 \in S
  BY <1>1, SMTT(60)
<1>3. QED
  BY <1>1, <1>2, SMTT(60)

-------------------------------------------------------------------------------
(* The weighted strategy *)

\* w has the sums of the first weights of the list, up to n of them.
Sums(w, n) == w = [i \in 0 .. n |-> IF i = 0 THEN 0 ELSE w[i - 1] + lbNodes[i].weight]

\* A list of nodes whose weights are not negative.
Weighed(ns) ==
  /\ ns \in Seq({ns[i] : i \in DOMAIN ns})
  /\ \A i \in DOMAIN ns : ns[i].weight \in Nat

IsList == Weighed(lbNodes)

\* Of what a list is, when it is of a set of such nodes.
LEMMA WeighedOf ==
  ASSUME NEW S, \A ep \in S : ep.weight \in Nat, NEW ns \in Seq(S)
  PROVE  Weighed(ns)
<1>1. Len(ns) \in Nat /\ DOMAIN ns = 1 .. Len(ns) /\ \A i \in DOMAIN ns : ns[i] \in S
  BY SMTT(60)
<1>2. ns = [i \in 1 .. Len(ns) |-> ns[i]]
  BY SMTT(60)
<1>3. PICK T : T = {ns[i] : i \in DOMAIN ns}
  OBVIOUS
<1>4. ns \in Seq(T)
  <2>1. \A i \in 1 .. Len(ns) : ns[i] \in T
    BY <1>1, <1>3
  <2>2. QED
    BY <1>1, <1>2, <2>1, SMTT(60)
<1>5. QED
  BY <1>1, <1>3, <1>4 DEF Weighed

\* And that there is such a set.
LEMMA WeighedSet ==
  ASSUME NEW ns, Weighed(ns)
  PROVE  \E S : ns \in Seq(S) /\ \A ep \in S : ep.weight \in Nat
<1>1. \A ep \in {ns[i] : i \in DOMAIN ns} : ep.weight \in Nat
  BY DEF Weighed
<1>2. QED
  BY <1>1 DEF Weighed

\* Weight, a recursive function, is what its definition says.
LEMMA WeightDefined ==
  ASSUME IsList
  PROVE  /\ Weight[0] = 0
         /\ \A i \in DOMAIN lbNodes : Weight[i] = Weight[i - 1] + lbNodes[i].weight
<1> DEFINE n == Len(lbNodes)
<1>0. n \in Nat /\ DOMAIN lbNodes = 1 .. n
  BY SMTT(60) DEF IsList, Weighed
<1> HIDE DEF n
<1> DEFINE S == {i \in 0 .. n : \E w : Sums(w, i)}
<1>1. 0 \in S
  <2>1. Sums([i \in 0 .. 0 |-> 0], 0)
    BY SMTT(60) DEF Sums
  <2>2. QED
    BY <1>0, <2>1, SMTT(60)
<1>2. ASSUME NEW i \in 0 .. n - 1, i \in S PROVE i + 1 \in S
  <2>1. PICK w : Sums(w, i)
    BY <1>2
  <2> DEFINE v == [j \in 0 .. i + 1 |-> IF j = i + 1 THEN w[i] + lbNodes[i + 1].weight ELSE w[j]]
  <2>a. \A j \in 0 .. i : w[j] = IF j = 0 THEN 0 ELSE w[j - 1] + lbNodes[j].weight
    BY <1>0, <2>1 DEF Sums
  <2>b. /\ \A j \in 0 .. i : v[j] = w[j]
        /\ v[i + 1] = w[i] + lbNodes[i + 1].weight
    BY <1>0, SMTT(60)
  <2>c. \A j \in 1 .. i : v[j - 1] = w[j - 1]
    BY <1>0, <2>b, SMTT(60)
  <2>2. \A j \in 0 .. i + 1 : v[j] = IF j = 0 THEN 0 ELSE v[j - 1] + lbNodes[j].weight
    <3> HIDE DEF v
    <3> QED BY <1>0, <2>a, <2>b, <2>c, SMTT(60)
  <2>3. Sums(v, i + 1)
    BY <2>2 DEF Sums
  <2> HIDE DEF v
  <2>4. QED
    BY <1>0, <2>3, SMTT(60)
<1>3. \E w : Sums(w, n)
  <2> HIDE DEF S
  <2>1. 0 .. n \subseteq S
    BY <1>0, <1>1, <1>2, InductionUpTo
  <2> USE DEF S
  <2>2. QED
    BY <1>0, <2>1, SMTT(60)
<1>4. Weight = CHOOSE w : Sums(w, n)
  BY DEF Weight, Sums, n
<1>5. Sums(Weight, n)
  BY <1>3, <1>4
<1>6. QED
  BY <1>0, <1>5, SMTT(60) DEF Sums

\* The sums are numbers that do not decrease along the list.
LEMMA WeightGrows ==
  ASSUME IsList
  PROVE  \A j \in 0 .. Len(lbNodes) : \A i \in 0 .. j :
            Weight[i] \in Nat /\ Weight[j] \in Nat /\ Weight[i] <= Weight[j]
<1> DEFINE n == Len(lbNodes)
           S == {j \in 0 .. n : \A i \in 0 .. j :
                   Weight[i] \in Nat /\ Weight[j] \in Nat /\ Weight[i] <= Weight[j]}
<1>0. n \in Nat /\ DOMAIN lbNodes = 1 .. n /\ \A i \in 1 .. n : lbNodes[i].weight \in Nat
  BY SMTT(60) DEF IsList, Weighed
<1>1. Weight[0] = 0 /\ \A i \in 1 .. n : Weight[i] = Weight[i - 1] + lbNodes[i].weight
  BY <1>0, WeightDefined
<1> HIDE DEF n
<1>2. 0 \in S
  BY <1>0, <1>1, SMTT(60)
<1>3. ASSUME NEW j \in 0 .. n - 1, j \in S PROVE j + 1 \in S
  <2>1. Weight[j + 1] = Weight[j] + lbNodes[j + 1].weight /\ lbNodes[j + 1].weight \in Nat
    BY <1>0, <1>1, SMTT(60)
  <2>2. \A i \in 0 .. j : Weight[i] \in Nat /\ Weight[j] \in Nat /\ Weight[i] <= Weight[j]
    BY <1>3
  <2>3. Weight[j] \in Nat
    BY <1>0, <2>2, SMTT(60)
  <2>4. QED
    BY <1>0, <2>1, <2>2, <2>3, SMTT(60)
<1>4. 0 .. n \subseteq S
  <2> HIDE DEF S
  <2> QED BY <1>0, <1>2, <1>3, InductionUpTo
<1>5. QED
  BY <1>4 DEF n

\* Every random number below the total selects a node, and WeightedIndex is the node
\* whose share the number falls into.
LEMMA WeightedIndexIs ==
  ASSUME IsList, NEW r \in 0 .. Total - 1, NEW i \in DOMAIN lbNodes
  PROVE  /\ WeightedIndex(r) \in DOMAIN lbNodes
         /\ WeightedIndex(r) = i <=> (Weight[i - 1] <= r /\ r < Weight[i])
<1> DEFINE n == Len(lbNodes)
           P(k) == r < Weight[k] /\ \A j \in 1 .. k - 1 : Weight[j] <= r
<1>0. n \in Nat /\ DOMAIN lbNodes = 1 .. n /\ Total = Weight[n]
  BY SMTT(60) DEF IsList, Weighed, Total
<1>1. \A j \in 0 .. n : \A k \in 0 .. j :
         Weight[k] \in Nat /\ Weight[j] \in Nat /\ Weight[k] <= Weight[j]
  BY WeightGrows
<1>2. Weight[0] = 0
  BY WeightDefined
<1> HIDE DEF n
<1>3. r \in Nat /\ n # 0
  BY <1>0, <1>1, <1>2, SMTT(60)
<1>4. \A k \in 1 .. n : P(k) <=> (Weight[k - 1] <= r /\ r < Weight[k])
  <2> SUFFICES ASSUME NEW k \in 1 .. n
               PROVE  P(k) <=> (Weight[k - 1] <= r /\ r < Weight[k])
    OBVIOUS
  <2>1. ASSUME P(k) PROVE Weight[k - 1] <= r
    BY <1>0, <1>2, <1>3, <2>1, SMTT(60)
  <2>2. ASSUME Weight[k - 1] <= r, NEW j \in 1 .. k - 1 PROVE Weight[j] <= r
    <3>1. Weight[j] \in Nat /\ Weight[k - 1] \in Nat /\ Weight[j] <= Weight[k - 1]
      BY <1>0, <1>1, SMTT(60)
    <3>2. QED
      BY <1>3, <2>2, <3>1, SMTT(60)
  <2>3. QED
    BY <2>1, <2>2
<1>5. \E k \in 1 .. n : P(k)
  <2> DEFINE A == {k \in 1 .. n : r < Weight[k]}
  <2>1. n \in A
    BY <1>0, <1>1, <1>3, SMTT(60)
  <2>2. A \in SUBSET Nat
    BY SMTT(60)
  <2> HIDE DEF A
  <2>3. PICK m \in A : \A k \in A : m <= k
    BY <2>1, <2>2, LeastNumber
  <2> USE DEF A
  <2>4. m \in 1 .. n /\ r < Weight[m]
    OBVIOUS
  <2>5. ASSUME NEW j \in 1 .. m - 1 PROVE Weight[j] <= r
    <3>1. j \in 1 .. n /\ j \notin A
      BY <1>0, <2>3, <2>4, SMTT(60)
    <3>2. Weight[j] \in Nat
      BY <1>0, <1>1, <3>1, SMTT(60)
    <3>3. QED
      BY <1>3, <3>1, <3>2, SMTT(60)
  <2>6. QED
    BY <2>4, <2>5
<1>6. ASSUME NEW j \in 1 .. n, NEW k \in 1 .. n, P(j), P(k) PROVE j = k
  <2>1. ASSUME NEW a \in 1 .. n, NEW b \in 1 .. n, P(a), P(b), a < b PROVE FALSE
    <3>1. a \in 1 .. b - 1
      BY <2>1, SMTT(60)
    <3>2. Weight[a] <= r /\ r < Weight[a]
      BY <2>1, <3>1
    <3>3. Weight[a] \in Nat
      BY <1>0, <1>1, SMTT(60)
    <3>4. QED
      BY <1>3, <3>2, <3>3, SMTT(60)
  <2> HIDE DEF P
  <2>2. ~(j < k) /\ ~(k < j)
    BY <1>6, <2>1
  <2>3. QED
    BY <2>2, SMTT(60)
<1>7. WeightedIndex(r) = CHOOSE k \in 1 .. n : P(k)
  BY <1>0 DEF WeightedIndex
<1> HIDE DEF P
<1>8. WeightedIndex(r) \in 1 .. n /\ P(WeightedIndex(r))
  BY <1>5, <1>7
<1>9. QED
  BY <1>0, <1>4, <1>6, <1>8

\* WeightedShare holds of every list of nodes whose weights are not negative.
LEMMA SharesAreExact ==
  ASSUME IsList
  PROVE  WeightedShare
<1> SUFFICES ASSUME NEW i \in DOMAIN lbNodes
             PROVE  Cardinality({r \in 0 .. Total - 1 : WeightedIndex(r) = i}) = lbNodes[i].weight
  BY DEF WeightedShare
<1> DEFINE n == Len(lbNodes)
<1>0. n \in Nat /\ DOMAIN lbNodes = 1 .. n /\ Total = Weight[n] /\ lbNodes[i].weight \in Nat
  BY SMTT(60) DEF IsList, Weighed, Total
<1>1. \A j \in 0 .. n : \A k \in 0 .. j :
         Weight[k] \in Nat /\ Weight[j] \in Nat /\ Weight[k] <= Weight[j]
  BY WeightGrows
<1>2. Weight[i] = Weight[i - 1] + lbNodes[i].weight
  BY WeightDefined
<1> HIDE DEF n
<1>3. Weight[i - 1] \in Nat /\ Weight[i] \in Nat /\ Total \in Nat /\ Weight[i] <= Total
  <2>1. i \in 0 .. n /\ i - 1 \in 0 .. n /\ n \in 0 .. n
    BY <1>0, SMTT(60)
  <2>2. QED
    BY <1>0, <1>1, <2>1
<1>4. {r \in 0 .. Total - 1 : WeightedIndex(r) = i} = Weight[i - 1] .. (Weight[i] - 1)
  <2>1. \A r \in 0 .. Total - 1 :
          WeightedIndex(r) = i <=> (Weight[i - 1] <= r /\ r < Weight[i])
    BY WeightedIndexIs
  <2>2. QED
    BY <1>3, <2>1, SMTT(60)
<1>5. Cardinality(Weight[i - 1] .. (Weight[i] - 1)) = Weight[i] - Weight[i - 1]
  <2> DEFINE a == Weight[i - 1]
             b == Weight[i] - 1
  <2>1. a \in Int /\ b \in Int
    BY <1>3, SMTT(60)
  <2>2. a <= b + 1 /\ b - a + 1 = Weight[i] - Weight[i - 1] /\ (a > b => b - a + 1 = 0)
    BY <1>0, <1>2, <1>3, SMTT(60)
  <2> HIDE DEF a, b
  <2>3. Cardinality(a .. b) = IF a > b THEN 0 ELSE b - a + 1
    BY <2>1, FS_Interval
  <2>4. QED
    BY <2>1, <2>2, <2>3 DEF a, b
<1>6. Weight[i] - Weight[i - 1] = lbNodes[i].weight
  BY <1>0, <1>2, <1>3, SMTT(60)
<1>7. QED
  BY <1>4, <1>5, <1>6

-------------------------------------------------------------------------------
(* Round robin *)

\* How far index x lies behind s in a round of n.
Behind(x, s, n) == IF x >= s THEN x - s ELSE x - s + n

\* The nodes from some s up to the counter have been picked once more than the others.
Rotating ==
  lbNodes # <<>> =>
    \E q \in Nat, s \in 0 .. Len(lbNodes) - 1 : \A i \in DOMAIN lbNodes :
      Picked(i) = IF Behind(i - 1, s, Len(lbNodes)) < Behind(counter_ % Len(lbNodes), s, Len(lbNodes))
                  THEN q + 1 ELSE q

\* The inductive invariant of the balancer.
LbIInv == IsList /\ picks \in Seq(Nat) /\ counter_ \in Nat /\ Rotating

\* Division by n, in terms of multiplication.
LEMMA DivisionBy ==
  ASSUME NEW c \in Nat, NEW n \in Nat \ {0}
  PROVE  \E q \in Nat, x \in 0 .. n - 1 : c = q * n + x /\ c % n = x
<1>1. c \div n \in Nat /\ c % n \in 0 .. n - 1
  BY SMTT(60)
<1>2. c = (c \div n) * n + (c % n)
  BY SMTT(60)
<1>3. QED
  BY <1>1, <1>2

\* A number has one remainder.
LEMMA OneRemainder ==
  ASSUME NEW n \in Nat \ {0}, NEW q \in Nat, NEW p \in Nat,
         NEW x \in 0 .. n - 1, NEW y \in 0 .. n - 1, q * n + x = p * n + y
  PROVE  x = y
<1>1. ASSUME q < p PROVE FALSE
  <2>1. (q + 1) * n <= p * n
    BY <1>1, SMTT(60)
  <2>2. QED
    BY <2>1, SMTT(60)
<1>2. ASSUME p < q PROVE FALSE
  <2>1. (p + 1) * n <= q * n
    BY <1>2, SMTT(60)
  <2>2. QED
    BY <2>1, SMTT(60)
<1>3. QED
  BY <1>1, <1>2, SMTT(60)

\* The remainder advances by one, or wraps.
LEMMA NextRemainder ==
  ASSUME NEW c \in Nat, NEW n \in Nat \ {0}
  PROVE  /\ c % n \in 0 .. n - 1
         /\ (c + 1) % n = IF c % n = n - 1 THEN 0 ELSE (c % n) + 1
<1>1. PICK q \in Nat, x \in 0 .. n - 1 : c = q * n + x /\ c % n = x
  BY DivisionBy
<1>2. PICK p \in Nat, y \in 0 .. n - 1 : c + 1 = p * n + y /\ (c + 1) % n = y
  <2>1. c + 1 \in Nat
    BY SMTT(60)
  <2>2. QED
    BY <2>1, DivisionBy
<1>3. CASE x = n - 1
  <2>1. c + 1 = (q + 1) * n + 0
    BY <1>1, <1>3, SMTT(60)
  <2>2. q + 1 \in Nat /\ 0 \in 0 .. n - 1
    BY SMTT(60)
  <2>3. y = 0
    BY <1>2, <2>1, <2>2, OneRemainder, SMTT(60)
  <2>4. QED
    BY <1>1, <1>2, <1>3, <2>3
<1>4. CASE x # n - 1
  <2>1. c + 1 = q * n + (x + 1)
    BY <1>1, SMTT(60)
  <2>2. x + 1 \in 0 .. n - 1
    BY <1>4, SMTT(60)
  <2>3. y = x + 1
    BY <1>2, <2>1, <2>2, OneRemainder
  <2>4. QED
    BY <1>1, <1>2, <1>4, <2>3
<1>5. QED
  BY <1>3, <1>4

\* A new list, or another strategy object, starts the count again.
LEMMA StartAgain ==
  ASSUME IsList', counter_' \in Nat, picks' = <<>>
  PROVE  LbIInv'
<1> DEFINE n == Len(lbNodes')
<1>0. n \in Nat /\ DOMAIN lbNodes' = 1 .. n /\ (lbNodes' # <<>> => n # 0)
  BY SMTT(60) DEF IsList, Weighed
<1>1. picks' \in Seq(Nat)
  BY SMTT(60)
<1>2. \A i : Picked(i)' = 0
  <2> TAKE i
  <2>1. {k \in DOMAIN picks' : picks'[k] = i} = {}
    BY SMTT(60)
  <2>2. QED
    BY <2>1, FS_EmptySet DEF Picked
<1>3. ASSUME lbNodes' # <<>> PROVE Rotating'
  <2>1. n \in Nat \ {0}
    BY <1>0, <1>3
  <2>2. PICK s \in 0 .. n - 1 : s = counter_' % n
    <3> HIDE DEF n
    <3> QED BY <2>1, NextRemainder
  <2>3. \A i \in 1 .. n : ~(Behind(i - 1, s, n) < Behind(s, s, n))
    <3> HIDE DEF n
    <3> QED BY <2>1, SMTT(60) DEF Behind
  <2>4. \A i \in DOMAIN lbNodes' :
          Picked(i)' = IF Behind(i - 1, s, n) < Behind(s, s, n) THEN 0 + 1 ELSE 0
    <3> HIDE DEF n
    <3> QED BY <1>0, <1>2, <2>3
  <2>5. \E q \in Nat, t \in 0 .. n - 1 : \A i \in DOMAIN lbNodes' :
          Picked(i)' = IF Behind(i - 1, t, n) < Behind(counter_' % n, t, n) THEN q + 1 ELSE q
    BY <2>2, <2>4
  <2>6. QED
    BY <2>5 DEF Rotating
<1>4. QED
  BY <1>1, <1>3 DEF LbIInv, Rotating

\* select keeps the rotation: round robin picks the node that is due.
LEMMA SelectStep ==
  ASSUME LbIInv, NEW i \in DOMAIN lbNodes, select(i)
  PROVE  LbIInv'
<1> DEFINE n == Len(lbNodes)
           c == counter_ % n
           d == (counter_ + 1) % n
<1>0. n \in Nat \ {0} /\ DOMAIN lbNodes = 1 .. n /\ lbNodes' = lbNodes /\ lbNodes # <<>>
  BY SMTT(60) DEF LbIInv, IsList, Weighed, select, CanSelect
<1>1. IsList'
  BY <1>0 DEF LbIInv, IsList, Weighed
<1>2. CASE strategy_ # "round_robin"
  <2>1. UNCHANGED <<counter_, picks>>
    BY <1>2 DEF select, Random, Weighted
  <2>2. \A j : Picked(j)' = Picked(j)
    BY <2>1 DEF Picked
  <2>3. Rotating'
    BY <1>0, <2>1, <2>2 DEF LbIInv, Rotating
  <2>4. QED
    BY <1>1, <2>1, <2>3 DEF LbIInv
<1>3. CASE strategy_ = "round_robin"
  <2>1. i = c + 1 /\ counter_' = counter_ + 1 /\ picks' = Append(picks, i)
    BY <1>3 DEF select, RoundRobin
  <2>2. counter_ \in Nat /\ counter_' \in Nat /\ i \in Nat /\ picks \in Seq(Nat)
    BY <1>0, <2>1, SMTT(60) DEF LbIInv
  <2>3. picks' \in Seq(Nat)
    BY <2>1, <2>2, SMTT(60)
  <2>4. c \in 0 .. n - 1 /\ d = IF c = n - 1 THEN 0 ELSE c + 1
    BY <1>0, <2>2, NextRemainder
  <2>5. \A j : Picked(j) \in Nat /\ Picked(j)' = IF j = i THEN Picked(j) + 1 ELSE Picked(j)
    <3> TAKE j
    <3> DEFINE A == {k \in DOMAIN picks : picks[k] = j}
               m == Len(picks) + 1
    <3>1. /\ Len(picks) \in Nat /\ DOMAIN picks = 1 .. Len(picks)
          /\ DOMAIN picks' = 1 .. m /\ picks'[m] = i
          /\ \A k \in 1 .. Len(picks) : picks'[k] = picks[k]
      BY <2>1, <2>2, SMTT(60)
    <3>2. IsFiniteSet(A)
      <4>1. IsFiniteSet(1 .. Len(picks))
        BY <3>1, FS_Interval, SMTT(60)
      <4>2. A \subseteq 1 .. Len(picks)
        BY <3>1
      <4>3. QED
        BY <4>1, <4>2, FS_Subset
    <3>3. m \notin A
      BY <3>1, SMTT(60)
    <3>4. {k \in DOMAIN picks' : picks'[k] = j} = IF j = i THEN A \cup {m} ELSE A
      BY <3>1, SMTT(60)
    <3> HIDE DEF A, m
    <3>5. Cardinality(A) \in Nat /\ Cardinality(A \cup {m}) = Cardinality(A) + 1
      BY <3>2, <3>3, FS_CardinalityType, FS_AddElement
    <3>6. Picked(j) = Cardinality(A)
      BY DEF Picked, A
    <3>7. Picked(j)' = Cardinality({k \in DOMAIN picks' : picks'[k] = j})
      BY DEF Picked
    <3>8. QED
      BY <3>4, <3>5, <3>6, <3>7
  <2>6. PICK q \in Nat, s \in 0 .. n - 1 : \A j \in 1 .. n :
          Picked(j) = IF Behind(j - 1, s, n) < Behind(c, s, n) THEN q + 1 ELSE q
    BY <1>0 DEF LbIInv, Rotating
  <2> HIDE DEF n, c, d
  <2>7. PICK p \in Nat : \A j \in 1 .. n :
          Picked(j)' = IF Behind(j - 1, s, n) < Behind(d, s, n) THEN p + 1 ELSE p
    <3>1. CASE d # s
      <4>1. \A j \in 1 .. n :
              Picked(j)' = IF Behind(j - 1, s, n) < Behind(d, s, n) THEN q + 1 ELSE q
        BY <1>0, <2>1, <2>4, <2>5, <2>6, <3>1, SMTT(60) DEF Behind
      <4>2. QED
        BY <4>1
    <3>2. CASE d = s
      <4>1. \A j \in 1 .. n :
              Picked(j)' = IF Behind(j - 1, s, n) < Behind(d, s, n) THEN (q + 1) + 1 ELSE q + 1
        BY <1>0, <2>1, <2>4, <2>5, <2>6, <3>2, SMTT(60) DEF Behind
      <4>2. QED
        BY <4>1, SMTT(60)
    <3>3. QED
      BY <3>1, <3>2
  <2>8. Len(lbNodes') = n /\ DOMAIN lbNodes' = 1 .. n /\ counter_' % Len(lbNodes') = d
    BY <1>0, <2>1 DEF n, d
  <2>9. \A j \in DOMAIN lbNodes' :
          Picked(j)' = IF Behind(j - 1, s, Len(lbNodes')) < Behind(counter_' % Len(lbNodes'), s, Len(lbNodes'))
                       THEN p + 1 ELSE p
    BY <2>7, <2>8
  <2>10. s \in 0 .. Len(lbNodes') - 1
    BY <2>8
  <2>11. Rotating'
    BY <2>9, <2>10 DEF Rotating
  <2>12. QED
    BY <1>1, <2>2, <2>3, <2>11 DEF LbIInv
<1>4. QED
  BY <1>2, <1>3

\* The invariant implies both properties.
LEMMA LbImplies ==
  ASSUME LbIInv
  PROVE  StrictRotation /\ WeightedShare
<1> DEFINE n == Len(lbNodes)
<1>1. WeightedShare
  BY SharesAreExact DEF LbIInv
<1>2. ASSUME NEW i \in DOMAIN lbNodes, NEW j \in DOMAIN lbNodes PROVE Picked(i) <= Picked(j) + 1
  <2>1. lbNodes # <<>>
    BY SMTT(60) DEF LbIInv, IsList, Weighed
  <2>2. PICK q \in Nat : \A k \in DOMAIN lbNodes : Picked(k) = q + 1 \/ Picked(k) = q
    BY <2>1 DEF LbIInv, Rotating
  <2>3. QED
    BY <2>2, SMTT(60)
<1>3. QED
  BY <1>1, <1>2 DEF StrictRotation

-------------------------------------------------------------------------------
(* A program that uses the balancer by itself *)

\* Each operation of the balancer keeps the invariant.
LEMMA LbStep ==
  ASSUME LbIInv, [LbNext]_lbVars
  PROVE  LbIInv'
<1> DEFINE W(S) == \A ep \in S : ep.weight \in Nat
<1>0. PICK S : lbNodes \in Seq(S) /\ W(S)
  BY WeighedSet DEF LbIInv, IsList
<1>1. ASSUME NEW name \in Strategies \cup {"other"}, set_strategy(name) PROVE LbIInv'
  <2>1. IsList'
    BY <1>1 DEF set_strategy, Renew, IsList, LbIInv
  <2>2. QED
    BY <1>1, <2>1, StartAgain DEF set_strategy, Renew
<1>2. ASSUME NEW ep \in Endpoints, NEW eq \in Endpoints, set_nodes(<<ep, eq>>) \/ sync_nodes(<<ep>>)
      PROVE  LbIInv'
  <2>1. <<ep, eq>> \in Seq(Endpoints) /\ <<ep>> \in Seq(Endpoints)
    BY SMTT(60)
  <2>a. Weighed(<<ep, eq>>) /\ Weighed(<<ep>>)
    BY <2>1, LbAssumption, WeighedOf
  <2>2. IsList'
    BY <1>2, <2>a DEF set_nodes, sync_nodes, Renew, IsList
  <2>3. QED
    BY <1>2, <2>2, StartAgain, SMTT(60) DEF set_nodes, sync_nodes, Renew
<1>3. ASSUME NEW ep \in Endpoints, add_node(ep) PROVE LbIInv'
  <2>1. W(S \cup {ep})
    BY <1>0, LbAssumption
  <2>2. lbNodes \in Seq(S \cup {ep})
    BY <1>0, SMTT(60)
  <2>3. lbNodes' \in Seq(S \cup {ep})
    BY <1>3, <2>2, SMTT(60) DEF add_node
  <2>4. IsList'
    BY <2>1, <2>3, WeighedOf DEF IsList
  <2>5. QED
    BY <1>3, <2>4, StartAgain DEF add_node, LbIInv
<1>4. ASSUME NEW ep \in Endpoints, remove_node(ep.name) PROVE LbIInv'
  <2> DEFINE k == find(ep.name)
  <2>1. k \in 1 .. Len(lbNodes)
    <3> DEFINE is == {i \in DOMAIN lbNodes : lbNodes[i].name = ep.name}
    <3>1. is \in SUBSET Nat /\ DOMAIN lbNodes = 1 .. Len(lbNodes)
      BY <1>0, SMTT(60)
    <3>2. is # {} /\ k = CHOOSE i \in is : \A j \in is : i <= j
      BY <1>4 DEF remove_node, find
    <3> HIDE DEF is, k
    <3>3. k \in is
      BY <3>1, <3>2, LeastNumber
    <3>4. QED
      BY <3>1, <3>3 DEF is
  <2> HIDE DEF k
  <2>2. SubSeq(lbNodes, 1, k - 1) \in Seq(S) /\ SubSeq(lbNodes, k + 1, Len(lbNodes)) \in Seq(S)
    BY <1>0, <2>1, SMTT(60)
  <2>3. lbNodes' = SubSeq(lbNodes, 1, k - 1) \o SubSeq(lbNodes, k + 1, Len(lbNodes))
    BY <1>4 DEF remove_node, k
  <2>4. lbNodes' \in Seq(S)
    BY <2>2, <2>3, SMTT(60)
  <2>5. IsList'
    BY <1>0, <2>4, WeighedOf DEF IsList
  <2>6. QED
    BY <1>4, <2>5, StartAgain DEF remove_node, LbIInv
<1>5. ASSUME NEW i \in DOMAIN lbNodes, select(i) PROVE LbIInv'
  BY <1>5, SelectStep
<1>6. ASSUME UNCHANGED lbVars PROVE LbIInv'
  <2>1. \A j : Picked(j)' = Picked(j)
    BY <1>6 DEF lbVars, Picked
  <2>2. lbNodes' = lbNodes /\ counter_' = counter_ /\ picks' = picks
    BY <1>6 DEF lbVars
  <2>3. Rotating'
    BY <2>1, <2>2 DEF LbIInv, Rotating
  <2>4. QED
    BY <2>2, <2>3 DEF LbIInv, IsList, Weighed
<1>7. QED
  BY <1>1, <1>2, <1>3, <1>4, <1>5, <1>6 DEF LbNext

\* A new balancer has no nodes.
LEMMA LbBegins ==
  ASSUME LbInit
  PROVE  LbIInv
<1>1. IsList /\ lbNodes = <<>> /\ picks = <<>> /\ counter_ = 0
  BY SMTT(60) DEF LbInit, IsList, Weighed
<1>2. QED
  BY <1>1, SMTT(60) DEF LbIInv, Rotating

\* The inductive invariant holds of every behaviour of the balancer.
LEMMA LbInvariant == LbSpec => []LbIInv
  BY LbBegins, LbStep, PTL DEF LbSpec

\* conn_balancer.md:60: round robin is a strict rotation, for every list and however
\* nodes come and go.
THEOREM RoundRobinRotates == LbSpec => []StrictRotation
  BY LbInvariant, LbImplies, PTL

\* The weighted strategy gives every node exactly its weight's share of the random
\* numbers, for every list of weights.
THEOREM WeightsAreShares == LbSpec => []WeightedShare
  BY LbInvariant, LbImplies, PTL

-------------------------------------------------------------------------------
(* The balancer of a manager *)

\* What the manager finds and caches has weights.
Lists == Weighed(found) /\ Weighed(nodes_)

\* What the manager finds has weights, and so has what it caches and what it gives
\* to the balancer.
LEMMA ListsStep == Lists /\ [NmNext]_vars => Lists'
<1> SUFFICES ASSUME Lists, [NmNext]_vars PROVE Lists'
  OBVIOUS
<1>0. Weighed(<<>>)
  BY SMTT(60) DEF Weighed
<1>1. CASE refresh_nodes \/ SelectEmpty
  BY <1>0, <1>1 DEF refresh_nodes, SelectEmpty, BeginRefresh, Lists
<1>2. CASE LookedUp
  <2>1. PICK e : found' = Append(found, e) /\ e.weight = 1 /\ nodes_' = nodes_
    BY <1>2 DEF LookedUp
  <2>2. PICK S : found \in Seq(S) /\ \A ep \in S : ep.weight \in Nat
    BY WeighedSet DEF Lists
  <2>3. \A ep \in S \cup {e} : ep.weight \in Nat
    BY <2>1, <2>2, SMTT(60)
  <2>4. found' \in Seq(S \cup {e})
    BY <2>1, <2>2, SMTT(60)
  <2>5. Weighed(found')
    BY <2>3, <2>4, WeighedOf
  <2>6. QED
    BY <2>1, <2>5 DEF Lists
<1>3. CASE Refreshed
  BY <1>0, <1>3 DEF Refreshed, Lists
<1>4. CASE UNCHANGED <<found, nodes_>>
  BY <1>4 DEF Lists
<1>5. CASE Manager /\ ~(refresh_nodes \/ SelectEmpty \/ LookedUp \/ Refreshed)
  <2>1. UNCHANGED <<found, nodes_>>
    BY <1>5 DEF Manager, connect_zk, register_node, unregister_node, node_exists,
       list_node_names, get_node_data, Ask, Finish, set_services_path, init_zk_paths, InitPath,
       Listed, LookUp, Select, set_balancer_strategy, mgrState
  <2>2. QED
    BY <1>4, <2>1
<1>6. CASE Poll \/ Serve \/ World \/ UNCHANGED mgrState
  BY <1>4, <1>6 DEF Poll, Serve, World, mgrState
<1>7. QED
  BY <1>1, <1>2, <1>3, <1>5, <1>6 DEF NmNext, vars

\* The balancer, used by a manager or by itself, keeps its invariant.
LEMMA BalancerStep == Lists /\ LbIInv /\ [NmNext]_vars => LbIInv'
<1> SUFFICES ASSUME Lists, LbIInv, [NmNext]_vars PROVE LbIInv'
  OBVIOUS
<1>1. ASSUME NEW ns, Weighed(ns), NEW name, Renew(ns, name) PROVE LbIInv'
  <2>1. IsList'
    BY <1>1 DEF Renew, IsList
  <2>2. counter_' \in Nat /\ picks' = <<>>
    BY <1>1 DEF Renew
  <2>3. QED
    BY <2>1, <2>2, StartAgain
<1>2. CASE Refreshed
  BY <1>1, <1>2 DEF Refreshed, set_nodes, Lists
<1>3. CASE set_balancer_strategy
  BY <1>1, <1>3 DEF set_balancer_strategy, Lists
<1>4. CASE LbNext \/ UNCHANGED lbVars
  BY <1>4, LbStep
<1>5. CASE Select
  <2>1. CASE \E i \in DOMAIN lbNodes : select(i)
    BY <2>1, SelectStep
  <2>2. QED
    BY <1>4, <1>5, <2>1 DEF Select
<1>6. CASE Manager /\ ~(Refreshed \/ set_balancer_strategy \/ Select)
  <2>1. UNCHANGED lbVars
    BY <1>6 DEF Manager, connect_zk, register_node, unregister_node, node_exists,
       list_node_names, get_node_data, Ask, Finish, set_services_path, init_zk_paths, InitPath,
       refresh_nodes, BeginRefresh, SelectEmpty, Listed, LookUp, LookedUp
  <2>2. QED
    BY <1>4, <2>1
<1>7. CASE Poll \/ Serve \/ World
  BY <1>4, <1>7 DEF Poll, Serve, World
<1>8. QED
  BY <1>2, <1>3, <1>4, <1>5, <1>6, <1>7 DEF NmNext, vars

\* The balancer's invariant holds of a manager's as well.
LEMMA BalancerInvariant == NmSpec => [](Lists /\ LbIInv)
<1>1. NmInit => Lists /\ LbIInv
  <2> SUFFICES ASSUME NmInit PROVE Lists /\ LbIInv
    OBVIOUS
  <2>1. LbInit /\ found = <<>> /\ nodes_ = <<>>
    BY DEF NmInit
  <2>2. Weighed(<<>>)
    BY SMTT(60) DEF Weighed
  <2>3. QED
    BY <2>1, <2>2, LbBegins DEF Lists
<1>2. QED
  BY <1>1, ListsStep, BalancerStep, PTL DEF NmSpec

\* The balancer of a manager rotates strictly, however its list is refreshed.
THEOREM ManagerRotates == NmSpec => []StrictRotation
  BY BalancerInvariant, LbImplies, PTL

\* The balancer of a manager gives every node its share of the random numbers.
THEOREM ManagerShares == NmSpec => []WeightedShare
  BY BalancerInvariant, LbImplies, PTL
===============================================================================
