------------------------------- MODULE WireProofs ------------------------------
(***************************************************************************)
(* Every frame is read as it was written and within its end, for any base, *)
(* lengths and values: the digits of a number make the number again, so do *)
(* the bytes of a field; the reader comes to the fields in the order in    *)
(* which they are on the wire; and each starts where the one before ended. *)
(***************************************************************************)
EXTENDS Wire, WellFoundedInduction, TLAPS

\* The prover of a step that names none; SMT is named where Zenon does not do.
USE ZenonT(60), SMTT(60)

-------------------------------------------------------------------------------
(* Induction over the natural numbers, for sets *)

\* A set of natural numbers has a least element.
LEMMA LeastNumber ==
  ASSUME NEW S \in SUBSET Nat, S # {}
  PROVE  \E m \in S : \A k \in S : m <= k
<1> DEFINE R == OpToRel(<, Nat)
<1>1. \E x \in S : \A y \in S : ~(<<y, x>> \in R)
  BY NatLessThanWellFounded, WFMin
<1>2. \A x, y \in Nat : <<y, x>> \in R <=> y < x
  BY DEF OpToRel
<1> HIDE DEF R
<1>3. PICK x \in S : \A y \in S : ~(<<y, x>> \in R)
  BY <1>1
<1>4. \A y \in S : ~(y < x)
  BY <1>2, <1>3
<1>5. QED
  BY <1>4, SMTT(60)

\* Induction over the numbers up to n.
LEMMA InductionUpTo ==
  ASSUME NEW n \in Nat, NEW S, 0 \in S, \A i \in 0 .. n - 1 : i \in S => i + 1 \in S
  PROVE  0 .. n \subseteq S
<1> DEFINE M == {i \in 0 .. n : i \notin S}
<1> SUFFICES ASSUME M # {} PROVE FALSE
  OBVIOUS
<1>0. M \in SUBSET Nat
  BY SMTT(60)
<1> HIDE DEF M
<1>1. PICK m \in M : \A k \in M : m <= k
  BY <1>0, LeastNumber
<1> USE DEF M
<1>2. m - 1 \in 0 .. n - 1 /\ m - 1 \in S
  BY <1>1, SMTT(60)
<1>3. QED
  BY <1>1, <1>2, SMTT(60)

\* y, a sequence over T, is s and t one after the other.
Joins(y, s, t, T) ==
  /\ y \in Seq(T) /\ Len(s) \in Nat /\ Len(t) \in Nat /\ Len(y) \in Nat /\ Len(y) = Len(s) + Len(t)
  /\ \A i \in 1 .. Len(s) : y[i] = s[i] /\ i \in 1 .. Len(y)
  /\ \A i \in 1 .. Len(t) : y[Len(s) + i] = t[i] /\ Len(s) + i \in 1 .. Len(y)
  /\ \A i \in 1 .. Len(y) : i \in 1 .. Len(s) \/ (i - Len(s) \in 1 .. Len(t) /\ y[i] = t[i - Len(s)])

\* A function on 1 .. N is a sequence of length N.
LEMMA SeqOf ==
  ASSUME NEW S, NEW N \in Nat, NEW g, g = [i \in 1 .. N |-> g[i]], \A i \in 1 .. N : g[i] \in S
  PROVE  g \in Seq(S) /\ Len(g) = N
BY SMTT(60)

\* The first element of a sequence, and what follows it.
LEMMA HeadAndTail ==
  ASSUME NEW S, NEW s \in Seq(S), s # <<>>
  PROVE  /\ Len(s) \in Nat \ {0} /\ Head(s) = s[1] /\ Head(s) \in S
         /\ Tail(s) \in Seq(S) /\ Len(Tail(s)) = Len(s) - 1
         /\ \A j \in 1 .. Len(s) - 1 : Tail(s)[j] = s[j + 1]
BY SMTT(60)

\* Concatenation, element by element.
LEMMA Joined ==
  ASSUME NEW T, NEW s \in Seq(T), NEW t \in Seq(T)
  PROVE  Joins(s \o t, s, t, T)
<1>0. PICK y : y = s \o t
  OBVIOUS
<1>1. y \in Seq(T) /\ Len(s) \in Nat /\ Len(t) \in Nat /\ Len(y) \in Nat /\ Len(y) = Len(s) + Len(t)
  BY <1>0, SMTT(60)
<1>2. \A i \in 1 .. Len(s) : y[i] = s[i]
  BY <1>0, SMTT(60)
<1>3. \A i \in 1 .. Len(t) : y[Len(s) + i] = t[i]
  <2> SUFFICES ASSUME NEW i \in 1 .. Len(t) PROVE y[Len(s) + i] = t[i]
    OBVIOUS
  <2>1. Len(s) + i - Len(s) = i /\ Len(s) + i \in Len(s) + 1 .. Len(s) + Len(t)
    BY <1>1, SMTT(60)
  <2>2. QED
    BY <1>0, <1>1, <2>1, SMTT(60)
<1>4. ASSUME NEW i \in 1 .. Len(y), ~(i \in 1 .. Len(s)) PROVE i - Len(s) \in 1 .. Len(t) /\ y[i] = t[i - Len(s)]
  <2>1. PICK j : j = i - Len(s)
    OBVIOUS
  <2>2. j \in 1 .. Len(t) /\ i = Len(s) + j
    BY <1>1, <1>4, <2>1, SMTT(60)
  <2>3. QED
    BY <1>3, <2>1, <2>2
<1>5. \A i \in 1 .. Len(s) : i \in 1 .. Len(y)
  BY <1>1, SMTT(60)
<1>6. \A i \in 1 .. Len(t) : Len(s) + i \in 1 .. Len(y)
  BY <1>1, SMTT(60)
<1>7. QED
  BY <1>0, <1>1, <1>2, <1>3, <1>4, <1>5, <1>6 DEF Joins

-------------------------------------------------------------------------------
(* Integers *)

\* f[w] is the w-th power of the base, up to the n-th.
Powers(f, n) == f = [w \in 0 .. n |-> IF w = 0 THEN 1 ELSE f[w - 1] * B]

\* Power, a recursive function, is what its definition says.
LEMMA PowerDefined ==
  /\ Power[0] = 1
  /\ \A w \in 1 .. 8 : Power[w] = Power[w - 1] * B
<1> DEFINE S == {k \in 0 .. 8 : \E f : Powers(f, k)}
<1>1. 0 \in S
  <2>1. Powers([w \in 0 .. 0 |-> 1], 0)
    BY SMTT(60) DEF Powers
  <2>2. QED
    BY <2>1, SMTT(60)
<1>2. ASSUME NEW k \in 0 .. 8 - 1, k \in S PROVE k + 1 \in S
  <2>1. PICK f : Powers(f, k)
    BY <1>2
  <2> DEFINE g == [w \in 0 .. k + 1 |-> IF w = k + 1 THEN f[k] * B ELSE f[w]]
  <2>a. \A w \in 0 .. k : f[w] = IF w = 0 THEN 1 ELSE f[w - 1] * B
    BY <2>1 DEF Powers
  <2>b. (\A w \in 0 .. k : g[w] = f[w]) /\ g[k + 1] = f[k] * B
    BY SMTT(60)
  <2>c. \A w \in 1 .. k : g[w - 1] = f[w - 1]
    BY <2>b, SMTT(60)
  <2>2. \A w \in 0 .. k + 1 : g[w] = IF w = 0 THEN 1 ELSE g[w - 1] * B
    <3> HIDE DEF g
    <3> QED BY <2>a, <2>b, <2>c, SMTT(60)
  <2>3. Powers(g, k + 1)
    BY <2>2 DEF Powers
  <2> HIDE DEF g
  <2>4. QED
    BY <2>3, SMTT(60)
<1>3. \E f : Powers(f, 8)
  <2> HIDE DEF S
  <2>1. 0 .. 8 \subseteq S
    BY <1>1, <1>2, InductionUpTo
  <2> USE DEF S
  <2>2. QED
    BY <2>1, SMTT(60)
<1>4. Power = CHOOSE f : Powers(f, 8)
  BY DEF Power, Powers
<1>5. Powers(Power, 8)
  BY <1>3, <1>4
<1>6. QED
  BY <1>5, SMTT(60) DEF Powers

\* The powers are positive, and even but for the first.
LEMMA PowerIs ==
  /\ \A w \in 0 .. 8 : Power[w] \in Nat \ {0}
  /\ \A w \in 1 .. 8 : Power[w] = 2 * (Power[w] \div 2) /\ Power[w] \div 2 \in Nat /\ B <= Power[w]
<1> DEFINE S == {w \in 0 .. 8 : Power[w] \in Nat \ {0}}
<1>0. B \in Nat \ {0}
  BY WireAssumption, SMTT(60)
<1>1. 0 \in S
  BY PowerDefined, SMTT(60)
<1>2. ASSUME NEW k \in 0 .. 8 - 1, k \in S PROVE k + 1 \in S
  <2>1. Power[k + 1] = Power[k] * B /\ Power[k] \in Nat \ {0}
    BY <1>2, PowerDefined, SMTT(60)
  <2>2. Power[k] * B \in Nat \ {0}
    BY <1>0, <2>1, SMTT(60)
  <2>3. QED
    BY <2>1, <2>2, SMTT(60)
<1>3. 0 .. 8 \subseteq S
  <2> HIDE DEF S
  <2> QED BY <1>1, <1>2, InductionUpTo
<1>4. ASSUME NEW w \in 1 .. 8
      PROVE  Power[w] = 2 * (Power[w] \div 2) /\ Power[w] \div 2 \in Nat /\ B <= Power[w]
  <2>1. PICK p, q : p = Power[w - 1] /\ q = Power[w]
    OBVIOUS
  <2>2. p \in Nat \ {0} /\ q = p * B
    BY <1>3, <2>1, PowerDefined, SMTT(60)
  <2>3. PICK h \in Nat : B = 2 * h
    BY WireAssumption, SMTT(60)
  <2>4. q = 2 * (p * h) /\ p * h \in Nat /\ B <= q
    BY <1>0, <2>2, <2>3, SMTT(60)
  <2>5. q \div 2 = p * h
    BY <2>4, SMTT(60)
  <2>6. QED
    BY <2>1, <2>4, <2>5
<1>5. QED
  BY <1>3, <1>4

\* Dividing twice.
LEMMA Divides ==
  ASSUME NEW v \in Int, NEW P \in Nat \ {0}
  PROVE  /\ v \div P \in Int /\ v % P \in 0 .. P - 1 /\ v = (v \div P) * P + (v % P)
         /\ v \div (P * B) = (v \div P) \div B
<1>0. B \in Nat \ {0}
  BY WireAssumption, SMTT(60)
<1>1. v \div P \in Int /\ v % P \in 0 .. P - 1 /\ v = (v \div P) * P + (v % P)
  BY SMTT(60)
<1>2. v \div (P * B) = (v \div P) \div B
  BY <1>0, SMTT(60)
<1>3. QED
  BY <1>1, <1>2

\* n has the numbers that the first bytes from p on make, up to w of them.
Sums(n, p, w) == n = [i \in 0 .. w |-> IF i = 0 THEN 0 ELSE n[i - 1] * B + Byte(p + i)]

\* Number is what its definition says.
LEMMA NumberDefined ==
  ASSUME NEW p, NEW w \in Nat
  PROVE  \E n : /\ n[0] = 0 /\ \A i \in 1 .. w : n[i] = n[i - 1] * B + Byte(p + i)
                /\ Number(p, w) = n[w]
<1> DEFINE S == {k \in 0 .. w : \E f : Sums(f, p, k)}
<1>1. 0 \in S
  <2>1. Sums([i \in 0 .. 0 |-> 0], p, 0)
    BY SMTT(60) DEF Sums
  <2>2. QED
    BY <2>1, SMTT(60)
<1>2. ASSUME NEW k \in 0 .. w - 1, k \in S PROVE k + 1 \in S
  <2>1. PICK f : Sums(f, p, k)
    BY <1>2
  <2> DEFINE g == [i \in 0 .. k + 1 |-> IF i = k + 1 THEN f[k] * B + Byte(p + (k + 1)) ELSE f[i]]
  <2>a. \A i \in 0 .. k : f[i] = IF i = 0 THEN 0 ELSE f[i - 1] * B + Byte(p + i)
    BY <2>1 DEF Sums
  <2>b. (\A i \in 0 .. k : g[i] = f[i]) /\ g[k + 1] = f[k] * B + Byte(p + (k + 1))
    BY SMTT(60)
  <2>c. \A i \in 1 .. k : g[i - 1] = f[i - 1]
    BY <2>b, SMTT(60)
  <2>2. \A i \in 0 .. k + 1 : g[i] = IF i = 0 THEN 0 ELSE g[i - 1] * B + Byte(p + i)
    <3> HIDE DEF g
    <3> QED BY <2>a, <2>b, <2>c, SMTT(60)
  <2>3. Sums(g, p, k + 1)
    BY <2>2 DEF Sums
  <2> HIDE DEF g
  <2>4. QED
    BY <2>3, SMTT(60)
<1>3. \E f : Sums(f, p, w)
  <2> HIDE DEF S
  <2>1. 0 .. w \subseteq S
    BY <1>1, <1>2, InductionUpTo
  <2> USE DEF S
  <2>2. QED
    BY <2>1, SMTT(60)
<1>4. PICK n : n = CHOOSE f : Sums(f, p, w)
  OBVIOUS
<1>5. Number(p, w) = n[w]
  BY <1>4 DEF Number, Sums
<1>6. Sums(n, p, w)
  BY <1>3, <1>4
<1>7. QED
  BY <1>5, <1>6, SMTT(60) DEF Sums

\* The digits of v, read again, are v modulo the width.
LEMMA NumberRead ==
  ASSUME NEW p \in Nat, NEW w \in 1 .. 8, NEW v \in Int,
         \A i \in 1 .. w : Byte(p + i) = Digits(v, w)[i]
  PROVE  Number(p, w) = v % Power[w]
<1>1. PICK n : /\ n[0] = 0 /\ \A i \in 1 .. w : n[i] = n[i - 1] * B + Byte(p + i)
               /\ Number(p, w) = n[w]
  BY NumberDefined, SMTT(60)
<1>2. PICK Q : Q = v \div Power[w]
  OBVIOUS
<1>3. Power[w] \in Nat \ {0} /\ Q \in Int /\ B \in Nat \ {0} /\ w \in Nat
  <2>1. Power[w] \in Nat \ {0} /\ B \in Nat \ {0}
    BY PowerIs, WireAssumption, SMTT(60)
  <2>2. QED
    BY <1>2, <2>1, SMTT(60)
<1> DEFINE S == {k \in 0 .. w : n[k] = v \div Power[w - k] - Q * Power[k]}
<1>4. 0 \in S
  BY <1>1, <1>2, <1>3, PowerDefined, SMTT(60)
<1>5. ASSUME NEW k \in 0 .. w - 1, k \in S PROVE k + 1 \in S
  <2>1. PICK a, b, P, q : a = Power[k] /\ b = Power[k + 1] /\ P = Power[w - (k + 1)] /\ q = v \div P
    OBVIOUS
  <2>2. a \in Nat \ {0} /\ b = a * B /\ P \in Nat \ {0} /\ Power[w - k] = P * B
    <3>1. k \in 0 .. 8 /\ k + 1 \in 1 .. 8 /\ w - (k + 1) \in 0 .. 8 /\ w - k \in 1 .. 8 /\ w - k - 1 = w - (k + 1)
           /\ k + 1 - 1 = k
      BY SMTT(60)
    <3>2. QED
      BY <2>1, <3>1, PowerIs, PowerDefined, SMTT(60)
  <2>3. q \in Int /\ v \div (P * B) = q \div B /\ q \div B \in Int /\ q % B \in Int /\ (q \div B) * B + (q % B) = q
    <3>1. q \in Int /\ v \div (P * B) = q \div B
      BY <2>1, <2>2, Divides
    <3>2. q \div B \in Int /\ q % B \in 0 .. B - 1 /\ q = (q \div B) * B + (q % B)
      BY <1>3, <3>1, Divides
    <3>3. QED
      BY <1>3, <3>1, <3>2, SMTT(60)
  <2>4. n[k] = q \div B - Q * a
    BY <1>5, <2>1, <2>2, <2>3
  <2>5. Byte(p + (k + 1)) = q % B
    BY <2>1, SMTT(60) DEF Digits
  <2>6. n[k + 1] = n[k] * B + (q % B)
    BY <1>1, <2>5, SMTT(60)
  <2>7. n[k + 1] = q - Q * b
    <3>1. PICK d, r : d = q \div B /\ r = q % B
      OBVIOUS
    <3>2. d \in Int /\ r \in Int /\ d * B + r = q /\ n[k + 1] = (d - Q * a) * B + r
      BY <2>3, <2>4, <2>6, <3>1
    <3>3. (d - Q * a) * B = d * B - Q * (a * B)
      BY <1>3, <2>2, <3>2, SMTT(60)
    <3>4. QED
      BY <1>3, <2>2, <3>2, <3>3, SMTT(60)
  <2>8. QED
    BY <2>1, <2>7, SMTT(60)
<1>6. 0 .. w \subseteq S
  <2> HIDE DEF S
  <2> QED BY <1>3, <1>4, <1>5, InductionUpTo
<1>7. n[w] = v \div 1 - Q * Power[w]
  BY <1>6, PowerDefined, SMTT(60)
<1>8. v \div 1 = v /\ v = Q * Power[w] + (v % Power[w]) /\ v % Power[w] \in Int
  <2>1. PICK P : P = Power[w]
    OBVIOUS
  <2>2. v = Q * P + (v % P) /\ v % P \in Int
    BY <1>2, <1>3, <2>1, SMTT(60)
  <2>3. QED
    BY <2>1, <2>2, SMTT(60)
<1>9. QED
  BY <1>1, <1>3, <1>7, <1>8, SMTT(60)
\* What the RPC protocol reads as the length of a string is not negative.
LEMMA ReadsNatural ==
  ASSUME NEW p \in Nat, NEW t \in {"str16", "str32"}, buf \in Seq(Nat)
  PROVE  ReadNumber(p, t) \in Nat
<1>1. PICK w : w = Width(t)
  OBVIOUS
<1>2. w \in Nat
  BY <1>1 DEF Width
<1>3. PICK n : /\ n[0] = 0 /\ \A i \in 1 .. w : n[i] = n[i - 1] * B + Byte(p + i)
               /\ Number(p, w) = n[w]
  BY <1>2, NumberDefined
<1>4. \A i \in 1 .. w : Byte(p + i) \in Nat
  BY <1>2, SMTT(60) DEF Byte
<1> DEFINE S == {k \in 0 .. w : n[k] \in Nat}
<1>5. 0 \in S
  BY <1>2, <1>3, SMTT(60)
<1>6. ASSUME NEW k \in 0 .. w - 1, k \in S PROVE k + 1 \in S
  <2>1. k + 1 \in 1 .. w /\ k + 1 - 1 = k /\ n[k] \in Nat
    BY <1>2, <1>6, SMTT(60)
  <2>2. n[k + 1] \in Nat
    <3>1. PICK a, b, d : a = n[k] /\ b = Byte(p + (k + 1)) /\ d = n[k + 1]
      OBVIOUS
    <3>2. b \in Nat
      BY <1>4, <2>1, <3>1
    <3>3. d = a * B + b
      BY <1>3, <2>1, <3>1, SMTT(60)
    <3>4. a \in Nat /\ B \in Nat
      BY <2>1, <3>1, WireAssumption
    <3>5. a * B \in Nat
      BY <3>4, SMTT(60)
    <3>6. QED
      BY <3>1, <3>2, <3>3, <3>5, SMTT(60)
  <2>3. QED
    BY <1>2, <2>2, SMTT(60)
<1>7. 0 .. w \subseteq S
  <2> HIDE DEF S
  <2> QED BY <1>2, <1>5, <1>6, InductionUpTo
<1>8. Number(p, w) \in Nat
  BY <1>2, <1>3, <1>7, SMTT(60)
<1>9. QED
  BY <1>1, <1>8 DEF ReadNumber

-------------------------------------------------------------------------------
(* One field *)

FieldTypes == {"u8", "bool", "u32", "i32", "i64", "str16", "str32", "string", "vector"}
Texts      == {"str16", "str32", "string"}
Signed     == {"i32", "i64", "string", "vector"}

\* The number that is written for the value v of a field of type t.
Written(t, v) == IF t = "bool" THEN (IF v THEN 1 ELSE 0) ELSE IF t \in Texts THEN Len(v) ELSE v

\* What a value of type t is, and when it can be told from its bytes.
Typed(t, v) == IF t = "bool" THEN v \in BOOLEAN ELSE IF t \in Texts THEN v \in Seq(Nat) ELSE v \in Int

Fits(t, v) ==
  IF t \in Signed THEN Written(t, v) \in -(Power[Width(t)] \div 2) .. Power[Width(t)] \div 2 - 1
  ELSE Written(t, v) \in 0 .. Power[Width(t)] - 1

\* The bytes x are in b, from p on.
Holds(b, p, x) == p + Len(x) <= Len(b) /\ \A j \in 1 .. Len(x) : b[p + j] = x[j]

\* The bytes of a value: a number, and for a text the text.
LEMMA BytesAre ==
  ASSUME NEW t \in FieldTypes, NEW v, Typed(t, v)
  PROVE  /\ Width(t) \in {1, 2, 4, 8} /\ Written(t, v) \in Int
         /\ Bytes(t, v) \in Seq(Nat)
         /\ Len(Bytes(t, v)) = Width(t) + (IF t \in Texts THEN Len(v) ELSE 0)
         /\ \A j \in 1 .. Width(t) : Bytes(t, v)[j] = Digits(Written(t, v), Width(t))[j]
         /\ t \in Texts => v \in Seq(Nat) /\ \A j \in 1 .. Len(v) : Bytes(t, v)[Width(t) + j] = v[j]
<1>1. Width(t) \in {1, 2, 4, 8} /\ (t = "bool" => Width(t) = 1)
  BY DEF Width, FieldTypes
<1>2. Written(t, v) \in Int
  BY SMTT(60) DEF Written, Typed
<1>3. PICK w, n, d : w = Width(t) /\ n = Written(t, v) /\ d = Digits(n, w)
  OBVIOUS
<1>4. d \in Seq(Nat) /\ Len(d) = w
  <2>1. \A i \in 1 .. w : Power[w - i] \in Nat \ {0}
    BY <1>1, <1>3, PowerIs, SMTT(60)
  <2>2. \A i \in 1 .. w : (n \div Power[w - i]) % B \in Nat
    BY <1>2, <1>3, <2>1, WireAssumption, SMTT(60)
  <2>3. QED
    BY <1>1, <1>3, <2>2, SMTT(60) DEF Digits
<1>5. CASE t = "bool"
  <2>1. n \in {0, 1} /\ Bytes(t, v) = <<n>> /\ t \notin Texts
    BY <1>3, <1>5 DEF Bytes, Written, Texts
  <2>2. w = 1 /\ d[1] = n
    <3>1. n \div Power[0] = n
      BY <2>1, PowerDefined, SMTT(60)
    <3>2. n % B = n
      BY <2>1, WireAssumption, SMTT(60)
    <3>3. QED
      BY <1>1, <1>3, <1>5, <3>1, <3>2, SMTT(60) DEF Digits
  <2>3. <<n>> \in Seq(Nat) /\ Len(<<n>>) = 1 /\ <<n>>[1] = n
    BY <2>1, SMTT(60)
  <2>4. QED
    BY <1>1, <1>2, <1>3, <2>1, <2>2, <2>3, SMTT(60)
<1>6. CASE t \in Texts
  <2>1. v \in Seq(Nat) /\ n = Len(v) /\ Bytes(t, v) = d \o v
    BY <1>3, <1>6 DEF Bytes, Written, Texts, Typed
  <2>2. PICK y : y = d \o v
    OBVIOUS
  <2>3. /\ w \in Nat /\ y \in Seq(Nat) /\ Len(y) = w + Len(v)
        /\ (\A j \in 1 .. w : y[j] = d[j]) /\ \A j \in 1 .. Len(v) : y[w + j] = v[j]
    <3>1. w \in Nat
      <4>1. w \in {1, 2, 4, 8}
        BY <1>1, <1>3
      <4>2. QED
        BY <4>1, SMTT(60)
    <3>2. Joins(y, d, v, Nat)
      BY <1>4, <2>1, <2>2, Joined
    <3>3. QED
      BY <1>4, <3>1, <3>2 DEF Joins
  <2>4. QED
    BY <1>1, <1>2, <1>3, <1>6, <2>1, <2>2, <2>3
<1>7. CASE t # "bool" /\ t \notin Texts
  <2>1. Bytes(t, v) = d
    BY <1>3, <1>7 DEF Bytes, Written, Texts
  <2>2. QED
    BY <1>1, <1>2, <1>3, <1>4, <1>7, <2>1, SMTT(60)
<1>8. QED
  BY <1>5, <1>6, <1>7

\* A number that fits is read as it was written.
LEMMA NumberBack ==
  ASSUME NEW t \in FieldTypes, NEW v, Typed(t, v), Fits(t, v), NEW p \in Nat, buf \in Seq(Nat),
         Holds(buf, p, Bytes(t, v))
  PROVE  ReadNumber(p, t) = Written(t, v)
<1>1. PICK w, n, P : w = Width(t) /\ n = Written(t, v) /\ P = Power[w]
  OBVIOUS
<1>2. w \in 1 .. 8 /\ n \in Int /\ P \in Nat \ {0} /\ P = 2 * (P \div 2) /\ P \div 2 \in Nat
  <2>1. w \in {1, 2, 4, 8} /\ n \in Int
    BY <1>1, BytesAre
  <2>2. w \in 1 .. 8 /\ w \in 0 .. 8
    BY <2>1, SMTT(60)
  <2>3. QED
    BY <1>1, <2>1, <2>2, PowerIs
<1>3. \A i \in 1 .. w : Byte(p + i) = Digits(n, w)[i]
  <2> SUFFICES ASSUME NEW i \in 1 .. w PROVE Byte(p + i) = Digits(n, w)[i]
    OBVIOUS
  <2>1. PICK x : x = Bytes(t, v)
    OBVIOUS
  <2>2. Len(x) \in Nat /\ i \in 1 .. Len(x) /\ x[i] = Digits(n, w)[i]
    <3>1. /\ x \in Seq(Nat) /\ Len(x) = w + (IF t \in Texts THEN Len(v) ELSE 0)
          /\ x[i] = Digits(n, w)[i] /\ (t \in Texts => v \in Seq(Nat))
      BY <1>1, <2>1, BytesAre
    <3>2. QED
      BY <1>2, <3>1, SMTT(60)
  <2>3. p + i <= Len(buf) /\ buf[p + i] = x[i]
    BY <1>2, <2>1, <2>2, SMTT(60) DEF Holds
  <2>4. QED
    BY <2>2, <2>3 DEF Byte
<1>4. Number(p, w) = n % P
  BY <1>1, <1>2, <1>3, NumberRead
<1>5. CASE t \in Signed
  <2>1. n \in -(P \div 2) .. P \div 2 - 1
    BY <1>1, <1>5 DEF Fits
  <2>2. n % P = IF n < 0 THEN n + P ELSE n
    BY <1>2, <2>1, SMTT(60)
  <2>3. QED
    <3>1. PICK r : r = n % P
      OBVIOUS
    <3>2. ReadNumber(p, t) = IF r >= P \div 2 THEN r - P ELSE r
      BY <1>1, <1>4, <1>5, <3>1 DEF ReadNumber, Signed
    <3>3. PICK h : h = P \div 2
      OBVIOUS
    <3>4. h \in Nat /\ P = 2 * h /\ n \in -h .. h - 1 /\ n \in Int /\ r = IF n < 0 THEN n + P ELSE n
      BY <1>2, <2>1, <2>2, <3>1, <3>3
    <3>5. (IF r >= h THEN r - P ELSE r) = n
      BY <3>4, SMTT(60)
    <3>6. QED
      BY <1>1, <3>2, <3>3, <3>5
<1>6. CASE t \notin Signed
  <2>1. n \in 0 .. P - 1
    BY <1>1, <1>6 DEF Fits
  <2>2. n % P = n
    BY <1>2, <2>1, SMTT(60)
  <2>3. QED
    BY <1>1, <1>2, <1>4, <1>6, <2>1, <2>2 DEF ReadNumber, Signed
<1>7. QED
  BY <1>5, <1>6

\* A field that fits is read as it was written, up to where it ends, and it is not
\* found to be short.
LEMMA ItemBack ==
  ASSUME NEW t \in FieldTypes, NEW v, Typed(t, v), Fits(t, v), NEW p \in Nat, buf \in Seq(Nat),
         Holds(buf, p, Bytes(t, v))
  PROVE  /\ Item(p, t).value = v /\ Item(p, t).next = p + Len(Bytes(t, v))
         /\ ~Short(p, t)
<1>1. PICK w, n, x : w = Width(t) /\ n = ReadNumber(p, t) /\ x = Bytes(t, v)
  OBVIOUS
<1>2. n = Written(t, v)
  BY <1>1, NumberBack
<1>3. /\ w \in Nat /\ n \in Int /\ Len(x) = w + (IF t \in Texts THEN Len(v) ELSE 0)
      /\ t \in Texts => v \in Seq(Nat) /\ \A j \in 1 .. Len(v) : x[w + j] = v[j]
  BY <1>1, <1>2, BytesAre, SMTT(60)
<1>4. p + Len(x) <= Len(buf) /\ \A j \in 1 .. Len(x) : buf[p + j] = x[j]
  BY <1>1 DEF Holds
<1>5. CASE t \in Texts
  <2>1. n = Len(v) /\ n \in Nat /\ t # "bool"
    BY <1>2, <1>3, <1>5, SMTT(60) DEF Written, Texts
  <2>2. \A i \in 1 .. n : Byte(p + w + i) = v[i]
    <3> SUFFICES ASSUME NEW i \in 1 .. n PROVE Byte(p + w + i) = v[i]
      OBVIOUS
    <3>1. w + i \in 1 .. Len(x) /\ p + w + i = p + (w + i) /\ p + w + i <= Len(buf)
      BY <1>3, <1>4, <1>5, <2>1, SMTT(60)
    <3>2. QED
      BY <1>3, <1>4, <1>5, <2>1, <3>1 DEF Byte
  <2>3. [i \in 1 .. n |-> Byte(p + w + i)] = v
    BY <1>3, <1>5, <2>1, <2>2, SMTT(60)
  <2>4. Item(p, t) = [value |-> [i \in 1 .. n |-> Byte(p + w + i)], next |-> p + w + n]
    BY <1>1, <1>5 DEF Item, Texts
  <2>5. ~Short(p, t)
    BY <1>1, <1>3, <1>4, <1>5, <2>1, SMTT(60) DEF Short
  <2>6. QED
    BY <1>1, <1>3, <1>5, <2>1, <2>3, <2>4, <2>5, SMTT(60)
<1>6. CASE t = "bool"
  <2>1. w = 1 /\ (n # 0) = v
    BY <1>1, <1>2, <1>6, SMTT(60) DEF Width, Written, Typed
  <2>2. Item(p, t) = [value |-> n # 0, next |-> p + 1]
    BY <1>1, <1>6 DEF Item
  <2>3. ~Short(p, t)
    BY <1>1, <1>3, <1>4, <1>6, SMTT(60) DEF Short, Texts
  <2>4. QED
    BY <1>1, <1>3, <1>6, <2>1, <2>2, <2>3, SMTT(60) DEF Texts
<1>7. CASE t # "bool" /\ t \notin Texts
  <2>1. n = v
    BY <1>2, <1>7 DEF Written
  <2>2. Item(p, t) = [value |-> n, next |-> p + w]
    BY <1>1, <1>7 DEF Item, Texts
  <2>3. ~Short(p, t)
    BY <1>1, <1>3, <1>4, <1>7, SMTT(60) DEF Short, Texts
  <2>4. QED
    BY <1>1, <1>3, <1>7, <2>1, <2>2, <2>3, SMTT(60)
<1>8. QED
  BY <1>5, <1>6, <1>7

-------------------------------------------------------------------------------
(* The fields of a message *)

FieldNames ==
  {"magic", "version", "msg_type", "serializer", "flags", "seq_id", "body_size", "checksum",
   "service_name", "method_name", "timeout_ms", "params", "error_code", "error_msg", "result",
   "xid", "opcode", "zxid", "err", "czxid", "mzxid", "ctime", "mtime", "cversion", "aversion",
   "ephemeral_owner", "data_length", "num_children", "pzxid", "perms", "scheme", "id",
   "protocol_version", "last_zxid_seen", "session_id", "passwd", "read_only", "path", "data",
   "acls", "children", "watch", "child"}

Fields == FieldNames \X FieldTypes

Flat == Expand(Writes(kind))

\* Fields that are read one after another, whatever they hold.
Plain(s) == \A i \in 1 .. Len(s) : s[i][1] # "opcode" /\ s[i][2] # "vector"

OneVector(s) == \A i, j \in 1 .. Len(s) : s[i][2] = "vector" /\ s[j][2] = "vector" => i = j

\* The body of a message to or from ZooKeeper.
IsBody(s) ==
  /\ s \in Seq(Fields) /\ OneVector(s)
  /\ \A i \in 1 .. Len(s) : s[i][1] # "opcode" /\ s[i][2] \notin {"str16", "str32"}

\* The statistics of a node are numbers.
LEMMA StatIs ==
  zk_stat = JuteStat /\ zk_stat \in Seq(Fields) /\ Plain(zk_stat)
  /\ \A i \in 1 .. Len(zk_stat) : zk_stat[i][2] \in {"i32", "i64"}
<1>1. zk_stat = JuteStat
  BY DEF zk_stat, JuteStat
<1>2. zk_stat \in Seq(Fields)
  BY SMTT(60) DEF zk_stat, Fields, FieldNames, FieldTypes
<1>3. \A i \in 1 .. Len(zk_stat) : zk_stat[i][2] \in {"i32", "i64"} /\ zk_stat[i][1] # "opcode"
  BY SMTT(60) DEF zk_stat
<1>4. QED
  BY <1>1, <1>2, <1>3 DEF Plain

\* Either end has the same body in mind, and the one for the opcode.
LEMMA BodyIs ==
  ASSUME NEW k \in Kinds \ Rpc
  PROVE  Jute(k) = Body(k) /\ IsBody(Body(k)) /\ (k \in Ops => JuteOf(op_code[k]) = Body(k) /\ op_code[k] \in 1 .. 8)
<1>0. Ops = {"create", "remove", "exists", "get_data", "get_children"}
  BY DEF Ops, op_code
<1>1. CASE k = "create"
  <2>1. Body(k) = create_request /\ Jute(k) = create_request
    BY <1>1 DEF Body, Jute, create_request
  <2>2. op_code[k] = 1 /\ JuteOf(1) = Jute("create")
    BY <1>1, SMTT(60) DEF op_code, JuteOf
  <2>3. IsBody(create_request)
    BY SMTT(60) DEF create_request, IsBody, Fields, FieldNames, FieldTypes, OneVector
  <2>4. QED
    BY <1>1, <2>1, <2>2, <2>3, SMTT(60)
<1>2. CASE k = "remove"
  <2>1. Body(k) = delete_request /\ Jute(k) = delete_request
    BY <1>2 DEF Body, Jute, delete_request
  <2>2. op_code[k] = 2 /\ JuteOf(2) = Jute("remove")
    BY <1>2, SMTT(60) DEF op_code, JuteOf
  <2>3. IsBody(delete_request)
    BY SMTT(60) DEF delete_request, IsBody, Fields, FieldNames, FieldTypes, OneVector
  <2>4. QED
    BY <1>2, <2>1, <2>2, <2>3, SMTT(60)
<1>3. CASE k \in {"exists", "get_data", "get_children"}
  <2> DEFINE r == << <<"path", "string">>, <<"watch", "bool">> >>
  <2>1. Body(k) = r /\ Jute(k) = r
    BY <1>3 DEF Body, Jute, exists_request, get_data_request, get_children_request
  <2>2. op_code[k] \in {3, 4, 8} /\ JuteOf(op_code[k]) = Jute(k)
    BY <1>3, SMTT(60) DEF op_code, JuteOf, Jute
  <2>3. IsBody(r)
    BY SMTT(60) DEF IsBody, Fields, FieldNames, FieldTypes, OneVector
  <2>4. QED
    BY <1>3, <2>1, <2>2, <2>3, SMTT(60)
<1>4. CASE k = "re_create"
  <2>1. Body(k) = create_response /\ Jute(k) = create_response
    BY <1>4 DEF Body, Jute, create_response
  <2>2. IsBody(create_response)
    BY SMTT(60) DEF create_response, IsBody, Fields, FieldNames, FieldTypes, OneVector
  <2>3. QED
    BY <1>0, <1>4, <2>1, <2>2
<1>5. CASE k = "re_exists"
  <2>1. Body(k) = zk_stat /\ Jute(k) = JuteStat
    BY <1>5 DEF Body, Jute, exists_response
  <2>2. IsBody(zk_stat)
    BY StatIs DEF IsBody, OneVector, Plain
  <2>3. QED
    BY <1>0, <1>5, <2>1, <2>2, StatIs
<1>6. CASE k = "re_get_data"
  <2> DEFINE d == << <<"data", "string">> >>
  <2>1. Body(k) = d \o zk_stat /\ Jute(k) = d \o JuteStat
    BY <1>6 DEF Body, Jute, get_data_response
  <2>2. d \in Seq(Fields) /\ Len(d) = 1 /\ d[1] = <<"data", "string">>
    BY SMTT(60) DEF Fields, FieldNames, FieldTypes
  <2> HIDE DEF d
  <2>3. PICK z : z = zk_stat
    OBVIOUS
  <2>4. /\ d \o z \in Seq(Fields) /\ Len(d \o z) = 1 + Len(z) /\ Len(z) \in Nat
        /\ (d \o z)[1] = d[1] /\ \A i \in 2 .. Len(d \o z) : (d \o z)[i] = z[i - 1] /\ i - 1 \in 1 .. Len(z)
    <3>1. Joins(d \o z, d, z, Fields)
      BY <2>2, <2>3, StatIs, Joined
    <3>2. QED
      BY <2>2, <3>1, SMTT(60) DEF Joins
  <2>5. \A i \in 1 .. Len(d \o z) : (d \o z)[i][2] \in {"string", "i32", "i64"} /\ (d \o z)[i][1] # "opcode"
    BY <2>2, <2>3, <2>4, StatIs, SMTT(60) DEF Plain
  <2>6. IsBody(d \o z)
    BY <2>4, <2>5 DEF IsBody, OneVector
  <2>7. QED
    BY <1>0, <1>6, <2>1, <2>3, <2>6, StatIs
<1>7. CASE k = "re_get_children"
  <2>1. Body(k) = get_children_response /\ Jute(k) = get_children_response
    BY <1>7 DEF Body, Jute, get_children_response
  <2>2. IsBody(get_children_response)
    BY SMTT(60) DEF get_children_response, IsBody, Fields, FieldNames, FieldTypes, OneVector
  <2>3. QED
    BY <1>0, <1>7, <2>1, <2>2
<1>8. CASE k = "connect"
  <2>1. Body(k) = connect_request /\ Jute(k) = connect_request
    BY <1>8 DEF Body, Jute, connect_request
  <2>2. IsBody(connect_request)
    BY SMTT(60) DEF connect_request, IsBody, Fields, FieldNames, FieldTypes, OneVector
  <2>3. QED
    BY <1>0, <1>8, <2>1, <2>2
<1>9. CASE k = "re_connect"
  <2>1. Body(k) = connect_response /\ Jute(k) = connect_response
    BY <1>9 DEF Body, Jute, connect_response
  <2>2. IsBody(connect_response)
    BY SMTT(60) DEF connect_response, IsBody, Fields, FieldNames, FieldTypes, OneVector
  <2>3. QED
    BY <1>0, <1>9, <2>1, <2>2
<1>10. QED
  BY <1>0, <1>1, <1>2, <1>3, <1>4, <1>5, <1>6, <1>7, <1>8, <1>9 DEF Kinds, Answers, Rpc

\* The types of the fields of the RPC protocol.
RpcFields == {f \in Fields : f[1] # "opcode" /\ f[2] \in {"u8", "u32", "i32", "str16", "str32"}}

\* The RPC protocol reads what it writes.
LEMMA RpcIs ==
  ASSUME NEW k \in Rpc
  PROVE  RpcReads[k] = RpcWrites[k] /\ RpcWrites[k] \in Seq(RpcFields)
<1>1. CASE k = "RpcHeader"
  <2>1. RpcWrites[k] = serialize_header /\ RpcReads[k] = deserialize_header
    BY <1>1 DEF RpcWrites, RpcReads
  <2>2. serialize_header = deserialize_header
    BY DEF serialize_header, deserialize_header
  <2>3. serialize_header \in Seq(RpcFields)
    BY SMTT(60) DEF serialize_header, RpcFields, Fields, FieldNames, FieldTypes
  <2>4. QED
    BY <2>1, <2>2, <2>3
<1>2. CASE k = "RpcRequest"
  <2>1. RpcWrites[k] = SerializeRequest /\ RpcReads[k] = DeserializeRequest
    BY <1>2 DEF RpcWrites, RpcReads
  <2>2. SerializeRequest = DeserializeRequest
    BY DEF SerializeRequest, DeserializeRequest
  <2>3. SerializeRequest \in Seq(RpcFields)
    BY SMTT(60) DEF SerializeRequest, RpcFields, Fields, FieldNames, FieldTypes
  <2>4. QED
    BY <2>1, <2>2, <2>3
<1>3. CASE k = "RpcResponse"
  <2>1. RpcWrites[k] = SerializeResponse /\ RpcReads[k] = DeserializeResponse
    BY <1>3 DEF RpcWrites, RpcReads
  <2>2. SerializeResponse = DeserializeResponse
    BY DEF SerializeResponse, DeserializeResponse
  <2>3. SerializeResponse \in Seq(RpcFields)
    BY SMTT(60) DEF SerializeResponse, RpcFields, Fields, FieldNames, FieldTypes
  <2>4. QED
    BY <2>1, <2>2, <2>3
<1>4. QED
  BY <1>1, <1>2, <1>3 DEF Rpc

\* The headers of ZooKeeper's messages.
LEMMA HeadersAre ==
  /\ request_header = Jute("header") /\ request_header \in Seq(Fields) /\ Len(request_header) = 2
  /\ request_header[1] = <<"xid", "i32">> /\ request_header[2] = <<"opcode", "i32">>
  /\ reply_header = Jute("re_header") /\ IsBody(reply_header) /\ Plain(reply_header)
<1>1. request_header = Jute("header") /\ reply_header = Jute("re_header")
  BY DEF request_header, reply_header, Jute
<1>2. request_header \in Seq(Fields) /\ reply_header \in Seq(Fields)
  BY SMTT(60) DEF request_header, reply_header, Fields, FieldNames, FieldTypes
<1>3. Plain(reply_header) /\ \A i \in 1 .. Len(reply_header) : reply_header[i][2] \in {"i32", "i64"}
  BY SMTT(60) DEF reply_header, Plain
<1>4. /\ Len(request_header) = 2
      /\ request_header[1] = <<"xid", "i32">> /\ request_header[2] = <<"opcode", "i32">>
  BY DEF request_header
<1>5. QED
  BY <1>1, <1>2, <1>3, <1>4 DEF IsBody, OneVector, Plain

\* What is written, and what is read, before vectors and bodies are unfolded.
LEMMA Formats ==
  ASSUME kind \in Kinds
  PROVE  /\ Writes(kind) \in Seq(Fields) /\ OneVector(Writes(kind))
         /\ kind \notin Rpc => \A i \in 1 .. Len(Writes(kind)) : Writes(kind)[i][2] \notin {"str16", "str32"}
         /\ kind \notin Ops => /\ Reads(kind) = Writes(kind)
                               /\ \A i \in 1 .. Len(Writes(kind)) : Writes(kind)[i][1] # "opcode"
         /\ kind \in Ops => /\ Reads(kind) = request_header /\ op_code[kind] \in 1 .. 8
                            /\ Writes(kind) = request_header \o JuteOf(op_code[kind])
                            /\ IsBody(JuteOf(op_code[kind]))
<1>0. Ops = {"create", "remove", "exists", "get_data", "get_children"}
  BY DEF Ops, op_code
<1>1. CASE kind \in Rpc
  <2>1. PICK w : w = RpcWrites[kind]
    OBVIOUS
  <2>2. Writes(kind) = w /\ Reads(kind) = w /\ w \in Seq(RpcFields) /\ kind \notin Ops
    BY <1>0, <1>1, <2>1, RpcIs DEF Writes, Reads, Rpc
  <2>3. \A i \in 1 .. Len(w) : w[i] \in RpcFields
    BY <2>2, SMTT(60)
  <2>4. w \in Seq(Fields) /\ \A i \in 1 .. Len(w) : w[i][1] # "opcode" /\ w[i][2] # "vector"
    BY <2>2, <2>3, SMTT(60) DEF RpcFields
  <2>5. QED
    BY <1>1, <2>2, <2>4 DEF OneVector
<1>2. CASE kind \in Ops
  <2>1. PICK h, b : h = request_header /\ b = Body(kind)
    OBVIOUS
  <2>2. kind \in Kinds \ Rpc
    BY <1>0, <1>2 DEF Kinds, Rpc
  <2>3. Writes(kind) = h \o b /\ Reads(kind) = h /\ b = JuteOf(op_code[kind]) /\ IsBody(b) /\ op_code[kind] \in 1 .. 8
    BY <1>2, <2>1, <2>2, BodyIs, HeadersAre DEF Writes, Reads
  <2>4. h \in Seq(Fields) /\ b \in Seq(Fields) /\ Len(h) = 2 /\ h[1][2] = "i32" /\ h[2][2] = "i32"
    BY <2>1, <2>3, HeadersAre, SMTT(60) DEF IsBody
  <2>5. /\ h \o b \in Seq(Fields) /\ Len(h \o b) = 2 + Len(b) /\ Len(b) \in Nat
        /\ (h \o b)[1] = h[1] /\ (h \o b)[2] = h[2]
        /\ \A i \in 3 .. Len(h \o b) : (h \o b)[i] = b[i - 2] /\ i - 2 \in 1 .. Len(b)
    <3>1. Joins(h \o b, h, b, Fields)
      BY <2>4, Joined
    <3>2. QED
      BY <2>4, <3>1, SMTT(60) DEF Joins
  <2>6. \A i \in 1 .. Len(h \o b) : (h \o b)[i][2] \notin {"str16", "str32"}
    BY <2>3, <2>4, <2>5, SMTT(60) DEF IsBody
  <2>7. OneVector(h \o b)
    <3>1. PICK y : y = h \o b
      OBVIOUS
    <3>2. ASSUME NEW i \in 1 .. Len(y), y[i][2] = "vector" PROVE i - 2 \in 1 .. Len(b) /\ b[i - 2][2] = "vector"
      <4>1. i # 1 /\ i # 2
        BY <2>4, <2>5, <3>1, <3>2
      <4>2. i \in 3 .. Len(y)
        BY <4>1, SMTT(60)
      <4>3. QED
        BY <2>5, <3>1, <3>2, <4>2
    <3>3. OneVector(y)
      <4> SUFFICES ASSUME NEW i \in 1 .. Len(y), NEW j \in 1 .. Len(y), y[i][2] = "vector", y[j][2] = "vector"
                   PROVE  i = j
        BY DEF OneVector
      <4>1. i - 2 = j - 2
        BY <2>3, <3>2 DEF IsBody, OneVector
      <4>2. QED
        BY <4>1, SMTT(60)
    <3>4. QED
      BY <3>1, <3>3
  <2>8. QED
    BY <1>2, <2>1, <2>2, <2>3, <2>5, <2>6, <2>7
<1>3. CASE kind \in Answers
  <2>1. PICK h, b : h = reply_header /\ b = Body(kind)
    OBVIOUS
  <2>2. kind \in Kinds \ Rpc /\ kind \notin Ops
    BY <1>0, <1>3 DEF Kinds, Rpc, Answers
  <2>3. Writes(kind) = h \o b /\ Reads(kind) = h \o b /\ IsBody(b)
    BY <1>3, <2>1, <2>2, BodyIs, HeadersAre DEF Writes, Reads
  <2>4. h \in Seq(Fields) /\ b \in Seq(Fields) /\ IsBody(h) /\ Plain(h)
    BY <2>1, <2>3, HeadersAre DEF IsBody
  <2>5. /\ h \o b \in Seq(Fields) /\ Len(h \o b) = Len(h) + Len(b) /\ Len(b) \in Nat /\ Len(h) \in Nat
        /\ \A i \in 1 .. Len(h) : (h \o b)[i] = h[i]
        /\ \A i \in Len(h) + 1 .. Len(h \o b) : (h \o b)[i] = b[i - Len(h)] /\ i - Len(h) \in 1 .. Len(b)
    <3>1. Joins(h \o b, h, b, Fields)
      BY <2>4, Joined
    <3>2. QED
      BY <2>4, <3>1, SMTT(60) DEF Joins
  <2>6. \A i \in 1 .. Len(h \o b) : (h \o b)[i][2] \notin {"str16", "str32"} /\ (h \o b)[i][1] # "opcode"
    BY <2>3, <2>4, <2>5, SMTT(60) DEF IsBody
  <2>7. OneVector(h \o b)
    <3>1. PICK y, l : y = h \o b /\ l = Len(h)
      OBVIOUS
    <3>2. ASSUME NEW i \in 1 .. Len(y), y[i][2] = "vector" PROVE i - l \in 1 .. Len(b) /\ b[i - l][2] = "vector"
      <4>1. ~(i \in 1 .. l)
        BY <2>4, <2>5, <3>1, <3>2 DEF Plain
      <4>2. i \in l + 1 .. Len(y) /\ l \in Nat
        BY <2>5, <3>1, <4>1, SMTT(60)
      <4>3. QED
        BY <2>5, <3>1, <3>2, <4>2
    <3>3. OneVector(y)
      <4> SUFFICES ASSUME NEW i \in 1 .. Len(y), NEW j \in 1 .. Len(y), y[i][2] = "vector", y[j][2] = "vector"
                   PROVE  i = j
        BY DEF OneVector
      <4>1. i - l = j - l
        BY <2>3, <3>2 DEF IsBody, OneVector
      <4>2. l \in Nat
        BY <2>5, <3>1
      <4>3. QED
        BY <4>1, <4>2, SMTT(60)
    <3>4. QED
      BY <3>1, <3>3
  <2>8. QED
    BY <2>2, <2>3, <2>5, <2>6, <2>7
<1>4. CASE kind \in {"connect", "re_connect"}
  <2>1. kind \in Kinds \ Rpc /\ kind \notin Ops /\ kind \notin Answers
    BY <1>0, <1>4 DEF Kinds, Rpc, Answers
  <2>2. Writes(kind) = Body(kind) /\ Reads(kind) = Body(kind) /\ IsBody(Body(kind))
    BY <1>4, <2>1, BodyIs DEF Writes, Reads
  <2>3. QED
    BY <2>1, <2>2 DEF IsBody
<1>5. QED
  BY <1>1, <1>2, <1>3, <1>4 DEF Kinds

\* The elements of a vector are plain.
LEMMA ElementsAre ==
  ASSUME NEW name, NEW n \in Nat
  PROVE  /\ Elements(name, n) \in Seq(Fields) /\ Plain(Elements(name, n))
         /\ \A i \in 1 .. Len(Elements(name, n)) : Elements(name, n)[i][2] \notin {"str16", "str32"}
<1>1. PICK e : e = Element(name)
  OBVIOUS
<1>2. /\ e \in Seq(Fields) /\ Len(e) \in {1, 3}
      /\ \A i \in 1 .. Len(e) : e[i][1] # "opcode" /\ e[i][2] \in {"i32", "string"}
  <2>1. CASE e = zk_acl
    BY <2>1, SMTT(60) DEF zk_acl, Fields, FieldNames, FieldTypes
  <2>2. CASE e = << <<"child", "string">> >>
    BY <2>2, SMTT(60) DEF Fields, FieldNames, FieldTypes
  <2>3. QED
    BY <1>1, <2>1, <2>2 DEF Element
<1>3. PICK s : s = Elements(name, n)
  OBVIOUS
<1>4. s = [i \in 1 .. n * Len(e) |-> e[((i - 1) % Len(e)) + 1]] /\ n * Len(e) \in Nat
  BY <1>1, <1>2, <1>3, SMTT(60) DEF Elements
<1>5. \A i \in 1 .. n * Len(e) : ((i - 1) % Len(e)) + 1 \in 1 .. Len(e)
  BY <1>2, SMTT(60)
<1>6. ASSUME NEW i \in 1 .. n * Len(e)
      PROVE  s[i] \in Fields /\ s[i][1] # "opcode" /\ s[i][2] \in {"i32", "string"}
  <2>1. PICK j : j = ((i - 1) % Len(e)) + 1
    OBVIOUS
  <2>2. j \in 1 .. Len(e) /\ s[i] = e[j]
    BY <1>4, <1>5, <2>1
  <2>3. QED
    BY <1>2, <2>2, SMTT(60)
<1>7. s \in Seq(Fields) /\ Len(s) = n * Len(e)
  <2>1. PICK N \in Nat : N = n * Len(e)
    BY <1>4
  <2>2. s = [i \in 1 .. N |-> s[i]] /\ \A i \in 1 .. N : s[i] \in Fields
    BY <1>4, <1>6, <2>1
  <2>3. QED
    BY <2>1, <2>2, SeqOf
<1>8. QED
  BY <1>3, <1>6, <1>7 DEF Plain

\* What follows the v-th element.
LEMMA RestOf ==
  ASSUME NEW T, NEW s \in Seq(T), NEW v \in 1 .. Len(s), NEW b, b = SubSeq(s, v + 1, Len(s))
  PROVE  b \in Seq(T) /\ Len(b) = Len(s) - v /\ \A i \in 1 .. Len(s) - v : b[i] = s[v + i]
<1>1. Len(s) \in Nat
  BY SMTT(60)
<1>2. b = [i \in 1 .. Len(s) - v |-> s[v + i]]
  <2>1. b = [i \in 1 .. (Len(s) - (v + 1) + 1) |-> s[i + (v + 1) - 1]]
    BY <1>1, SMTT(60)
  <2>2. Len(s) - (v + 1) + 1 = Len(s) - v /\ \A i \in 1 .. Len(s) - v : i + (v + 1) - 1 = v + i
    BY <1>1, SMTT(60)
  <2>3. QED
    BY <2>1, <2>2
<1>3. \A i \in 1 .. Len(s) - v : s[v + i] \in T
  BY <1>1, SMTT(60)
<1>4. QED
  BY <1>1, <1>2, <1>3, SMTT(60)

\* The length that counts children is a number.
LEMMA ThirdLen ==
  ASSUME lens \in [1 .. 3 -> Lens]
  PROVE  lens[3] \in Nat
<1>1. 3 \in 1 .. 3
  BY SMTT(60)
<1>2. lens[3] \in Lens
  BY <1>1
<1>3. QED
  BY <1>2, WireAssumption

\* On the wire, the vector of w, its v-th field, is followed by its elements e.
Unfolds(w, v, e) ==
  /\ e \in Seq(Fields) /\ Plain(e) /\ Len(Flat) = Len(w) + Len(e)
  /\ \A i \in 1 .. v : Flat[i] = w[i]
  /\ \A i \in 1 .. Len(e) : Flat[v + i] = e[i]
  /\ \A i \in v + 1 .. Len(w) : Flat[Len(e) + i] = w[i]

\* A field that the message can have.
Allowed(f) ==
  /\ f[1] = "opcode" => kind \in Ops /\ f[2] = "i32"
  /\ f[2] \in {"str16", "str32"} => kind \in Rpc

\* The fields as they are on the wire.
LEMMA FlatIs ==
  ASSUME kind \in Kinds, lens \in [1 .. 3 -> Lens], NEW w, w = Writes(kind)
  PROVE  /\ Flat \in Seq(Fields)
         /\ (\A i \in 1 .. Len(w) : w[i][2] # "vector") => Flat = w
         /\ \A v \in 1 .. Len(w) :
              w[v][2] = "vector" => Unfolds(w, v, Elements(w[v][1], Count(w[v][1])))
         /\ \A i \in 1 .. Len(Flat) : Allowed(Flat[i])
<1>1. /\ w \in Seq(Fields) /\ OneVector(w) /\ Len(w) \in Nat /\ DOMAIN w = 1 .. Len(w)
      /\ \A i \in 1 .. Len(w) : w[i][2] \in {"str16", "str32"} => kind \in Rpc
  BY Formats, SMTT(60)
<1>2. \A i \in 1 .. Len(w) : w[i][1] = "opcode" => kind \in Ops /\ w[i][2] = "i32"
  <2> SUFFICES ASSUME kind \in Ops, NEW i \in 1 .. Len(w), w[i][1] = "opcode" PROVE w[i][2] = "i32"
    BY Formats
  <2>1. PICK h, b : h = request_header /\ b = JuteOf(op_code[kind])
    OBVIOUS
  <2>2. w = h \o b /\ h \in Seq(Fields) /\ b \in Seq(Fields) /\ Len(h) = 2
        /\ h[1][1] = "xid" /\ h[1][2] = "i32" /\ h[2][2] = "i32"
        /\ \A j \in 1 .. Len(b) : b[j][1] # "opcode"
    BY <2>1, Formats, HeadersAre, SMTT(60) DEF IsBody
  <2>a. Joins(w, h, b, Fields)
    BY <2>2, Joined
  <2>3. Len(b) \in Nat /\ (i = 1 \/ i = 2 \/ (i - 2 \in 1 .. Len(b) /\ w[i] = b[i - 2]))
    BY <2>2, <2>a, SMTT(60) DEF Joins
  <2>4. w[1] = h[1] /\ w[2] = h[2]
    BY <2>2, <2>a, SMTT(60) DEF Joins
  <2>5. QED
    BY <2>2, <2>3, <2>4
<1>a. \A i \in 1 .. Len(w) : Allowed(w[i])
  BY <1>1, <1>2 DEF Allowed
<1>3. CASE \A i \in 1 .. Len(w) : w[i][2] # "vector"
  <2>1. Flat = w
    BY <1>1, <1>3 DEF Flat, Expand
  <2>2. QED
    BY <1>1, <1>a, <1>3, <2>1
<1>4. ASSUME NEW v \in 1 .. Len(w), w[v][2] = "vector"
      PROVE  /\ Flat \in Seq(Fields)
             /\ Unfolds(w, v, Elements(w[v][1], Count(w[v][1])))
             /\ \A i \in 1 .. Len(Flat) : Allowed(Flat[i])
  <2>1. v = VectorIn(w)
    <3>1. \A i \in DOMAIN w : w[i][2] = "vector" <=> i = v
      BY <1>1, <1>4 DEF OneVector
    <3>2. QED
      BY <1>1, <3>1 DEF VectorIn
  <2>2. PICK e : e = Elements(w[v][1], Count(w[v][1]))
    OBVIOUS
  <2>3. Flat = SubSeq(w, 1, v) \o e \o SubSeq(w, v + 1, Len(w))
    BY <1>1, <1>4, <2>1, <2>2 DEF Flat, Expand
  <2>4. Count(w[v][1]) \in Nat
    <3>1. lens[3] \in Nat
      BY ThirdLen
    <3>2. QED
      BY <3>1, SMTT(60) DEF Count
  <2>5. /\ e \in Seq(Fields) /\ Plain(e)
        /\ \A i \in 1 .. Len(e) : e[i][2] \notin {"str16", "str32"}
    BY <2>2, <2>4, ElementsAre
  <2>6. PICK a, b : a = SubSeq(w, 1, v) /\ b = SubSeq(w, v + 1, Len(w))
    OBVIOUS
  <2>7. /\ a \in Seq(Fields) /\ Len(a) = v /\ \A i \in 1 .. v : a[i] = w[i]
        /\ b \in Seq(Fields) /\ Len(b) = Len(w) - v /\ \A i \in 1 .. Len(w) - v : b[i] = w[v + i]
    <3>1. a \in Seq(Fields) /\ Len(a) = v /\ \A i \in 1 .. v : a[i] = w[i]
      BY <1>1, <2>6, SMTT(60)
    <3>2. b \in Seq(Fields) /\ Len(b) = Len(w) - v /\ \A i \in 1 .. Len(w) - v : b[i] = w[v + i]
      <4>1. w \in Seq(Fields) /\ v \in 1 .. Len(w) /\ b = SubSeq(w, v + 1, Len(w))
        BY <1>1, <2>6
      <4>2. QED
        BY <4>1, RestOf, SMTT(60)
    <3>3. QED
      BY <3>1, <3>2
  <2>8. /\ a \o e \in Seq(Fields) /\ Len(a \o e) = v + Len(e) /\ Len(e) \in Nat
        /\ \A i \in 1 .. v : (a \o e)[i] = w[i]
        /\ \A i \in 1 .. Len(e) : (a \o e)[v + i] = e[i]
    <3>1. Joins(a \o e, a, e, Fields)
      BY <2>5, <2>7, Joined
    <3>2. QED
      BY <2>7, <3>1 DEF Joins
  <2>9. PICK d : d = a \o e
    OBVIOUS
  <2>10. /\ Flat \in Seq(Fields) /\ Len(Flat) = Len(w) + Len(e)
         /\ \A i \in 1 .. v + Len(e) : Flat[i] = d[i]
         /\ \A i \in 1 .. Len(w) - v : Flat[v + Len(e) + i] = w[v + i]
    <3>1. Flat = d \o b /\ d \in Seq(Fields) /\ Len(d) = v + Len(e)
      BY <2>3, <2>6, <2>8, <2>9
    <3>2. Joins(Flat, d, b, Fields)
      BY <2>7, <3>1, Joined
    <3>3. Len(Flat) = Len(w) + Len(e)
      BY <1>1, <2>7, <2>8, <3>1, <3>2, SMTT(60) DEF Joins
    <3>4. \A i \in 1 .. v + Len(e) : Flat[i] = d[i]
      BY <3>1, <3>2 DEF Joins
    <3>5. ASSUME NEW i \in 1 .. Len(w) - v PROVE Flat[v + Len(e) + i] = w[v + i]
      <4>1. i \in 1 .. Len(b) /\ b[i] = w[v + i]
        BY <2>7
      <4>2. Flat[Len(d) + i] = b[i]
        BY <3>2, <4>1 DEF Joins
      <4>3. QED
        BY <3>1, <4>1, <4>2
    <3>6. QED
      BY <3>2, <3>3, <3>4, <3>5 DEF Joins
  <2>11. /\ \A i \in 1 .. v : Flat[i] = w[i]
         /\ \A i \in 1 .. Len(e) : Flat[v + i] = e[i]
    <3>1. ASSUME NEW i \in 1 .. v PROVE Flat[i] = w[i]
      <4>1. i \in 1 .. v + Len(e)
        BY <2>8, SMTT(60)
      <4>2. QED
        BY <2>8, <2>9, <2>10, <4>1
    <3>2. ASSUME NEW i \in 1 .. Len(e) PROVE Flat[v + i] = e[i]
      <4>1. v + i \in 1 .. v + Len(e)
        BY <2>8, SMTT(60)
      <4>2. QED
        BY <2>8, <2>9, <2>10, <4>1
    <3>3. QED
      BY <3>1, <3>2
  <2>12. \A i \in v + 1 .. Len(w) : Flat[Len(e) + i] = w[i]
    <3> SUFFICES ASSUME NEW i \in v + 1 .. Len(w) PROVE Flat[Len(e) + i] = w[i]
      OBVIOUS
    <3>1. i - v \in 1 .. Len(w) - v /\ v + Len(e) + (i - v) = Len(e) + i /\ v + (i - v) = i
      BY <1>1, <2>8, SMTT(60)
    <3>2. QED
      BY <2>10, <3>1
  <2>13. ASSUME NEW i \in 1 .. Len(Flat)
         PROVE  Allowed(Flat[i])
    <3>1. \/ i \in 1 .. v
          \/ i - v \in 1 .. Len(e) /\ i = v + (i - v)
          \/ i - Len(e) \in v + 1 .. Len(w) /\ i = Len(e) + (i - Len(e))
      BY <1>1, <2>8, <2>10, SMTT(60)
    <3>2. (\E j \in 1 .. Len(w) : Flat[i] = w[j]) \/ (\E j \in 1 .. Len(e) : Flat[i] = e[j])
      <4>1. CASE i \in 1 .. v
        BY <1>1, <2>11, <4>1, SMTT(60)
      <4>2. CASE i - v \in 1 .. Len(e) /\ i = v + (i - v)
        BY <2>11, <4>2
      <4>3. CASE i - Len(e) \in v + 1 .. Len(w) /\ i = Len(e) + (i - Len(e))
        <5>1. i - Len(e) \in 1 .. Len(w)
          BY <1>1, <4>3, SMTT(60)
        <5>2. QED
          BY <2>12, <4>3, <5>1
      <4>4. QED
        BY <3>1, <4>1, <4>2, <4>3
    <3>3. \A j \in 1 .. Len(e) : Allowed(e[j])
      BY <2>5 DEF Plain, Allowed
    <3>4. QED
      BY <1>a, <3>2, <3>3
  <2>14. QED
    BY <2>2, <2>5, <2>10, <2>11, <2>12, <2>13 DEF Unfolds
<1>5. CASE \E v \in 1 .. Len(w) : w[v][2] = "vector"
  <2>1. Flat \in Seq(Fields) /\ \A i \in 1 .. Len(Flat) : Allowed(Flat[i])
    BY <1>4, <1>5
  <2>2. \A v \in 1 .. Len(w) : w[v][2] = "vector" => Unfolds(w, v, Elements(w[v][1], Count(w[v][1])))
    BY <1>4
  <2>3. QED
    BY <1>5, <2>1, <2>2
<1>6. QED
  BY <1>3, <1>5

\* Four bytes hold an opcode, a count, and twice the length of a string.
LEMMA FourBytes == Power[4] = B * B * B * B /\ 256 <= Power[4]
<1>1. /\ Power[1] = Power[0] * B /\ Power[2] = Power[1] * B
      /\ Power[3] = Power[2] * B /\ Power[4] = Power[3] * B
  BY PowerDefined, SMTT(60)
<1>2. B \in Nat /\ B >= 4 /\ Power[0] = 1
  BY PowerDefined, WireAssumption
<1>3. Power[1] = B /\ Power[2] = B * B
  BY <1>1, <1>2, SMTT(60)
<1>4. Power[2] \in Nat /\ Power[2] >= 16
  BY <1>2, <1>3, SMTT(60)
<1>5. Power[3] \in Nat /\ Power[3] >= 64
  BY <1>1, <1>2, <1>4, SMTT(60)
<1>6. QED
  BY <1>1, <1>2, <1>3, <1>4, <1>5, SMTT(60)

\* What is sent, field by field; a value fits, unless a 16-bit length does not.
LEMMA SentIs ==
  ASSUME kind \in Kinds, seed \in Seeds, lens \in [1 .. 3 -> Lens]
  PROVE  /\ (\E T : Sent \in Seq(T)) /\ Len(Sent) \in Nat /\ Len(Sent) = Len(Flat)
         /\ \A i \in 1 .. Len(Sent) :
              /\ Sent[i] = <<Flat[i][1], Flat[i][2], Value(Flat[i], i)>>
              /\ Flat[i][2] \in FieldTypes
              /\ Typed(Flat[i][2], Value(Flat[i], i))
              /\ NamesFit => Fits(Flat[i][2], Value(Flat[i], i))
<1>1. Flat \in Seq(Fields) /\ Len(Flat) \in Nat
  BY FlatIs, SMTT(60)
<1>2. Sent = [i \in 1 .. Len(Flat) |-> <<Flat[i][1], Flat[i][2], Value(Flat[i], i)>>]
  BY <1>1, SMTT(60) DEF Sent, Flat
<1>3. (\E T : Sent \in Seq(T)) /\ Len(Sent) = Len(Flat)
  <2>1. PICK T : T = {Sent[i] : i \in 1 .. Len(Flat)}
    OBVIOUS
  <2>2. \A i \in 1 .. Len(Flat) : Sent[i] \in T
    BY <2>1
  <2>3. Sent \in Seq(T) /\ Len(Sent) = Len(Flat)
    <3>1. PICK S : S = Sent
      OBVIOUS
    <3>2. S = [i \in 1 .. Len(Flat) |-> S[i]]
      BY <1>2, <3>1
    <3>3. QED
      BY <1>1, <2>2, <3>1, <3>2, SMTT(60)
  <2>4. QED
    BY <2>3
<1>4. ASSUME NEW i \in 1 .. Len(Flat)
      PROVE  /\ Flat[i][2] \in FieldTypes /\ Typed(Flat[i][2], Value(Flat[i], i))
             /\ NamesFit => Fits(Flat[i][2], Value(Flat[i], i))
  <2>1. PICK f : f = Flat[i]
    OBVIOUS
  <2>2. f \in Fields /\ f[2] \in FieldTypes
    BY <1>1, <2>1, SMTT(60) DEF Fields
  <2>3. PICK t, x, P : t = f[2] /\ x = Value(f, i) /\ P = Power[Width(t)]
    OBVIOUS
  <2>4. P \in Nat \ {0} /\ P = 2 * (P \div 2) /\ P \div 2 \in Nat /\ 4 <= P
    <3>1. Width(t) \in {1, 2, 4, 8}
      BY <2>2, <2>3 DEF Width, FieldTypes
    <3>2. Width(t) \in 0 .. 8 /\ Width(t) \in 1 .. 8
      BY <3>1, SMTT(60)
    <3>3. P \in Nat \ {0} /\ P = 2 * (P \div 2) /\ P \div 2 \in Nat /\ B <= P
      BY <2>3, <3>2, PowerIs
    <3>4. QED
      BY <3>3, WireAssumption, SMTT(60)
  <2>5. PICK n : n = (7 * i + 3 * seed) % P
    OBVIOUS
  <2>6. n \in 0 .. P - 1 /\ seed \in Nat
    BY <2>4, <2>5, WireAssumption, SMTT(60)
  <2>a. PICK h : h = P \div 2
    OBVIOUS
  <2>b. Fits(t, x) <=> IF t \in Signed THEN Written(t, x) \in -h .. h - 1 ELSE Written(t, x) \in 0 .. P - 1
    BY <2>3, <2>a DEF Fits
  <2>c. h \in Nat /\ P = 2 * h /\ P \in Nat
    BY <2>4, <2>a
  <2>d. ASSUME t # "bool", t \notin Texts, x \in Int, IF t \in Signed THEN x \in -h .. h - 1 ELSE x \in 0 .. P - 1
        PROVE  Typed(t, x) /\ Fits(t, x)
    BY <2>b, <2>d DEF Typed, Written
  <2>e. ASSUME Typed(t, x), NamesFit => Fits(t, x)
        PROVE  /\ Flat[i][2] \in FieldTypes /\ Typed(Flat[i][2], Value(Flat[i], i))
               /\ NamesFit => Fits(Flat[i][2], Value(Flat[i], i))
    BY <2>1, <2>2, <2>3, <2>e
  <2>7. CASE f[1] = "opcode"
    <3>1. kind \in Ops /\ t = "i32"
      BY <2>1, <2>3, <2>7, FlatIs DEF Allowed
    <3>2. x = op_code[kind] /\ x \in 1 .. 8
      BY <2>3, <2>7, <3>1, Formats DEF Value
    <3>3. P = Power[4]
      BY <2>3, <3>1 DEF Width
    <3>4. x \in -h .. h - 1 /\ x \in Int
      BY <2>c, <3>2, <3>3, FourBytes, SMTT(60)
    <3>5. t # "bool" /\ t \notin Texts /\ t \in Signed
      BY <3>1 DEF Texts, Signed
    <3>6. QED
      BY <2>d, <2>e, <3>4, <3>5
  <2>8. CASE f[1] # "opcode" /\ t = "vector"
    <3>1. x = Count(f[1])
      BY <2>3, <2>8 DEF Value
    <3>2. lens[3] \in Nat
      BY ThirdLen
    <3>3. x \in 0 .. 2
      BY <3>1, <3>2, SMTT(60) DEF Count
    <3>4. P = Power[4]
      BY <2>3, <2>8 DEF Width
    <3>5. x \in -h .. h - 1 /\ x \in Int
      BY <2>c, <3>3, <3>4, FourBytes, SMTT(60)
    <3>6. t # "bool" /\ t \notin Texts /\ t \in Signed
      BY <2>8 DEF Texts, Signed
    <3>7. QED
      BY <2>d, <2>e, <3>5, <3>6
  <2>9. CASE f[1] # "opcode" /\ t = "bool"
    <3>1. x = ((i + seed) % 2 = 1)
      BY <2>3, <2>9 DEF Value
    <3>2. x \in BOOLEAN
      BY <3>1
    <3>3. Written(t, x) \in 0 .. 1
      BY <2>9, SMTT(60) DEF Written
    <3>4. Written(t, x) \in 0 .. P - 1
      BY <2>4, <3>3, SMTT(60)
    <3>5. Typed(t, x) /\ t \notin Signed
      BY <2>9, <3>2 DEF Typed, Signed
    <3>6. QED
      BY <2>b, <2>e, <3>4, <3>5
  <2>10. CASE f[1] # "opcode" /\ t \in Texts
    <3>1. PICK l : l = lens[(i % 3) + 1]
      OBVIOUS
    <3>2. l \in Lens /\ l \in Nat /\ 2 * l < Power[4]
      <4>1. (i % 3) + 1 \in 1 .. 3
        BY <1>1, SMTT(60)
      <4>2. QED
        BY <3>1, <4>1, WireAssumption, FourBytes
    <3>3. x = [j \in 1 .. l |-> (j + seed) % B]
      BY <2>3, <2>10, <3>1 DEF Value, Texts
    <3>4. x \in Seq(Nat) /\ Len(x) = l
      BY <2>6, <3>2, <3>3, WireAssumption, SMTT(60)
    <3>a. Typed(t, x) /\ Written(t, x) = l
      BY <2>10, <3>4 DEF Typed, Written, Texts
    <3>5. CASE t = "str16"
      <4>1. Width(t) = 2 /\ t \notin Signed
        BY <3>5 DEF Width, Signed
      <4>2. NamesFit => Len(x) < Power[2]
        <5>1. Sent[i][2] = t /\ Sent[i][3] = x /\ i \in DOMAIN Sent
          BY <1>2, <2>1, <2>3
        <5>2. QED
          BY <3>5, <5>1 DEF NamesFit
      <4>3. P = Power[2]
        BY <2>3, <4>1
      <4>4. NamesFit => l \in 0 .. P - 1
        BY <2>c, <3>2, <3>4, <4>2, <4>3, SMTT(60)
      <4>5. QED
        BY <2>b, <2>e, <3>a, <4>1, <4>4
    <3>6. CASE t # "str16"
      <4>1. Width(t) = 4
        BY <2>10, <3>6 DEF Width, Texts
      <4>2. P = Power[4]
        BY <2>3, <4>1
      <4>3. l \in -h .. h - 1 /\ l \in 0 .. P - 1
        BY <2>c, <3>2, <4>2, SMTT(60)
      <4>4. QED
        BY <2>b, <2>e, <3>a, <4>3
    <3>7. QED
      BY <3>5, <3>6
  <2>11. CASE f[1] # "opcode" /\ t \in {"i32", "i64"}
    <3>1. x = n - (P \div 2)
      BY <2>3, <2>5, <2>11 DEF Value
    <3>2. x \in -h .. h - 1 /\ x \in Int
      BY <2>a, <2>c, <2>6, <3>1, SMTT(60)
    <3>3. t # "bool" /\ t \notin Texts /\ t \in Signed
      BY <2>11 DEF Texts, Signed
    <3>4. QED
      BY <2>d, <2>e, <3>2, <3>3
  <2>12. CASE f[1] # "opcode" /\ t \in {"u8", "u32"}
    <3>1. x = n
      BY <2>3, <2>5, <2>12 DEF Value
    <3>2. x \in 0 .. P - 1 /\ x \in Int
      BY <2>c, <2>6, <3>1, SMTT(60)
    <3>3. t # "bool" /\ t \notin Texts /\ t \notin Signed
      BY <2>12 DEF Texts, Signed
    <3>4. QED
      BY <2>d, <2>e, <3>2, <3>3
  <2>13. QED
    BY <2>2, <2>3, <2>7, <2>8, <2>9, <2>10, <2>11, <2>12 DEF FieldTypes, Texts
<1>5. QED
  BY <1>1, <1>2, <1>3, <1>4

-------------------------------------------------------------------------------
(* What is still to be read *)

\* s is fs without its first m fields.
Suffix(s, fs, m) ==
  /\ m \in 0 .. Len(fs) /\ Len(s) = Len(fs) - m
  /\ \A j \in 1 .. Len(s) : s[j] = fs[m + j]

\* s is what the reader has before it when it has read m fields: all that is left;
\* or what is left of a header, whose opcode brings the body; or of a list whose
\* vector has not been unfolded.
Script(s, m) ==
  /\ s \in Seq(Fields)
  /\ \/ Suffix(s, Flat, m) /\ Plain(s)
     \/ kind \in Ops /\ m <= 1 /\ Suffix(s, request_header, m)
     \/ /\ Suffix(s, Writes(kind), m) /\ (kind \in Ops => 2 <= m)
        /\ \E v \in m + 1 .. Len(Writes(kind)) : Writes(kind)[v][2] = "vector"

\* The elements or the body that a field brings, if it has the value x.
Brings(f, x) ==
  IF f[2] = "vector" THEN Elements(f[1], x) ELSE IF f[1] = "opcode" THEN JuteOf(x) ELSE <<>>

\* A list without its first field.
LEMMA SuffixTail ==
  ASSUME NEW s \in Seq(Fields), s # <<>>, NEW fs, Len(fs) \in Nat, NEW m \in Nat, Suffix(s, fs, m)
  PROVE  /\ m + 1 \in 1 .. Len(fs) /\ Head(s) = fs[m + 1]
         /\ Tail(s) \in Seq(Fields) /\ <<>> \o Tail(s) = Tail(s) /\ Suffix(Tail(s), fs, m + 1)
<1>1. Len(s) \in Nat \ {0} /\ m + 1 \in 1 .. Len(fs) /\ s[1] = fs[m + 1] /\ Head(s) = s[1]
  BY SMTT(60) DEF Suffix
<1>2. /\ Tail(s) \in Seq(Fields) /\ Len(Tail(s)) = Len(s) - 1
      /\ \A j \in 1 .. Len(s) - 1 : Tail(s)[j] = s[j + 1]
  BY <1>1, SMTT(60)
<1>3. <<>> \o Tail(s) = Tail(s)
  BY <1>2, SMTT(60)
<1>4. \A j \in 1 .. Len(s) - 1 : s[j + 1] = fs[m + (j + 1)] /\ m + (j + 1) = (m + 1) + j
  BY <1>1, SMTT(60) DEF Suffix
<1>5. Suffix(Tail(s), fs, m + 1)
  BY <1>1, <1>2, <1>4, SMTT(60) DEF Suffix
<1>6. QED
  BY <1>1, <1>2, <1>3, <1>5

\* With its vector still there, or without one, a list that has no opcode is a script.
LEMMA ScriptOf ==
  ASSUME kind \in Kinds, lens \in [1 .. 3 -> Lens],
         NEW s \in Seq(Fields), NEW m \in Nat, Suffix(s, Writes(kind), m), kind \in Ops => 2 <= m,
         \A j \in 1 .. Len(s) : s[j][1] # "opcode",
         \A v \in 1 .. m : Writes(kind)[v][2] # "vector"
  PROVE  Script(s, m)
<1>1. PICK w : w = Writes(kind)
  OBVIOUS
<1>2. CASE \E v \in m + 1 .. Len(w) : w[v][2] = "vector"
  BY <1>1, <1>2 DEF Script
<1>3. CASE \A v \in m + 1 .. Len(w) : w[v][2] # "vector"
  <2>0. Len(w) \in Nat
    BY <1>1, Formats, SMTT(60)
  <2>1. \A v \in 1 .. Len(w) : w[v][2] # "vector"
    BY <1>1, <1>3, <2>0, SMTT(60)
  <2>2. Flat = w
    BY <1>1, <2>1, FlatIs
  <2>3. \A j \in 1 .. Len(s) : s[j] = w[m + j] /\ m + j \in 1 .. Len(w)
    BY <1>1, <2>0, SMTT(60) DEF Suffix
  <2>4. Plain(s)
    BY <2>1, <2>3 DEF Plain
  <2>5. QED
    BY <1>1, <2>2, <2>4 DEF Script
<1>4. QED
  BY <1>2, <1>3

\* Where reading starts.
LEMMA ScriptBegins ==
  ASSUME kind \in Kinds, lens \in [1 .. 3 -> Lens]
  PROVE  Script(Reads(kind), 0)
<1>1. CASE kind \in Ops
  <2>1. Reads(kind) = request_header /\ request_header \in Seq(Fields) /\ Len(request_header) = 2
    BY <1>1, Formats, HeadersAre
  <2>2. Suffix(request_header, request_header, 0)
    BY <2>1, SMTT(60) DEF Suffix
  <2>3. QED
    BY <1>1, <2>1, <2>2, SMTT(60) DEF Script
<1>2. CASE kind \notin Ops
  <2>1. PICK w : w = Writes(kind)
    OBVIOUS
  <2>2. Reads(kind) = w /\ w \in Seq(Fields) /\ \A i \in 1 .. Len(w) : w[i][1] # "opcode"
    BY <1>2, <2>1, Formats
  <2>3. Suffix(w, w, 0)
    BY <2>2, SMTT(60) DEF Suffix
  <2>4. QED
    BY <1>2, <2>1, <2>2, <2>3, ScriptOf, SMTT(60)
<1>3. QED
  BY <1>1, <1>2

\* Where it ends.
LEMMA ScriptEnds ==
  ASSUME kind \in Kinds, lens \in [1 .. 3 -> Lens], NEW m \in Nat, Script(<<>>, m)
  PROVE  m = Len(Flat)
<1>1. Len(Flat) \in Nat /\ Len(Writes(kind)) \in Nat /\ Len(request_header) = 2
  <2>1. Flat \in Seq(Fields) /\ Writes(kind) \in Seq(Fields) /\ Len(request_header) = 2
    BY FlatIs, Formats, HeadersAre
  <2>2. QED
    BY <2>1, SMTT(60)
<1>2. QED
  BY <1>1, SMTT(60) DEF Script, Suffix

\* The next field to read is the next on the wire, and when it has the value that was
\* sent, so is what comes after it.
LEMMA ScriptStep ==
  ASSUME kind \in Kinds, seed \in Seeds, lens \in [1 .. 3 -> Lens],
         NEW m \in Nat, NEW s, s # <<>>, Script(s, m)
  PROVE  /\ m + 1 \in 1 .. Len(Flat) /\ Head(s) = Flat[m + 1]
         /\ Script(Brings(Head(s), Value(Flat[m + 1], m + 1)) \o Tail(s), m + 1)
<1>1. PICK w, f, x : w = Writes(kind) /\ f = Head(s) /\ x = Value(Flat[m + 1], m + 1)
  OBVIOUS
<1>2. s \in Seq(Fields) /\ Len(Flat) \in Nat /\ w \in Seq(Fields) /\ Len(w) \in Nat /\ OneVector(w)
  <2>1. Flat \in Seq(Fields) /\ w \in Seq(Fields) /\ OneVector(w)
    BY <1>1, FlatIs, Formats
  <2>2. s \in Seq(Fields)
    BY DEF Script
  <2>3. QED
    BY <2>1, <2>2, SMTT(60)
<1>3. CASE Suffix(s, Flat, m) /\ Plain(s)
  <2>1. /\ m + 1 \in 1 .. Len(Flat) /\ f = Flat[m + 1]
        /\ Tail(s) \in Seq(Fields) /\ <<>> \o Tail(s) = Tail(s) /\ Suffix(Tail(s), Flat, m + 1)
    BY <1>1, <1>2, <1>3, SuffixTail
  <2>2. Brings(f, x) = <<>>
    <3>1. f[1] # "opcode" /\ f[2] # "vector"
      BY <1>1, <1>2, <1>3, SMTT(60) DEF Plain
    <3>2. QED
      BY <3>1 DEF Brings
  <2>3. Plain(Tail(s))
    BY <1>2, <1>3, SMTT(60) DEF Plain
  <2>4. QED
    BY <1>1, <2>1, <2>2, <2>3 DEF Script
<1>4. CASE kind \in Ops /\ m <= 1 /\ Suffix(s, request_header, m)
  <2>1. PICK h, b : h = request_header /\ b = JuteOf(op_code[kind])
    OBVIOUS
  <2>2. /\ h \in Seq(Fields) /\ Len(h) = 2 /\ h[1] = <<"xid", "i32">> /\ h[2] = <<"opcode", "i32">>
        /\ w = h \o b /\ IsBody(b) /\ b \in Seq(Fields)
    BY <1>1, <1>4, <2>1, Formats, HeadersAre DEF IsBody
  <2>3. /\ Len(w) = 2 + Len(b) /\ Len(b) \in Nat /\ w[1] = h[1] /\ w[2] = h[2]
        /\ \A i \in 1 .. Len(b) : w[2 + i] = b[i]
    <3>1. Joins(w, h, b, Fields)
      BY <2>2, Joined
    <3>2. QED
      BY <2>2, <3>1, SMTT(60) DEF Joins
  <2>4. Flat[1] = w[1] /\ Flat[2] = w[2] /\ 2 <= Len(Flat)
    <3>1. ASSUME NEW v \in 1 .. Len(w), w[v][2] = "vector" PROVE Flat[1] = w[1] /\ Flat[2] = w[2] /\ 2 <= Len(Flat)
      <4>1. v >= 2
        BY <2>2, <2>3, <3>1, SMTT(60)
      <4>2. PICK e : e = Elements(w[v][1], Count(w[v][1]))
        OBVIOUS
      <4>3. e \in Seq(Fields) /\ Len(Flat) = Len(w) + Len(e) /\ \A i \in 1 .. v : Flat[i] = w[i]
        BY <1>1, <3>1, <4>2, FlatIs DEF Unfolds
      <4>4. QED
        <5>1. 1 \in 1 .. v /\ 2 \in 1 .. v /\ 2 <= Len(Flat)
          <6>1. Len(e) \in Nat /\ Len(w) >= 2
            BY <2>3, <4>3, SMTT(60)
          <6>2. QED
            BY <1>2, <4>1, <4>3, <6>1, SMTT(60)
        <5>2. QED
          BY <4>3, <5>1
    <3>2. ASSUME \A v \in 1 .. Len(w) : w[v][2] # "vector" PROVE Flat[1] = w[1] /\ Flat[2] = w[2] /\ 2 <= Len(Flat)
      <4>1. Flat = w
        BY <1>1, <3>2, FlatIs
      <4>2. QED
        BY <2>3, <4>1, SMTT(60)
    <3>3. QED
      BY <3>1, <3>2
  <2>5. /\ m + 1 \in 1 .. 2 /\ f = h[m + 1]
        /\ Tail(s) \in Seq(Fields) /\ <<>> \o Tail(s) = Tail(s) /\ Suffix(Tail(s), h, m + 1)
    <3>1. Len(h) \in Nat /\ Suffix(s, h, m)
      BY <1>4, <2>1, <2>2, SMTT(60)
    <3>2. /\ m + 1 \in 1 .. Len(h) /\ Head(s) = h[m + 1]
          /\ Tail(s) \in Seq(Fields) /\ <<>> \o Tail(s) = Tail(s) /\ Suffix(Tail(s), h, m + 1)
      BY <1>2, <3>1, SuffixTail
    <3>3. QED
      BY <1>1, <2>2, <3>2
  <2>6. CASE m = 0
    <3>1. f = <<"xid", "i32">> /\ f = Flat[1]
      BY <2>2, <2>3, <2>4, <2>5, <2>6, SMTT(60)
    <3>2. Brings(f, x) = <<>>
      BY <3>1, SMTT(60) DEF Brings
    <3>3. m + 1 = 1 /\ m + 1 <= 1 /\ 1 \in 1 .. Len(Flat)
      BY <1>2, <2>4, <2>6, SMTT(60)
    <3>4. Script(Tail(s), m + 1)
      BY <1>4, <2>1, <2>5, <3>3 DEF Script
    <3>5. QED
      BY <1>1, <2>5, <3>1, <3>2, <3>3, <3>4
  <2>7. CASE m = 1
    <3>1. f = <<"opcode", "i32">> /\ f = Flat[2]
      BY <2>2, <2>3, <2>4, <2>5, <2>7, SMTT(60)
    <3>2. x = op_code[kind]
      BY <1>1, <2>7, <3>1, SMTT(60) DEF Value
    <3>3. Brings(f, x) = b
      BY <2>1, <3>1, <3>2, SMTT(60) DEF Brings
    <3>4. PICK r : r = Tail(s)
      OBVIOUS
    <3>a. r \in Seq(Fields) /\ Len(r) = 0
      BY <2>2, <2>5, <2>7, <3>4, SMTT(60) DEF Suffix
    <3>5. b \o r = b
      <4>1. r = <<>>
        BY <3>a, SMTT(60)
      <4>2. QED
        BY <2>2, <4>1, SMTT(60)
    <3>6. Suffix(b, w, 2)
      BY <2>3, SMTT(60) DEF Suffix
    <3>7. \A v \in 1 .. 2 : w[v][2] # "vector"
      BY <2>2, <2>3, SMTT(60)
    <3>8. Script(b, 2)
      <4>1. 2 \in Nat /\ 2 <= 2 /\ \A j \in 1 .. Len(b) : b[j][1] # "opcode"
        BY <2>2, SMTT(60) DEF IsBody
      <4>2. Suffix(b, Writes(kind), 2) /\ \A v \in 1 .. 2 : Writes(kind)[v][2] # "vector"
        BY <1>1, <3>6, <3>7
      <4>3. QED
        BY <2>2, <4>1, <4>2, ScriptOf
    <3>9. m + 1 = 2 /\ 2 \in 1 .. Len(Flat)
      BY <1>2, <2>4, <2>7, SMTT(60)
    <3>10. QED
      BY <1>1, <3>1, <3>3, <3>4, <3>5, <3>8, <3>9
  <2>8. QED
    BY <1>4, <2>6, <2>7, SMTT(60)
<1>5. ASSUME Suffix(s, w, m), kind \in Ops => 2 <= m, NEW v \in m + 1 .. Len(w), w[v][2] = "vector"
      PROVE  /\ m + 1 \in 1 .. Len(Flat) /\ f = Flat[m + 1] /\ Script(Brings(f, x) \o Tail(s), m + 1)
  <2>1. PICK e : e = Elements(w[v][1], Count(w[v][1]))
    OBVIOUS
  <2>2. v \in 1 .. Len(w)
    BY <1>2, SMTT(60)
  <2>3. /\ e \in Seq(Fields) /\ Plain(e) /\ Len(Flat) = Len(w) + Len(e) /\ Len(e) \in Nat
        /\ \A i \in 1 .. v : Flat[i] = w[i]
        /\ \A i \in 1 .. Len(e) : Flat[v + i] = e[i]
        /\ \A i \in v + 1 .. Len(w) : Flat[Len(e) + i] = w[i]
    <3>1. Unfolds(w, v, e)
      BY <1>1, <1>5, <2>1, <2>2, FlatIs
    <3>2. Len(e) \in Nat
      BY <3>1, SMTT(60) DEF Unfolds
    <3>3. QED
      BY <3>1, <3>2 DEF Unfolds
  <2>4. /\ m + 1 \in 1 .. Len(w) /\ f = w[m + 1]
        /\ Tail(s) \in Seq(Fields) /\ <<>> \o Tail(s) = Tail(s) /\ Suffix(Tail(s), w, m + 1)
    BY <1>1, <1>2, <1>5, SuffixTail, SMTT(60)
  <2>5. m + 1 \in 1 .. Len(Flat) /\ f = Flat[m + 1]
    BY <1>2, <2>2, <2>3, <2>4, SMTT(60)
  <2>6. \A i \in m + 1 .. Len(w) : w[i][1] # "opcode"
    <3>1. CASE kind \in Ops
      <4>1. PICK h, b : h = request_header /\ b = JuteOf(op_code[kind])
        OBVIOUS
      <4>2. h \in Seq(Fields) /\ Len(h) = 2 /\ w = h \o b /\ IsBody(b) /\ b \in Seq(Fields)
        BY <1>1, <3>1, <4>1, Formats, HeadersAre DEF IsBody
      <4>a. Joins(w, h, b, Fields)
        BY <4>2, Joined
      <4>3. \A i \in 3 .. Len(w) : w[i] = b[i - 2] /\ i - 2 \in 1 .. Len(b)
        BY <4>2, <4>a, SMTT(60) DEF Joins
      <4>b. \A i \in 3 .. Len(w) : w[i][1] # "opcode"
        BY <4>2, <4>3 DEF IsBody
      <4>c. \A i \in m + 1 .. Len(w) : i \in 3 .. Len(w)
        BY <1>2, <1>5, <3>1, SMTT(60)
      <4>4. QED
        BY <4>b, <4>c
    <3>2. CASE kind \notin Ops
      BY <1>1, <1>2, <3>2, Formats, SMTT(60)
    <3>3. QED
      BY <3>1, <3>2
  <2>7. f[1] # "opcode"
    BY <1>2, <2>4, <2>6, SMTT(60)
  <2>8. CASE m + 1 = v
    <3>1. f[2] = "vector" /\ x = Count(w[v][1])
      BY <1>1, <1>5, <2>4, <2>5, <2>7, <2>8 DEF Value
    <3>2. Brings(f, x) = e
      BY <2>1, <2>4, <2>8, <3>1 DEF Brings
    <3>3. PICK r, q : r = Tail(s) /\ q = e \o r
      OBVIOUS
    <3>4. /\ q \in Seq(Fields) /\ Len(q) = Len(e) + Len(r) /\ Len(r) = Len(w) - v
          /\ \A j \in 1 .. Len(e) : q[j] = e[j]
          /\ \A j \in Len(e) + 1 .. Len(q) : q[j] = r[j - Len(e)]
      <4>1. r \in Seq(Fields) /\ Len(r) = Len(w) - v
        BY <2>4, <2>8, <3>3 DEF Suffix
      <4>2. Joins(q, e, r, Fields)
        BY <2>3, <3>3, <4>1, Joined
      <4>3. \A j \in Len(e) + 1 .. Len(q) : j \in 1 .. Len(q) /\ j \notin 1 .. Len(e)
        BY <2>3, SMTT(60)
      <4>4. QED
        BY <4>1, <4>2, <4>3 DEF Joins
    <3>5. \A j \in Len(e) + 1 .. Len(q) :
             q[j] = w[v + (j - Len(e))] /\ v + (j - Len(e)) \in v + 1 .. Len(w)
      <4>1. \A j \in Len(e) + 1 .. Len(q) : j - Len(e) \in 1 .. Len(r) /\ v + (j - Len(e)) \in v + 1 .. Len(w)
        <5>1. PICK l, n, o : l = Len(e) /\ n = Len(w) /\ o = Len(r)
          OBVIOUS
        <5>2. l \in Nat /\ n \in Nat /\ v \in 1 .. n /\ o = n - v /\ Len(q) = l + o
          BY <1>2, <2>2, <2>3, <3>4, <5>1
        <5>3. \A j \in l + 1 .. l + o : j - l \in 1 .. o /\ v + (j - l) \in v + 1 .. n
          BY <5>2, SMTT(60)
        <5>4. QED
          BY <5>1, <5>2, <5>3
      <4>2. \A j \in 1 .. Len(r) : r[j] = w[v + j]
        BY <2>4, <2>8, <3>3 DEF Suffix
      <4>3. QED
        BY <3>4, <4>1, <4>2
    <3>6. \A j \in 1 .. Len(q) : q[j] = Flat[v + j]
      <4> SUFFICES ASSUME NEW j \in 1 .. Len(q) PROVE q[j] = Flat[v + j]
        OBVIOUS
      <4>1. CASE j <= Len(e)
        BY <2>3, <3>4, <4>1, SMTT(60)
      <4>2. CASE j > Len(e)
        <5>1. PICK i : i = v + (j - Len(e))
          OBVIOUS
        <5>2. j \in Len(e) + 1 .. Len(q) /\ Len(e) + i = v + j
          BY <1>2, <2>3, <3>4, <4>2, <5>1, SMTT(60)
        <5>3. QED
          BY <2>3, <3>5, <5>1, <5>2
      <4>3. QED
        BY <2>3, <3>4, <4>1, <4>2, SMTT(60)
    <3>7. Suffix(q, Flat, v)
      BY <1>2, <2>2, <2>3, <3>4, <3>6, SMTT(60) DEF Suffix
    <3>8. Plain(q)
      <4>1. \A j \in v + 1 .. Len(w) : w[j][2] # "vector" /\ w[j][1] # "opcode"
        BY <1>2, <1>5, <2>2, <2>6, SMTT(60) DEF OneVector
      <4>2. \A j \in 1 .. Len(q) : j \in 1 .. Len(e) \/ j \in Len(e) + 1 .. Len(q)
        BY <2>3, <3>4, SMTT(60)
      <4>3. QED
        <5> SUFFICES ASSUME NEW j \in 1 .. Len(q) PROVE q[j][1] # "opcode" /\ q[j][2] # "vector"
          BY DEF Plain
        <5>1. CASE j \in 1 .. Len(e)
          BY <2>3, <3>4, <5>1 DEF Plain
        <5>2. CASE j \in Len(e) + 1 .. Len(q)
          <6>1. PICK n : n = v + (j - Len(e))
            OBVIOUS
          <6>2. q[j] = w[n] /\ n \in v + 1 .. Len(w)
            BY <3>5, <5>2, <6>1
          <6>3. QED
            BY <4>1, <6>2
        <5>3. QED
          BY <4>2, <5>1, <5>2
    <3>9. QED
      BY <2>5, <2>8, <3>2, <3>3, <3>4, <3>7, <3>8 DEF Script
  <2>9. CASE m + 1 # v
    <3>1. f[2] # "vector"
      BY <1>2, <1>5, <2>2, <2>4, <2>9 DEF OneVector
    <3>2. Brings(f, x) = <<>>
      BY <2>7, <3>1 DEF Brings
    <3>3. v \in (m + 1) + 1 .. Len(w) /\ (kind \in Ops => 2 <= m + 1)
      BY <1>2, <1>5, <2>9, SMTT(60)
    <3>4. QED
      BY <1>1, <1>5, <2>4, <2>5, <3>2, <3>3 DEF Script
  <2>10. QED
    BY <2>8, <2>9
<1>6. QED
  BY <1>1, <1>3, <1>4, <1>5 DEF Script

-------------------------------------------------------------------------------
(* What is in the buffer *)

\* The first k fields of S are in b one after another, and nothing else after c[0]: the
\* i-th takes up the bytes from c[i - 1] to c[i].
Cut(S, b, c, k) ==
  /\ c \in [0 .. k -> Nat] /\ c[k] = Len(b)
  /\ \A i \in 0 .. k : c[i] <= c[k]
  /\ \A i \in 1 .. k : /\ c[i] = c[i - 1] + Len(Bytes(S[i][2], S[i][3]))
                       /\ Holds(b, c[i - 1], Bytes(S[i][2], S[i][3]))

Cuts(S, b, o, k) == \E c : Cut(S, b, c, k) /\ c[0] = o

\* The first k fields of S have bytes.
Pieces(S, k) == \A i \in 1 .. k : Bytes(S[i][2], S[i][3]) \in Seq(Nat)

\* One more field.
LEMMA CutMore ==
  ASSUME NEW S, NEW b \in Seq(Nat), NEW k \in Nat, NEW c, Cut(S, b, c, k),
         NEW x \in Seq(Nat), x = Bytes(S[k + 1][2], S[k + 1][3]),
         Pieces(S, k)
  PROVE  Cuts(S, b \o x, c[0], k + 1)
<1> DEFINE d == [i \in 0 .. k + 1 |-> IF i = k + 1 THEN c[k] + Len(x) ELSE c[i]]
<1>1. PICK y : y = b \o x
  OBVIOUS
<1>2. /\ y \in Seq(Nat) /\ Len(y) = Len(b) + Len(x) /\ Len(b) \in Nat /\ Len(x) \in Nat
      /\ \A j \in 1 .. Len(b) : y[j] = b[j]
      /\ \A j \in 1 .. Len(x) : y[Len(b) + j] = x[j]
  <2>1. Joins(y, b, x, Nat)
    BY <1>1, Joined
  <2>2. QED
    BY <2>1 DEF Joins
<1>3. c \in [0 .. k -> Nat] /\ c[k] = Len(b) /\ \A i \in 0 .. k : c[i] <= c[k] /\ c[i] \in Nat
  BY DEF Cut
<1>4. d \in [0 .. k + 1 -> Nat] /\ d[k + 1] = Len(y) /\ \A i \in 0 .. k + 1 : d[i] <= d[k + 1]
  <2>1. PICK l, n, h : l = Len(x) /\ n = Len(b) /\ h = Len(y)
    OBVIOUS
  <2>2. l \in Nat /\ n \in Nat /\ h = n + l /\ c[k] = n
    BY <1>2, <1>3, <2>1
  <2>3. \A i \in 0 .. k + 1 : i = k + 1 \/ i \in 0 .. k
    BY SMTT(60)
  <2>4. n + l \in Nat /\ n + l <= n + l /\ \A m \in Nat : m <= n => m <= n + l
    BY <2>2, SMTT(60)
  <2>5. k + 1 \in 0 .. k + 1
    BY SMTT(60)
  <2>6. QED
    BY <1>3, <2>1, <2>2, <2>3, <2>4, <2>5
<1>5. (\A i \in 0 .. k : d[i] = c[i]) /\ d[k + 1] = c[k] + Len(x)
  BY SMTT(60)
<1> HIDE DEF d
<1>6. ASSUME NEW i \in 1 .. k + 1
      PROVE  d[i] = d[i - 1] + Len(Bytes(S[i][2], S[i][3])) /\ Holds(y, d[i - 1], Bytes(S[i][2], S[i][3]))
  <2>1. CASE i = k + 1
    <3>1. i - 1 = k /\ d[i - 1] = Len(b) /\ d[i] = Len(b) + Len(x)
      BY <1>3, <1>5, <2>1, SMTT(60)
    <3>2. Holds(y, Len(b), x)
      <4>1. Len(b) + Len(x) <= Len(y)
        BY <1>2, SMTT(60)
      <4>2. QED
        BY <1>2, <4>1 DEF Holds
    <3>3. QED
      BY <2>1, <3>1, <3>2
  <2>2. CASE i # k + 1
    <3>1. PICK z : z = Bytes(S[i][2], S[i][3])
      OBVIOUS
    <3>2. i \in 1 .. k /\ i - 1 \in 0 .. k /\ d[i] = c[i] /\ d[i - 1] = c[i - 1] /\ c[i - 1] \in Nat
      <4>1. i \in 1 .. k /\ i \in 0 .. k /\ i - 1 \in 0 .. k
        BY <2>2, SMTT(60)
      <4>2. QED
        BY <1>3, <1>5, <4>1
    <3>3. c[i] = c[i - 1] + Len(z) /\ Holds(b, c[i - 1], z) /\ Len(z) \in Nat
      <4>1. c[i] = c[i - 1] + Len(z) /\ Holds(b, c[i - 1], z) /\ z \in Seq(Nat)
        BY <3>1, <3>2 DEF Cut, Pieces
      <4>2. Len(z) \in Nat
        BY <4>1, SMTT(60)
      <4>3. QED
        BY <4>1, <4>2
    <3>a. PICK p : p = c[i - 1]
      OBVIOUS
    <3>b. p \in Nat /\ p + Len(z) <= Len(b) /\ \A j \in 1 .. Len(z) : b[p + j] = z[j]
      BY <3>2, <3>3, <3>a DEF Holds
    <3>4. p + Len(z) <= Len(y) /\ \A j \in 1 .. Len(z) : p + j \in 1 .. Len(b)
      <4>1. PICK l, n, o, h : l = Len(x) /\ n = Len(b) /\ o = Len(z) /\ h = Len(y)
        OBVIOUS
      <4>2. l \in Nat /\ n \in Nat /\ o \in Nat /\ h = n + l /\ p \in Nat /\ p + o <= n
        BY <1>2, <3>3, <3>b, <4>1
      <4>3. p + o <= h /\ \A j \in 1 .. o : p + j \in 1 .. n
        BY <4>2, SMTT(60)
      <4>4. QED
        BY <4>1, <4>3
    <3>5. Holds(y, c[i - 1], z)
      BY <1>2, <3>a, <3>b, <3>4 DEF Holds
    <3>6. QED
      BY <3>1, <3>2, <3>3, <3>5
  <2>3. QED
    BY <2>1, <2>2
<1>7. Cut(S, y, d, k + 1)
  BY <1>4, <1>6 DEF Cut
<1>8. d[0] = c[0]
  BY <1>5, SMTT(60)
<1>9. QED
  BY <1>1, <1>7, <1>8 DEF Cuts

\* The same fields behind the length of the frame.
LEMMA CutShifted ==
  ASSUME NEW S, NEW b \in Seq(Nat), NEW k \in Nat, NEW c, Cut(S, b, c, k), NEW a \in Seq(Nat),
         Pieces(S, k)
  PROVE  Cuts(S, a \o b, Len(a) + c[0], k)
<1> DEFINE d == [i \in 0 .. k |-> Len(a) + c[i]]
<1>1. PICK y : y = a \o b
  OBVIOUS
<1>2. /\ y \in Seq(Nat) /\ Len(y) = Len(a) + Len(b) /\ Len(b) \in Nat /\ Len(a) \in Nat
      /\ \A j \in 1 .. Len(b) : y[Len(a) + j] = b[j]
  <2>1. Joins(y, a, b, Nat)
    BY <1>1, Joined
  <2>2. QED
    BY <2>1 DEF Joins
<1>3. c \in [0 .. k -> Nat] /\ c[k] = Len(b) /\ \A i \in 0 .. k : c[i] <= c[k] /\ c[i] \in Nat
  BY DEF Cut
<1>4. \A i \in 0 .. k : d[i] = Len(a) + c[i]
  OBVIOUS
<1>5. d \in [0 .. k -> Nat]
  BY <1>2, <1>3, SMTT(60)
<1> HIDE DEF d
<1>6. d[k] = Len(y) /\ \A i \in 0 .. k : d[i] <= d[k]
  <2>1. d[k] = Len(a) + c[k]
    BY <1>4, SMTT(60)
  <2>2. ASSUME NEW i \in 0 .. k PROVE d[i] <= d[k]
    <3>1. d[i] = Len(a) + c[i] /\ c[i] <= c[k] /\ c[i] \in Nat /\ c[k] \in Nat
      BY <1>2, <1>3, <1>4
    <3>2. QED
      BY <1>2, <2>1, <3>1, SMTT(60)
  <2>3. QED
    BY <1>2, <1>3, <2>1, <2>2
<1>7. ASSUME NEW i \in 1 .. k
      PROVE  d[i] = d[i - 1] + Len(Bytes(S[i][2], S[i][3])) /\ Holds(y, d[i - 1], Bytes(S[i][2], S[i][3]))
  <2>1. PICK z : z = Bytes(S[i][2], S[i][3])
    OBVIOUS
  <2>2. d[i] = Len(a) + c[i] /\ d[i - 1] = Len(a) + c[i - 1] /\ c[i - 1] \in Nat
    <3>1. i \in 0 .. k /\ i - 1 \in 0 .. k
      BY SMTT(60)
    <3>2. QED
      BY <1>3, <1>4, <3>1
  <2>3. c[i] = c[i - 1] + Len(z) /\ Holds(b, c[i - 1], z) /\ Len(z) \in Nat
    <3>1. c[i] = c[i - 1] + Len(z) /\ Holds(b, c[i - 1], z) /\ z \in Seq(Nat)
      BY <2>1 DEF Cut, Pieces
    <3>2. Len(z) \in Nat
      BY <3>1, SMTT(60)
    <3>3. QED
      BY <3>1, <3>2
  <2>a. PICK p, q : p = c[i - 1] /\ q = d[i - 1]
    OBVIOUS
  <2>b. p \in Nat /\ q = Len(a) + p /\ p + Len(z) <= Len(b) /\ \A j \in 1 .. Len(z) : b[p + j] = z[j]
    BY <2>2, <2>3, <2>a DEF Holds
  <2>4. q + Len(z) <= Len(y) /\ \A j \in 1 .. Len(z) : p + j \in 1 .. Len(b) /\ Len(a) + (p + j) = q + j
    <3>1. PICK l, n, o, h : l = Len(a) /\ n = Len(b) /\ o = Len(z) /\ h = Len(y)
      OBVIOUS
    <3>2. l \in Nat /\ n \in Nat /\ o \in Nat /\ h = l + n /\ p \in Nat /\ q = l + p /\ p + o <= n
      BY <1>2, <2>3, <2>b, <3>1
    <3>3. q + o <= h /\ \A j \in 1 .. o : p + j \in 1 .. n /\ l + (p + j) = q + j
      BY <3>2, SMTT(60)
    <3>4. QED
      BY <3>1, <3>3
  <2>c. \A j \in 1 .. Len(z) : y[q + j] = z[j]
    <3> SUFFICES ASSUME NEW j \in 1 .. Len(z) PROVE y[q + j] = z[j]
      OBVIOUS
    <3>1. PICK n : n = p + j
      OBVIOUS
    <3>2. n \in 1 .. Len(b) /\ Len(a) + n = q + j /\ b[n] = z[j]
      BY <2>b, <2>4, <3>1
    <3>3. y[Len(a) + n] = b[n]
      BY <1>2, <3>2
    <3>4. QED
      BY <3>2, <3>3
  <2>5. Holds(y, d[i - 1], z)
    BY <2>a, <2>4, <2>c DEF Holds
  <2>6. QED
    BY <1>2, <2>1, <2>2, <2>3, <2>5, SMTT(60)
<1>8. Cut(S, y, d, k)
  BY <1>5, <1>6, <1>7 DEF Cut
<1>9. d[0] = Len(a) + c[0]
  BY <1>4, SMTT(60)
<1>10. QED
  BY <1>1, <1>8, <1>9 DEF Cuts

\* A whole RPC message is as long as deserialize() demands.
LEMMA LongEnough ==
  ASSUME kind \in Kinds, seed \in Seeds, lens \in [1 .. 3 -> Lens], buf \in Seq(Nat),
         NEW c, Cut(Sent, buf, c, Len(Sent))
  PROVE  ~(Len(buf) < MinSize)
<1>0. Len(buf) \in Nat
  BY SMTT(60)
<1>1. ASSUME NEW i \in 1 .. Len(Sent)
      PROVE  c[i - 1] \in Nat /\ c[i] \in Nat /\ c[i] >= c[i - 1] + Width(Flat[i][2]) /\ c[i] <= Len(buf)
  <2>1. PICK t, x : t = Flat[i][2] /\ x = Value(Flat[i], i)
    OBVIOUS
  <2>2. t \in FieldTypes /\ Typed(t, x) /\ Sent[i][2] = t /\ Sent[i][3] = x /\ Len(Sent) \in Nat
    BY <2>1, SentIs, SMTT(60)
  <2>3. Len(Bytes(t, x)) >= Width(t) /\ Len(Bytes(t, x)) \in Nat /\ Width(t) \in Nat
    <3>1. t \in Texts => Len(x) \in Nat
      BY <2>2, SMTT(60) DEF Typed, Texts
    <3>2. Width(t) \in {1, 2, 4, 8} /\ Len(Bytes(t, x)) = Width(t) + (IF t \in Texts THEN Len(x) ELSE 0)
      BY <2>2, BytesAre
    <3>3. QED
      BY <3>1, <3>2, SMTT(60)
  <2>a. Len(Sent) \in 0 .. Len(Sent) /\ i \in 0 .. Len(Sent) /\ i - 1 \in 0 .. Len(Sent)
    BY <2>2, SMTT(60)
  <2>4. c[i - 1] \in Nat /\ c[i] \in Nat /\ c[i] = c[i - 1] + Len(Bytes(t, x)) /\ c[i] <= Len(buf)
    <3>1. c \in [0 .. Len(Sent) -> Nat] /\ c[Len(Sent)] = Len(buf) /\ c[i] <= c[Len(Sent)]
      BY <2>a DEF Cut
    <3>2. c[i] = c[i - 1] + Len(Bytes(Sent[i][2], Sent[i][3]))
      BY DEF Cut
    <3>3. QED
      BY <2>2, <2>a, <3>1, <3>2
  <2>5. QED
    BY <2>1, <2>3, <2>4, SMTT(60)
<1>2. CASE kind \in Rpc
  <2>1. PICK w : w = RpcWrites[kind]
    OBVIOUS
  <2>2. Writes(kind) = w /\ w \in Seq(RpcFields)
    BY <1>2, <2>1, RpcIs DEF Writes
  <2>3. Flat = w /\ Len(Sent) = Len(w)
    <3>1. \A i \in 1 .. Len(w) : w[i][2] # "vector"
      <4> SUFFICES ASSUME NEW i \in 1 .. Len(w) PROVE w[i][2] # "vector"
        OBVIOUS
      <4>1. w[i] \in RpcFields
        BY <2>2, SMTT(60)
      <4>2. QED
        BY <4>1 DEF RpcFields
    <3>2. QED
      BY <2>2, <3>1, FlatIs, SentIs
  <2>4. CASE kind = "RpcHeader"
    <3>1. w = serialize_header
      BY <2>1, <2>4 DEF RpcWrites
    <3>2. /\ Len(w) = 8 /\ Width(w[1][2]) = 4 /\ Width(w[2][2]) = 1 /\ Width(w[3][2]) = 1 /\ Width(w[4][2]) = 1
          /\ Width(w[5][2]) = 1 /\ Width(w[6][2]) = 4 /\ Width(w[7][2]) = 4 /\ Width(w[8][2]) = 4
      BY <3>1 DEF serialize_header, Width
    <3>3. /\ c[0] \in Nat /\ c[1] >= c[0] + 4 /\ c[2] >= c[1] + 1 /\ c[3] >= c[2] + 1 /\ c[4] >= c[3] + 1
          /\ c[5] >= c[4] + 1 /\ c[6] >= c[5] + 4 /\ c[7] >= c[6] + 4 /\ c[8] >= c[7] + 4
          /\ c[1] \in Nat /\ c[2] \in Nat /\ c[3] \in Nat /\ c[4] \in Nat /\ c[5] \in Nat /\ c[6] \in Nat
          /\ c[7] \in Nat /\ c[8] \in Nat /\ c[8] <= Len(buf)
      <4>1. /\ 1 \in 1 .. 8 /\ 2 \in 1 .. 8 /\ 3 \in 1 .. 8 /\ 4 \in 1 .. 8 /\ 5 \in 1 .. 8 /\ 6 \in 1 .. 8
            /\ 7 \in 1 .. 8 /\ 8 \in 1 .. 8
            /\ 1 - 1 = 0 /\ 2 - 1 = 1 /\ 3 - 1 = 2 /\ 4 - 1 = 3 /\ 5 - 1 = 4 /\ 6 - 1 = 5 /\ 7 - 1 = 6 /\ 8 - 1 = 7
        BY SMTT(60)
      <4>2. Len(Sent) = 8 /\ Flat = w
        BY <2>3, <3>2
      <4>3. \A i \in 1 .. 8 :
              c[i - 1] \in Nat /\ c[i] \in Nat /\ c[i] >= c[i - 1] + Width(w[i][2]) /\ c[i] <= Len(buf)
        BY <1>1, <4>2
      <4>4. c[0] \in Nat /\ c[1] \in Nat /\ c[1] >= c[0] + 4
        BY <3>2, <4>1, <4>3
      <4>5. c[2] \in Nat /\ c[2] >= c[1] + 1
        BY <3>2, <4>1, <4>3
      <4>6. c[3] \in Nat /\ c[3] >= c[2] + 1
        BY <3>2, <4>1, <4>3
      <4>7. c[4] \in Nat /\ c[4] >= c[3] + 1
        BY <3>2, <4>1, <4>3
      <4>8. c[5] \in Nat /\ c[5] >= c[4] + 1
        BY <3>2, <4>1, <4>3
      <4>9. c[6] \in Nat /\ c[6] >= c[5] + 4
        BY <3>2, <4>1, <4>3
      <4>10. c[7] \in Nat /\ c[7] >= c[6] + 4
        BY <3>2, <4>1, <4>3
      <4>11. c[8] \in Nat /\ c[8] >= c[7] + 4 /\ c[8] <= Len(buf)
        BY <3>2, <4>1, <4>3
      <4>12. QED
        BY <4>4, <4>5, <4>6, <4>7, <4>8, <4>9, <4>10, <4>11
    <3>a. PICK c0, c1, c2, c3, c4, c5, c6, c7, c8, l :
            /\ c0 = c[0] /\ c1 = c[1] /\ c2 = c[2] /\ c3 = c[3] /\ c4 = c[4] /\ c5 = c[5] /\ c6 = c[6]
            /\ c7 = c[7] /\ c8 = c[8] /\ l = Len(buf)
      OBVIOUS
    <3>b. /\ c0 \in Nat /\ c1 \in Nat /\ c2 \in Nat /\ c3 \in Nat /\ c4 \in Nat /\ c5 \in Nat /\ c6 \in Nat
          /\ c7 \in Nat /\ c8 \in Nat /\ l \in Nat
          /\ c1 >= c0 + 4 /\ c2 >= c1 + 1 /\ c3 >= c2 + 1 /\ c4 >= c3 + 1 /\ c5 >= c4 + 1 /\ c6 >= c5 + 4
          /\ c7 >= c6 + 4 /\ c8 >= c7 + 4 /\ c8 <= l
      BY <1>0, <3>3, <3>a
    <3>c. l >= 20
      BY <3>b, SMTT(60)
    <3>4. Len(buf) >= 20
      BY <3>a, <3>c
    <3>5. QED
      BY <1>0, <2>4, <3>4, SMTT(60) DEF MinSize
  <2>5. CASE kind = "RpcRequest"
    <3>1. w = SerializeRequest
      BY <2>1, <2>5 DEF RpcWrites
    <3>2. Len(w) = 4 /\ Width(w[4][2]) = 4
      BY <3>1 DEF SerializeRequest, Width
    <3>3. c[3] \in Nat /\ c[4] >= c[3] + 4 /\ c[4] \in Nat /\ c[4] <= Len(buf)
      BY <1>1, <2>3, <3>2, SMTT(60)
    <3>4. Len(buf) >= 4
      BY <1>0, <3>3, SMTT(60)
    <3>5. QED
      BY <1>0, <2>5, <3>4, SMTT(60) DEF MinSize
  <2>6. CASE kind = "RpcResponse"
    <3>1. w = SerializeResponse
      BY <2>1, <2>6 DEF RpcWrites
    <3>2. Len(w) = 3 /\ Width(w[1][2]) = 4 /\ Width(w[2][2]) = 2 /\ Width(w[3][2]) = 4
      BY <3>1 DEF SerializeResponse, Width
    <3>3. /\ c[0] \in Nat /\ c[1] >= c[0] + 4 /\ c[2] >= c[1] + 2 /\ c[3] >= c[2] + 4
          /\ c[1] \in Nat /\ c[2] \in Nat /\ c[3] \in Nat /\ c[3] <= Len(buf)
      <4>1. 1 \in 1 .. 3 /\ 2 \in 1 .. 3 /\ 3 \in 1 .. 3 /\ 1 - 1 = 0 /\ 2 - 1 = 1 /\ 3 - 1 = 2
        BY SMTT(60)
      <4>2. Len(Sent) = 3 /\ Flat = w
        BY <2>3, <3>2
      <4>3. \A i \in 1 .. 3 :
              c[i - 1] \in Nat /\ c[i] \in Nat /\ c[i] >= c[i - 1] + Width(w[i][2]) /\ c[i] <= Len(buf)
        BY <1>1, <4>2
      <4>4. c[0] \in Nat /\ c[1] \in Nat /\ c[1] >= c[0] + 4
        BY <3>2, <4>1, <4>3
      <4>5. c[2] \in Nat /\ c[2] >= c[1] + 2
        BY <3>2, <4>1, <4>3
      <4>6. c[3] \in Nat /\ c[3] >= c[2] + 4 /\ c[3] <= Len(buf)
        BY <3>2, <4>1, <4>3
      <4>7. QED
        BY <4>4, <4>5, <4>6
    <3>a. PICK c0, c1, c2, c3, l : c0 = c[0] /\ c1 = c[1] /\ c2 = c[2] /\ c3 = c[3] /\ l = Len(buf)
      OBVIOUS
    <3>b. /\ c0 \in Nat /\ c1 \in Nat /\ c2 \in Nat /\ c3 \in Nat /\ l \in Nat
          /\ c1 >= c0 + 4 /\ c2 >= c1 + 2 /\ c3 >= c2 + 4 /\ c3 <= l
      BY <1>0, <3>3, <3>a
    <3>c. l >= 6
      BY <3>b, SMTT(60)
    <3>4. Len(buf) >= 6
      BY <3>a, <3>c
    <3>5. QED
      BY <1>0, <2>6, <3>4, SMTT(60) DEF MinSize
  <2>7. QED
    BY <1>2, <2>4, <2>5, <2>6 DEF Rpc
<1>3. CASE kind \notin Rpc
  <2>1. MinSize = 0
    BY <1>3 DEF MinSize, Rpc
  <2>2. QED
    BY <1>0, <2>1, SMTT(60)
<1>4. QED
  BY <1>2, <1>3

-------------------------------------------------------------------------------
(* The invariant *)

Message == kind \in Kinds /\ seed \in Seeds /\ lens \in [1 .. 3 -> Lens] /\ buf \in Seq(Nat)

\* The first k fields are written.
InWriting ==
  /\ pos = 0 /\ got = <<>>
  /\ \E k, c : /\ k \in Nat /\ Cut(Sent, buf, c, k) /\ (\E T : out \in Seq(T)) /\ Suffix(out, Sent, k)
              /\ c[0] = 0

\* The first m fields are read.
InReading ==
  \E m, c :
    /\ m \in Nat /\ Cut(Sent, buf, c, Len(Sent)) /\ m <= Len(Sent) /\ pos = c[m] /\ Script(script, m)
    /\ (\E T : got \in Seq(T)) /\ Len(got) = m /\ \A i \in 1 .. m : got[i] = Sent[i]

\* The RPC protocol has checked what it has read, in step or not.
InBounds == kind \in Rpc => script \in Seq(RpcFields) /\ pos \in Nat /\ pos <= Len(buf)

\* The inductive invariant.
WireInv ==
  /\ Message /\ status \in {"writing", "reading", "done", "threw"} /\ InBounds
  /\ status = "writing" => InWriting
  /\ status \in {"reading", "done"} /\ NamesFit => InReading
  /\ status = "done" => script = <<>>
  /\ status = "threw" => ~NamesFit

\* What is sent does not change.
LEMMA MessageStays ==
  ASSUME UNCHANGED <<kind, seed, lens>>
  PROVE  /\ Sent' = Sent /\ NamesFit' = NamesFit /\ Flat' = Flat
         /\ \A s, m : Script(s, m)' = Script(s, m)
<1>1. kind' = kind /\ seed' = seed /\ lens' = lens
  OBVIOUS
<1>2. Flat' = Flat
  BY <1>1 DEF Flat, Expand, Count
<1>3. Sent' = Sent
  BY <1>1, <1>2 DEF Sent, Value, Count, Flat
<1>4. NamesFit' = NamesFit
  BY <1>3 DEF NamesFit
<1>5. \A s, m : Script(s, m)' = Script(s, m)
  BY <1>1, <1>2 DEF Script
<1>6. QED
  BY <1>2, <1>3, <1>4, <1>5

\* ZooKeeper's messages have no 16-bit lengths.
LEMMA ZooKeeperFits ==
  ASSUME kind \in Kinds, seed \in Seeds, lens \in [1 .. 3 -> Lens], kind \notin Rpc
  PROVE  NamesFit
<1> SUFFICES ASSUME NEW i \in DOMAIN Sent, Sent[i][2] = "str16" PROVE FALSE
  BY DEF NamesFit
<1>1. i \in 1 .. Len(Sent)
  BY SentIs, SMTT(60)
<1>2. i \in 1 .. Len(Flat) /\ Flat[i][2] = "str16"
  BY <1>1, SentIs, SMTT(60)
<1>3. QED
  BY <1>2, FlatIs DEF Allowed

\* Nothing is written at first.
LEMMA WireBegins == WireInit => WireInv
<1> SUFFICES ASSUME WireInit PROVE WireInv
  OBVIOUS
<1>1. /\ kind \in Kinds /\ seed \in Seeds /\ lens \in [1 .. 3 -> Lens] /\ out = Sent /\ buf = <<>>
      /\ pos = 0 /\ got = <<>> /\ script = <<>> /\ status = "writing"
  BY DEF WireInit
<1>2. <<>> \in Seq(Nat) /\ <<>> \in Seq(RpcFields) /\ Len(<<>>) = 0
  BY SMTT(60)
<1>3. Message /\ InBounds
  BY <1>1, <1>2, SMTT(60) DEF Message, InBounds
<1>4. (\E T : out \in Seq(T)) /\ Len(Sent) \in Nat /\ Suffix(out, Sent, 0)
  BY <1>1, SentIs, SMTT(60) DEF Suffix
<1> DEFINE c == [i \in 0 .. 0 |-> 0]
<1>5. Cut(Sent, buf, c, 0) /\ c[0] = 0
  <2>1. c \in [0 .. 0 -> Nat] /\ c[0] = 0 /\ \A i \in 0 .. 0 : c[i] <= c[0]
    BY SMTT(60)
  <2> HIDE DEF c
  <2>2. QED
    BY <1>1, <1>2, <2>1, SMTT(60) DEF Cut
<1> HIDE DEF c
<1>6. InWriting
  BY <1>1, <1>4, <1>5 DEF InWriting
<1>7. QED
  BY <1>1, <1>3, <1>6 DEF WireInv

\* The bytes of every field that is sent are bytes.
LEMMA SentBytes ==
  ASSUME Message
  PROVE  Pieces(Sent, Len(Sent))
<1> SUFFICES ASSUME NEW i \in 1 .. Len(Sent) PROVE Bytes(Sent[i][2], Sent[i][3]) \in Seq(Nat)
  BY DEF Pieces
<1>1. PICK t, x : t = Flat[i][2] /\ x = Value(Flat[i], i)
  OBVIOUS
<1>2. t \in FieldTypes /\ Typed(t, x) /\ Sent[i][2] = t /\ Sent[i][3] = x
  BY <1>1, SentIs, SMTT(60) DEF Message
<1>3. QED
  BY <1>2, BytesAre

\* write_*.
LEMMA WriteFieldStep ==
  ASSUME WireInv, WriteField
  PROVE  WireInv'
<1>1. /\ status = "writing" /\ out # <<>> /\ out' = Tail(out)
      /\ UNCHANGED <<kind, seed, lens>> /\ UNCHANGED <<script, pos, got, status>>
  BY DEF WriteField
<1>2. Message /\ InBounds /\ InWriting
  BY <1>1 DEF WireInv
<1>3. PICK k, c : k \in Nat /\ Cut(Sent, buf, c, k) /\ (\E T : out \in Seq(T)) /\ Suffix(out, Sent, k) /\ c[0] = 0
  BY <1>2 DEF InWriting
<1>4. PICK T : out \in Seq(T)
  BY <1>3
<1>5. Len(Sent) \in Nat /\ buf \in Seq(Nat) /\ kind \in Kinds
  BY <1>2, SentIs DEF Message
<1>6. /\ k + 1 \in 1 .. Len(Sent) /\ Head(out) = Sent[k + 1]
      /\ Tail(out) \in Seq(T) /\ Suffix(Tail(out), Sent, k + 1)
  <2>1. Len(out) \in Nat \ {0} /\ k + 1 \in 1 .. Len(Sent) /\ out[1] = Sent[k + 1] /\ Head(out) = out[1]
    BY <1>1, <1>3, <1>4, <1>5, SMTT(60) DEF Suffix
  <2>2. /\ Tail(out) \in Seq(T) /\ Len(Tail(out)) = Len(out) - 1
        /\ \A j \in 1 .. Len(out) - 1 : Tail(out)[j] = out[j + 1]
    BY <1>1, <1>4, HeadAndTail
  <2>3. \A j \in 1 .. Len(out) - 1 : out[j + 1] = Sent[k + (j + 1)] /\ k + (j + 1) = (k + 1) + j
    BY <1>3, <2>1, SMTT(60) DEF Suffix
  <2>4. Suffix(Tail(out), Sent, k + 1)
    BY <1>3, <1>5, <2>1, <2>2, <2>3, SMTT(60) DEF Suffix
  <2>5. QED
    BY <2>1, <2>2, <2>4
<1>7. PICK x : x = Bytes(Sent[k + 1][2], Sent[k + 1][3])
  OBVIOUS
<1>8. buf' = buf \o x /\ x \in Seq(Nat)
  <2>1. x \in Seq(Nat)
    BY <1>2, <1>6, <1>7, SentBytes DEF Pieces
  <2>2. QED
    BY <1>6, <1>7, <2>1 DEF WriteField
<1>9. Pieces(Sent, k)
  <2>1. Pieces(Sent, Len(Sent))
    BY <1>2, SentBytes
  <2>2. \A i \in 1 .. k : i \in 1 .. Len(Sent)
    BY <1>3, <1>5, <1>6, SMTT(60)
  <2>3. QED
    BY <2>1, <2>2 DEF Pieces
<1>10. PICK d : Cut(Sent, buf \o x, d, k + 1) /\ d[0] = c[0]
  <2>1. Cuts(Sent, buf \o x, c[0], k + 1)
    BY <1>3, <1>5, <1>7, <1>8, <1>9, CutMore
  <2>2. QED
    BY <2>1 DEF Cuts
<1>11. buf \o x \in Seq(Nat) /\ Len(buf) <= Len(buf \o x)
  BY <1>5, <1>8, SMTT(60)
<1>12. Message' /\ InBounds'
  <2>1. Message'
    BY <1>1, <1>2, <1>8, <1>11 DEF Message
  <2>2. pos = 0 /\ Len(buf \o x) \in Nat
    BY <1>2, <1>11, SMTT(60) DEF InWriting
  <2>3. InBounds'
    BY <1>1, <1>2, <1>8, <2>2, SMTT(60) DEF InBounds
  <2>4. QED
    BY <2>1, <2>3
<1>13. InWriting'
  <2>1. pos' = 0 /\ got' = <<>> /\ Sent' = Sent
    BY <1>1, <1>2, MessageStays DEF InWriting
  <2>2. Cut(Sent', buf', d, k + 1) /\ out' \in Seq(T) /\ Suffix(out', Sent', k + 1) /\ d[0] = 0
    BY <1>1, <1>3, <1>6, <1>8, <1>10, <2>1
  <2>3. k + 1 \in Nat
    BY <1>3, SMTT(60)
  <2>4. QED
    BY <2>1, <2>2, <2>3 DEF InWriting
<1>14. QED
  BY <1>1, <1>12, <1>13 DEF WireInv

\* The frame is handed over.
LEMMA DeliverStep ==
  ASSUME WireInv, Deliver
  PROVE  WireInv'
<1>1. /\ status = "writing" /\ out = <<>> /\ script' = Reads(kind)
      /\ UNCHANGED <<kind, seed, lens>> /\ UNCHANGED <<out, got>>
      /\ pos' = IF kind \in Rpc THEN 0 ELSE 4
      /\ buf' = IF kind \in Rpc THEN buf ELSE make_zpayload(buf)
      /\ status' = IF Len(buf) < MinSize THEN "threw" ELSE "reading"
  BY DEF Deliver
<1>2. Message /\ InWriting
  BY <1>1 DEF WireInv
<1>3. PICK k, c : k \in Nat /\ Cut(Sent, buf, c, k) /\ (\E T : out \in Seq(T)) /\ Suffix(out, Sent, k) /\ c[0] = 0
  BY <1>2 DEF InWriting
<1>4. Len(Sent) \in Nat /\ buf \in Seq(Nat) /\ kind \in Kinds
  BY <1>2, SentIs DEF Message
<1>5. k = Len(Sent)
  BY <1>1, <1>3, <1>4, SMTT(60) DEF Suffix
<1>6. status' = "reading"
  BY <1>1, <1>2, <1>3, <1>5, LongEnough DEF Message
<1>7. \E d : Cut(Sent, buf', d, Len(Sent)) /\ d[0] = pos' /\ buf' \in Seq(Nat)
  <2>1. CASE kind \in Rpc
    BY <1>1, <1>3, <1>4, <1>5, <2>1
  <2>2. CASE kind \notin Rpc
    <3>1. PICK a : a = Digits(Len(buf), 4)
      OBVIOUS
    <3>2. a \in Seq(Nat) /\ Len(a) = 4
      <4>1. \A i \in 1 .. 4 : Power[4 - i] \in Nat \ {0}
        BY PowerIs, SMTT(60)
      <4>a. PICK n : n = Len(buf)
        OBVIOUS
      <4>b. n \in Int
        BY <1>4, <4>a, SMTT(60)
      <4>2. \A i \in 1 .. 4 : (n \div Power[4 - i]) % B \in Nat
        BY <4>1, <4>b, WireAssumption, SMTT(60)
      <4>3. QED
        BY <3>1, <4>a, <4>2, SMTT(60) DEF Digits
    <3>3. buf' = a \o buf /\ pos' = 4
      BY <1>1, <2>2, <3>1 DEF make_zpayload
    <3>4. PICK d : Cut(Sent, a \o buf, d, Len(Sent)) /\ d[0] = Len(a) + c[0]
      <4>1. Pieces(Sent, Len(Sent)) /\ Cut(Sent, buf, c, Len(Sent))
        BY <1>2, <1>3, <1>5, SentBytes
      <4>2. Cuts(Sent, a \o buf, Len(a) + c[0], Len(Sent))
        BY <1>4, <3>2, <4>1, CutShifted
      <4>3. QED
        BY <4>2 DEF Cuts
    <3>5. a \o buf \in Seq(Nat) /\ d[0] = 4
      BY <1>3, <1>4, <3>2, <3>4, SMTT(60)
    <3>6. QED
      BY <3>3, <3>4, <3>5
  <2>3. QED
    BY <2>1, <2>2
<1>8. PICK d : Cut(Sent, buf', d, Len(Sent)) /\ d[0] = pos' /\ buf' \in Seq(Nat)
  BY <1>7
<1>9. InReading'
  <2>1. Sent' = Sent /\ \A s, m : Script(s, m)' = Script(s, m)
    BY <1>1, MessageStays
  <2>2. Script(Reads(kind), 0)
    BY <1>2, ScriptBegins DEF Message
  <2>3. PICK m, s : m = 0 /\ s = Reads(kind)
    OBVIOUS
  <2>4. Script(s, m)'
    BY <2>1, <2>2, <2>3
  <2>5. Script(script, m)'
    BY <1>1, <2>3, <2>4 DEF Script
  <2>6. got' = <<>> /\ <<>> \in Seq(Nat) /\ Len(<<>>) = 0 /\ \A i \in 1 .. 0 : FALSE
    BY <1>1, <1>2, SMTT(60) DEF InWriting
  <2>7. m \in Nat /\ m <= Len(Sent') /\ Len(got') = m /\ \A i \in 1 .. m : got'[i] = Sent'[i]
    BY <1>4, <2>1, <2>3, <2>6, SMTT(60)
  <2>8. QED
    BY <1>8, <2>1, <2>3, <2>5, <2>6, <2>7 DEF InReading
<1>10. Message'
  BY <1>1, <1>2, <1>8 DEF Message
<1>11. InBounds'
  <2> SUFFICES ASSUME kind \in Rpc PROVE script' \in Seq(RpcFields) /\ pos' \in Nat /\ pos' <= Len(buf')
    BY <1>1 DEF InBounds
  <2>1. Reads(kind) = RpcReads[kind]
    BY DEF Reads
  <2>2. Reads(kind) \in Seq(RpcFields)
    BY <2>1, RpcIs
  <2>3. QED
    BY <1>1, <1>8, <2>2, SMTT(60)
<1>12. QED
  BY <1>6, <1>9, <1>10, <1>11 DEF WireInv

\* read_*.
LEMMA ReadFieldStep ==
  ASSUME WireInv, ReadField
  PROVE  WireInv'
<1>1. PICK f, x : f = Head(script) /\ x = Item(pos, f[2])
  OBVIOUS
<1>2. /\ status = "reading" /\ script # <<>> /\ UNCHANGED <<kind, seed, lens>> /\ UNCHANGED <<out, buf>>
      /\ \/ /\ Short(pos, f[2]) /\ status' = "threw" /\ UNCHANGED <<pos, got, script>>
         \/ /\ ~Short(pos, f[2]) /\ pos' = x.next /\ got' = Append(got, <<f[1], f[2], x.value>>)
            /\ script' = Brings(f, x.value) \o Tail(script) /\ UNCHANGED status
  BY <1>1 DEF ReadField, Brings
<1>3. Message /\ InBounds /\ (NamesFit => InReading)
  BY <1>2 DEF WireInv
<1>4. Message'
  BY <1>2, <1>3 DEF Message
<1>5. InBounds'
  <2> SUFFICES ASSUME kind \in Rpc PROVE script' \in Seq(RpcFields) /\ pos' \in Nat /\ pos' <= Len(buf)
    BY <1>2 DEF InBounds
  <2>1. script \in Seq(RpcFields) /\ pos \in Nat /\ pos <= Len(buf) /\ Len(buf) \in Nat
    BY <1>3, SMTT(60) DEF InBounds, Message
  <2>2. CASE UNCHANGED <<pos, got, script>>
    BY <2>1, <2>2
  <2>3. CASE /\ ~Short(pos, f[2]) /\ pos' = x.next
             /\ script' = Brings(f, x.value) \o Tail(script)
    <3>1. f \in RpcFields /\ Tail(script) \in Seq(RpcFields)
      BY <1>1, <1>2, <2>1, HeadAndTail
    <3>2. f[1] # "opcode" /\ f[2] \in {"u8", "u32", "i32", "str16", "str32"}
      BY <3>1 DEF RpcFields
    <3>3. script' = Tail(script)
      <4>1. Brings(f, x.value) = <<>>
        BY <3>2 DEF Brings
      <4>2. <<>> \o Tail(script) = Tail(script)
        BY <3>1, SMTT(60)
      <4>3. QED
        BY <2>3, <4>1, <4>2
    <3>4. PICK w, n : w = Width(f[2]) /\ n = ReadNumber(pos, f[2])
      OBVIOUS
    <3>5. w \in Nat
      BY <3>2, <3>4 DEF Width
    <3>6. pos + w <= Len(buf)
      BY <2>1, <2>3, <3>4, <3>5, SMTT(60) DEF Short
    <3>7. CASE f[2] \in {"str16", "str32"}
      <4>1. pos' = pos + w + n
        <5>1. x = [value |-> [i \in 1 .. n |-> Byte(pos + w + i)], next |-> pos + w + n]
          BY <1>1, <3>4, <3>7 DEF Item
        <5>2. QED
          BY <2>3, <5>1
      <4>2. n \in Nat
        <5>1. buf \in Seq(Nat)
          BY <1>3 DEF Message
        <5>2. QED
          BY <2>1, <3>4, <3>7, <5>1, ReadsNatural
      <4>3. pos + w + n <= Len(buf)
        BY <2>1, <2>3, <3>4, <3>5, <3>7, <4>2, SMTT(60) DEF Short
      <4>4. QED
        BY <2>1, <3>1, <3>3, <3>5, <4>1, <4>2, <4>3, SMTT(60)
    <3>8. CASE f[2] \notin {"str16", "str32"}
      <4>1. x = [value |-> n, next |-> pos + w]
        BY <1>1, <3>2, <3>4, <3>8 DEF Item
      <4>2. pos' = pos + w
        BY <2>3, <4>1
      <4>3. pos + w \in Nat
        BY <2>1, <3>5, SMTT(60)
      <4>4. QED
        BY <3>1, <3>3, <3>6, <4>2, <4>3
    <3>9. QED
      BY <3>7, <3>8
  <2>4. QED
    BY <1>2, <2>2, <2>3
<1>6. ASSUME NamesFit PROVE status' = "reading" /\ InReading'
  <2>1. PICK m, c :
          /\ m \in Nat /\ Cut(Sent, buf, c, Len(Sent)) /\ m <= Len(Sent) /\ pos = c[m] /\ Script(script, m)
          /\ (\E T : got \in Seq(T)) /\ Len(got) = m /\ \A i \in 1 .. m : got[i] = Sent[i]
    BY <1>3, <1>6 DEF InReading
  <2>2. kind \in Kinds /\ seed \in Seeds /\ lens \in [1 .. 3 -> Lens] /\ buf \in Seq(Nat)
    BY <1>3 DEF Message
  <2>3. PICK g, v : g = Flat[m + 1] /\ v = Value(g, m + 1)
    OBVIOUS
  <2>4. m + 1 \in 1 .. Len(Flat) /\ f = g /\ Script(Brings(f, v) \o Tail(script), m + 1)
    BY <1>1, <1>2, <2>1, <2>2, <2>3, ScriptStep
  <2>5. /\ m + 1 \in 1 .. Len(Sent) /\ Len(Sent) \in Nat
        /\ Sent[m + 1] = <<f[1], f[2], v>> /\ f[2] \in FieldTypes /\ Typed(f[2], v) /\ Fits(f[2], v)
    BY <1>6, <2>2, <2>3, <2>4, SentIs
  <2>6. /\ pos \in Nat /\ c[m + 1] = pos + Len(Bytes(f[2], v)) /\ Holds(buf, pos, Bytes(f[2], v))
    <3>1. Sent[m + 1][2] = f[2] /\ Sent[m + 1][3] = v
      <4>1. Sent[m + 1] = <<f[1], f[2], v>>
        BY <2>5
      <4>2. QED
        BY <4>1, SMTT(60)
    <3>a. (m + 1) - 1 = m /\ m \in 0 .. Len(Sent)
      <4>1. m \in Nat /\ m <= Len(Sent) /\ Len(Sent) \in Nat
        BY <2>1, <2>5
      <4>2. QED
        BY <4>1, SMTT(60)
    <3>b. /\ c \in [0 .. Len(Sent) -> Nat]
          /\ c[m + 1] = c[(m + 1) - 1] + Len(Bytes(Sent[m + 1][2], Sent[m + 1][3]))
          /\ Holds(buf, c[(m + 1) - 1], Bytes(Sent[m + 1][2], Sent[m + 1][3]))
      BY <2>1, <2>5 DEF Cut
    <3>2. QED
      BY <2>1, <3>1, <3>a, <3>b
  <2>7. x.value = v /\ x.next = c[m + 1] /\ ~Short(pos, f[2])
    BY <1>1, <2>2, <2>5, <2>6, ItemBack
  <2>8. /\ pos' = c[m + 1] /\ got' = Append(got, Sent[m + 1])
        /\ script' = Brings(f, v) \o Tail(script) /\ status' = "reading"
    BY <1>2, <2>5, <2>7
  <2>9. (\E T : got' \in Seq(T)) /\ Len(got') = m + 1 /\ \A i \in 1 .. m + 1 : got'[i] = Sent[i]
    <3>1. PICK T : got \in Seq(T)
      BY <2>1
    <3>2. PICK U : U = T \cup {Sent[m + 1]}
      OBVIOUS
    <3>3. got \in Seq(U) /\ Sent[m + 1] \in U
      BY <3>1, <3>2, SMTT(60)
    <3>4. got' \in Seq(U) /\ Len(got') = m + 1 /\ got'[m + 1] = Sent[m + 1] /\ \A i \in 1 .. m : got'[i] = got[i]
      BY <2>1, <2>8, <3>3, SMTT(60)
    <3>5. QED
      BY <2>1, <3>4, SMTT(60)
  <2>10. Sent' = Sent /\ \A s, k : Script(s, k)' = Script(s, k)
    BY <1>2, MessageStays
  <2>11. PICK k, s : k = m + 1 /\ s = Brings(f, v) \o Tail(script)
    OBVIOUS
  <2>12. Script(script, k)'
    <3>1. Script(s, k)'
      BY <2>4, <2>10, <2>11
    <3>2. QED
      BY <2>8, <2>11, <3>1 DEF Script
  <2>13. k \in Nat /\ k <= Len(Sent')
    BY <2>5, <2>10, <2>11, SMTT(60)
  <2>14. QED
    BY <1>2, <2>1, <2>8, <2>9, <2>10, <2>11, <2>12, <2>13 DEF InReading
<1>7. NamesFit' = NamesFit
  BY <1>2, MessageStays
<1>8. status' \in {"reading", "threw"}
  BY <1>2
<1>9. QED
  BY <1>4, <1>5, <1>6, <1>7, <1>8 DEF WireInv

\* The whole frame is read.
LEMMA ReadDoneStep ==
  ASSUME WireInv, ReadDone \/ UNCHANGED wireVars
  PROVE  WireInv'
<1>1. /\ UNCHANGED <<kind, seed, lens>> /\ UNCHANGED <<out, buf, script, pos, got>>
      /\ status' = status \/ (status = "reading" /\ status' = "done" /\ script = <<>>)
  BY DEF ReadDone, wireVars
<1>2. Sent' = Sent /\ NamesFit' = NamesFit /\ Flat' = Flat
  BY <1>1, MessageStays
<1>4. \A m : Script(script, m)' = Script(script, m)
  BY <1>1, <1>2 DEF Script
<1>5. Message' = Message /\ InBounds' = InBounds /\ InWriting' = InWriting /\ InReading' = InReading
  BY <1>1, <1>2, <1>4 DEF Message, InBounds, InWriting, InReading
<1>6. QED
  BY <1>1, <1>2, <1>5 DEF WireInv

\* The invariant says both.
LEMMA WireImplies ==
  ASSUME WireInv
  PROVE  RoundTrip /\ ReadsInBounds
<1>1. Message /\ InBounds
  BY DEF WireInv
<1>2. kind \in Kinds /\ seed \in Seeds /\ lens \in [1 .. 3 -> Lens] /\ buf \in Seq(Nat)
  BY <1>1 DEF Message
<1>3. Len(Sent) \in Nat /\ Len(Sent) = Len(Flat) /\ (\E T : Sent \in Seq(T)) /\ Len(buf) \in Nat
  BY <1>2, SentIs, SMTT(60)
<1>4. ASSUME NamesFit, status = "done" PROVE got = Sent /\ pos = Len(buf)
  <2>1. PICK m, c :
          /\ m \in Nat /\ Cut(Sent, buf, c, Len(Sent)) /\ m <= Len(Sent) /\ pos = c[m] /\ Script(script, m)
          /\ (\E T : got \in Seq(T)) /\ Len(got) = m /\ \A i \in 1 .. m : got[i] = Sent[i]
    BY <1>4 DEF WireInv, InReading
  <2>2. Script(<<>>, m)
    BY <1>4, <2>1 DEF WireInv
  <2>3. m = Len(Sent)
    BY <1>2, <1>3, <2>1, <2>2, ScriptEnds
  <2>4. pos = Len(buf)
    BY <2>1, <2>3 DEF Cut
  <2>5. got = Sent
    <3>1. PICK T, U : got \in Seq(T) /\ Sent \in Seq(U)
      BY <1>3, <2>1
    <3>2. DOMAIN got = 1 .. m /\ DOMAIN Sent = 1 .. m
      BY <2>1, <2>3, <3>1, SMTT(60)
    <3>3. got = [i \in 1 .. m |-> got[i]] /\ Sent = [i \in 1 .. m |-> Sent[i]]
      BY <2>1, <2>3, <3>1, SMTT(60)
    <3>4. QED
      BY <2>1, <3>3
  <2>6. QED
    BY <2>4, <2>5
<1>5. RoundTrip
  BY <1>4 DEF WireInv, RoundTrip
<1>6. ReadsInBounds
  <2>1. CASE kind \in Rpc
    BY <1>1, <2>1 DEF InBounds, ReadsInBounds
  <2>2. CASE kind \notin Rpc /\ status = "writing"
    <3>1. pos = 0
      BY <2>2 DEF WireInv, InWriting
    <3>2. QED
      BY <1>3, <3>1, SMTT(60) DEF ReadsInBounds
  <2>3. CASE kind \notin Rpc /\ status # "writing"
    <3>1. NamesFit
      BY <1>2, <2>3, ZooKeeperFits
    <3>2. InReading
      BY <2>3, <3>1 DEF WireInv
    <3>3. PICK m, c : m \in Nat /\ Cut(Sent, buf, c, Len(Sent)) /\ m <= Len(Sent) /\ pos = c[m]
      BY <3>2 DEF InReading
    <3>4. pos <= Len(buf)
      BY <1>3, <3>3, SMTT(60) DEF Cut
    <3>5. QED
      BY <3>4 DEF ReadsInBounds
  <2>4. QED
    BY <2>1, <2>2, <2>3
<1>7. QED
  BY <1>5, <1>6

\* The inductive invariant holds.
LEMMA WireInvariant == WireSpec => []WireInv
<1>1. WireInv /\ [WireNext]_wireVars => WireInv'
  BY WriteFieldStep, DeliverStep, ReadFieldStep, ReadDoneStep DEF WireNext
<1>2. QED
  BY <1>1, WireBegins, PTL DEF WireSpec

\* What is read is what was written, for any base, any lengths and any values.
THEOREM MessagesRoundTrip == WireSpec => []RoundTrip
  BY WireInvariant, WireImplies, PTL

\* Nothing is read past the end of the body, whatever the lengths.
THEOREM MessagesInBounds == WireSpec => []ReadsInBounds
  BY WireInvariant, WireImplies, PTL
===============================================================================
