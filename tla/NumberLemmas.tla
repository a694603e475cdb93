----------------------------- MODULE NumberLemmas -----------------------------
(***************************************************************************)
(* Facts about natural numbers that the proofs of several modules rest on: *)
(* induction and recursion, stated for sets and functions instead of       *)
(* operators; and division with remainder.                                 *)
(***************************************************************************)
EXTENDS Integers, WellFoundedInduction, TLAPS

-----------------------------------------------------------------------------
(* Induction and recursion. *)

(* A set of natural numbers that is not empty has a least element. *)
LEMMA LeastNat ==
    ASSUME NEW T \in SUBSET Nat, T # {}
    PROVE  \E n \in T : \A m \in T : n <= m
<1>1. PICK R : /\ IsWellFoundedOn(R, Nat)
               /\ \A x, y \in Nat : <<x, y>> \in R <=> x < y
  <2>1. \A x, y \in Nat : <<x, y>> \in OpToRel(<, Nat) <=> x < y
    BY DEF OpToRel
  <2> QED
    BY <2>1, NatLessThanWellFounded
<1>2. PICK n \in T : \A m \in T : <<m, n>> \notin R
  <2>1. IsWellFoundedOn(R, Nat) /\ T \subseteq Nat
    BY <1>1
  <2> QED
    BY <2>1, WFMin
<1>3. \A m \in T : ~(m < n)
  BY <1>1, <1>2
<1> QED
  BY <1>3

(* A set that contains 0, and with each number the next one, has them all. *)
LEMMA Induct ==
    ASSUME NEW S \in SUBSET Nat, 0 \in S, \A n \in S : n + 1 \in S
    PROVE  S = Nat
<1> SUFFICES ASSUME S # Nat PROVE FALSE
  OBVIOUS
<1>1. PICK n \in Nat \ S : \A m \in Nat \ S : n <= m
  BY LeastNat
<1>2. n - 1 \in Nat \ S
  BY <1>1
<1> QED
  BY <1>1, <1>2

(* The same up to a bound. *)
LEMMA InductTo ==
    ASSUME NEW k \in Nat, NEW S \in SUBSET Nat, 0 \in S,
           \A n \in S : n < k => n + 1 \in S
    PROVE  0 .. k \subseteq S
<1> DEFINE T == {n \in Nat : n <= k => n \in S}
<1>1. 0 \in T
  OBVIOUS
<1>2. \A n \in T : n + 1 \in T
  OBVIOUS
<1> HIDE DEF T
<1>3. T = Nat
  BY <1>1, <1>2, Induct DEF T
<1> QED
  BY <1>3 DEF T

(* A function on the natural numbers is given by its first value and by    *)
(* what comes after each value.                                            *)
LEMMA Iterates ==
    ASSUME NEW S, NEW first \in S, NEW next \in [S -> S]
    PROVE  \E f \in [Nat -> S] :
              f[0] = first /\ \A i \in Nat : f[i + 1] = next[f[i]]
<1> DEFINE Upto(n, g) == /\ g \in [0 .. n -> S]
                         /\ g[0] = first
                         /\ \A i \in 1 .. n : g[i] = next[g[i - 1]]
           G(n) == CHOOSE g : Upto(n, g)
           f == [i \in Nat |-> G(i)[i]]
<1>1. \A n \in Nat : \E g : Upto(n, g)
  <2> DEFINE T == {n \in Nat : \E g : Upto(n, g)}
  <2>1. 0 \in T
    <3>1. Upto(0, [i \in 0 .. 0 |-> first])
      OBVIOUS
    <3> QED
      BY <3>1
  <2>2. ASSUME NEW n \in T PROVE n + 1 \in T
    <3>1. PICK g : Upto(n, g)
      BY <2>2
    <3> DEFINE h == [i \in 0 .. n + 1 |-> IF i = n + 1 THEN next[g[n]] ELSE g[i]]
    <3>2. n + 1 \in Nat /\ Upto(n + 1, h)
      BY <2>2, <3>1
    <3> HIDE DEF h, Upto
    <3> QED
      BY <3>2
  <2> HIDE DEF T
  <2>3. T = Nat
    BY <2>1, <2>2, Induct DEF T
  <2> QED
    BY <2>3 DEF T
<1>2. ASSUME NEW n \in Nat PROVE Upto(n, G(n))
  BY <1>1
<1> HIDE DEF G
<1>3. \A n \in Nat : \A m \in Nat : n <= m => G(m)[n] = G(n)[n]
  <2> DEFINE T == {n \in Nat : \A m \in Nat : n <= m => G(m)[n] = G(n)[n]}
  <2>1. 0 \in T
    BY <1>2
  <2>2. ASSUME NEW n \in T PROVE n + 1 \in T
    <3> SUFFICES ASSUME NEW m \in Nat, n + 1 <= m
                 PROVE  G(m)[n + 1] = G(n + 1)[n + 1]
      BY <2>2
    <3>1. G(m)[n] = G(n)[n] /\ G(n + 1)[n] = G(n)[n]
      BY <2>2
    <3>2. G(m)[n + 1] = next[G(m)[n]] /\ G(n + 1)[n + 1] = next[G(n + 1)[n]]
      BY <1>2, <2>2
    <3> QED
      BY <3>1, <3>2
  <2> HIDE DEF T
  <2>3. T = Nat
    BY <2>1, <2>2, Induct DEF T
  <2> QED
    BY <2>3 DEF T
<1>4. f \in [Nat -> S] /\ f[0] = first
  BY <1>2
<1>5. ASSUME NEW i \in Nat PROVE f[i + 1] = next[f[i]]
  <2>1. G(i + 1)[i + 1] = next[G(i + 1)[i]]
    BY <1>2
  <2>2. G(i + 1)[i] = G(i)[i]
    BY <1>3
  <2> QED
    BY <2>1, <2>2
<1> QED
  BY <1>4, <1>5

-----------------------------------------------------------------------------
(* Division. *)

LEMMA DivMod ==
    ASSUME NEW n \in Nat, NEW a \in Nat \ {0}
    PROVE  /\ n \div a \in Nat /\ n % a \in 0 .. a - 1
           /\ n = a * (n \div a) + (n % a)
  OBVIOUS

(* There is one way to divide. *)
LEMMA DivUnique ==
    ASSUME NEW a \in Nat \ {0}, NEW q \in Nat, NEW r \in 0 .. a - 1
    PROVE  (a * q + r) \div a = q /\ (a * q + r) % a = r
  OBVIOUS

LEMMA ModSmall ==
    ASSUME NEW a \in Nat \ {0}, NEW n \in 0 .. a - 1
    PROVE  n % a = n
  OBVIOUS

(* The remainder by a product. *)
LEMMA ModProduct ==
    ASSUME NEW n \in Nat, NEW a \in Nat \ {0}, NEW b \in Nat \ {0}
    PROVE  n % (b * a) = a * ((n \div a) % b) + (n % a)
<1> DEFINE q == n \div a  r == n % a  p == q \div b  s == q % b
<1>1. q \in Nat /\ r \in 0 .. a - 1 /\ n = a * q + r
  BY DivMod
<1>2. p \in Nat /\ s \in 0 .. b - 1 /\ q = b * p + s
  BY <1>1, DivMod
<1> HIDE DEF q, r, p, s
<1>3. n = (b * a) * p + (a * s + r)
  BY <1>1, <1>2
<1>4. b * a \in Nat \ {0} /\ a * s + r \in 0 .. (b * a) - 1
  <2>1. a * s <= a * (b - 1) /\ a * s \in Nat
    BY <1>2
  <2>2. a * (b - 1) = b * a - a
    OBVIOUS
  <2> QED
    BY <1>1, <2>1, <2>2
<1>5. n % (b * a) = a * s + r
  BY <1>3, <1>4, <1>2, DivUnique
<1> QED
  BY <1>5 DEF q, r, s
=============================================================================
