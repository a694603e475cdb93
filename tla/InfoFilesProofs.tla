--------------------------- MODULE InfoFilesProofs ---------------------------
(***************************************************************************)
(* Proofs about InfoFiles: whatever the two transfer.info hold, whatever   *)
(* lies behind the buffers and whatever key and id there is, the second    *)
(* run finds in me.info what the first one has written.                    *)
(***************************************************************************)
EXTENDS InfoFiles, FiniteSetTheorems, SequenceTheorems, NumberLemmas, TLAPS

-----------------------------------------------------------------------------
(* Lines. *)

LEMMA BeginsValues ==
    ASSUME NEW s \in Seq(Char), NEW c
    PROVE  /\ Begins(s, c) \subseteq 1 .. Len(s) + 1
           /\ 1 \in Begins(s, c)
           /\ \A i \in 1 .. Len(s) : s[i] = c => i + 1 \in Begins(s, c)
           /\ \A i \in Begins(s, c) : i # 1 => i - 1 \in 1 .. Len(s) /\ s[i - 1] = c
<1>1. DOMAIN s = 1 .. Len(s) /\ Len(s) \in Nat
  OBVIOUS
<1> QED
  BY <1>1 DEF Begins

LEMMA EndOnce ==
    ASSUME NEW s \in Seq(Char), NEW c, NEW i \in 1 .. Len(s) + 1, NEW j \in i - 1 .. Len(s),
           j = Len(s) \/ s[j + 1] = c, \A k \in i .. j : s[k] # c
    PROVE  End(s, c, i) = j
<1> DEFINE Ends(e) == (e = Len(s) \/ s[e + 1] = c) /\ \A k \in i .. e : s[k] # c
<1>1. ASSUME NEW e \in i - 1 .. Len(s), Ends(e) PROVE e = j
  <2>1. CASE e < j
    <3>1. e + 1 \in i .. j /\ e # Len(s)
      BY <2>1
    <3> QED
      BY <1>1, <3>1
  <2>2. CASE e > j
    <3>1. j + 1 \in i .. e /\ j # Len(s)
      BY <2>2
    <3> QED
      BY <1>1, <3>1
  <2> QED
    BY <2>1, <2>2
<1>2. Ends(j)
  OBVIOUS
<1>3. (CHOOSE e \in i - 1 .. Len(s) : Ends(e)) = j
  <2> HIDE DEF Ends
  <2> QED
    BY <1>1, <1>2
<1> QED
  BY <1>3 DEF End

LEMMA EndValue ==
    ASSUME NEW s \in Seq(Char), NEW c, NEW i \in 1 .. Len(s) + 1
    PROVE  /\ End(s, c, i) \in i - 1 .. Len(s)
           /\ End(s, c, i) = Len(s) \/ s[End(s, c, i) + 1] = c
           /\ \A k \in i .. End(s, c, i) : s[k] # c
<1> DEFINE T == {j \in Nat : /\ i - 1 <= j /\ j <= Len(s)
                             /\ j = Len(s) \/ s[j + 1] = c}
<1>1. T \subseteq Nat /\ Len(s) \in T
  OBVIOUS
<1>2. PICK j \in T : \A m \in T : j <= m
  <2> HIDE DEF T
  <2> QED
    BY <1>1, LeastNat
<1>3. ASSUME NEW k \in i .. j PROVE s[k] # c
  <2> SUFFICES ASSUME s[k] = c PROVE FALSE
    OBVIOUS
  <2>1. k - 1 \in Nat /\ i - 1 <= k - 1 /\ k - 1 <= Len(s) /\ (k - 1) + 1 = k
    OBVIOUS
  <2>2. k - 1 \in T
    BY <2>1
  <2>3. j <= k - 1
    <3> HIDE DEF T
    <3> QED
      BY <1>2, <2>2
  <2> QED
    BY <2>1, <2>3
<1>4. j \in i - 1 .. Len(s) /\ (j = Len(s) \/ s[j + 1] = c)
  OBVIOUS
<1>5. End(s, c, i) = j
  BY <1>3, <1>4, EndOnce
<1> QED
  BY <1>3, <1>4, <1>5

Without(t, c) == \A k \in 1 .. Len(t) : t[k] # c

(* A line is without the separator, and without what its text is without. *)
LEMMA LineWithout ==
    ASSUME NEW s \in Seq(Char), NEW c, NEW i \in 1 .. Len(s) + 1
    PROVE  /\ LineAt(s, c, i) \in Seq(Char)
           /\ Without(LineAt(s, c, i), c)
           /\ \A d : Without(s, d) => Without(LineAt(s, c, i), d)
<1>j. PICK j : j = End(s, c, i)
  OBVIOUS
<1>1. j \in i - 1 .. Len(s) /\ \A k \in i .. j : s[k] # c
  BY <1>j, EndValue
<1>t. PICK t : t = SubSeq(s, i, j)
  OBVIOUS
<1>2. /\ t \in Seq(Char) /\ Len(t) = (j + 1) - i
      /\ \A k \in 1 .. Len(t) : t[k] = s[(i - 1) + k]
  BY <1>t, <1>1
<1>3. Without(t, c)
  <2>1. \A k \in 1 .. Len(t) : (i - 1) + k \in i .. j
    BY <1>1, <1>2
  <2> QED
    BY <1>1, <1>2, <2>1 DEF Without
<1>4. ASSUME NEW d, Without(s, d) PROVE Without(t, d)
  <2>1. \A k \in 1 .. Len(t) : (i - 1) + k \in 1 .. Len(s)
    BY <1>1, <1>2
  <2> QED
    BY <1>2, <1>4, <2>1 DEF Without
<1> QED
  BY <1>j, <1>t, <1>2, <1>3, <1>4 DEF LineAt

(* The line from i on is t, if t is there, and it ends there. *)
LEMMA LineIs ==
    ASSUME NEW s \in Seq(Char), NEW c, NEW i \in 1 .. Len(s) + 1,
           NEW t \in Seq(Char), Without(t, c), (i - 1) + Len(t) <= Len(s),
           \A k \in 1 .. Len(t) : s[(i - 1) + k] = t[k],
           (i - 1) + Len(t) = Len(s) \/ s[((i - 1) + Len(t)) + 1] = c
    PROVE  LineAt(s, c, i) = t
<1>j. PICK j : j = (i - 1) + Len(t)
  OBVIOUS
<1>1. j \in i - 1 .. Len(s) /\ (j = Len(s) \/ s[j + 1] = c)
  BY <1>j
<1>2. ASSUME NEW k \in i .. j PROVE s[k] # c
  <2>1. (k + 1) - i \in 1 .. Len(t) /\ (i - 1) + ((k + 1) - i) = k
    BY <1>j
  <2> QED
    BY <2>1 DEF Without
<1>3. End(s, c, i) = j
  BY <1>1, <1>2, EndOnce
<1>u. PICK u : u = SubSeq(s, i, j)
  OBVIOUS
<1>4. u \in Seq(Char) /\ Len(u) = (j + 1) - i /\ \A k \in 1 .. Len(u) : u[k] = s[(i - 1) + k]
  BY <1>u, <1>1
<1>5. Len(u) = Len(t)
  BY <1>j, <1>4
<1>6. u = t
  BY <1>4, <1>5, SeqEqual
<1> QED
  BY <1>3, <1>u, <1>6 DEF LineAt

-----------------------------------------------------------------------------
(* The order of the lines. *)

Below(s, c, i) == {j \in Begins(s, c) : j < i}

LEMMA BelowFinite ==
    ASSUME NEW s \in Seq(Char), NEW c, NEW i
    PROVE  /\ IsFiniteSet(Begins(s, c)) /\ Cardinality(Begins(s, c)) \in Nat
           /\ IsFiniteSet(Below(s, c, i)) /\ Cardinality(Below(s, c, i)) \in Nat
<1>1. IsFiniteSet(1 .. Len(s) + 1)
  BY FS_Interval
<1>2. IsFiniteSet(Begins(s, c))
  BY <1>1, BeginsValues, FS_Subset
<1>3. Below(s, c, i) \subseteq Begins(s, c)
  BY DEF Below
<1>4. IsFiniteSet(Below(s, c, i))
  BY <1>2, <1>3, FS_Subset
<1> QED
  BY <1>2, <1>4, FS_CardinalityType

(* There are fewer places below the first of two.                          *)
LEMMA BelowLess ==
    ASSUME NEW s \in Seq(Char), NEW c,
           NEW i \in Begins(s, c), NEW k \in Begins(s, c), i < k
    PROVE  Cardinality(Below(s, c, i)) < Cardinality(Below(s, c, k))
<1>1. \A j \in Begins(s, c) : j \in Nat
  BY BeginsValues
<1>2. /\ i \notin Below(s, c, i)
      /\ Below(s, c, i) \cup {i} \subseteq Below(s, c, k)
  BY <1>1 DEF Below
<1>3. Cardinality(Below(s, c, i) \cup {i}) = Cardinality(Below(s, c, i)) + 1
  BY <1>2, BelowFinite, FS_AddElement
<1>4. Cardinality(Below(s, c, i) \cup {i}) <= Cardinality(Below(s, c, k))
  BY <1>2, BelowFinite, FS_Subset
<1> QED
  BY <1>3, <1>4, BelowFinite

(* The line that n others are before. *)
LEMMA NthLine ==
    ASSUME NEW s \in Seq(Char), NEW c, NEW i \in Begins(s, c), NEW n \in Nat,
           Cardinality(Below(s, c, i)) = n
    PROVE  /\ n + 1 \in 1 .. Len(Split(s, c))
           /\ Split(s, c)[n + 1] = LineAt(s, c, i)
<1>1. Cardinality(Begins(s, c)) \in Nat /\ n + 1 <= Cardinality(Begins(s, c))
  <2>1. i \notin Below(s, c, i) /\ Below(s, c, i) \cup {i} \subseteq Begins(s, c)
    <3>1. i \in Nat
      BY BeginsValues
    <3> QED
      BY <3>1 DEF Below
  <2>2. Cardinality(Below(s, c, i) \cup {i}) = n + 1
    BY <2>1, BelowFinite, FS_AddElement
  <2>3. Cardinality(Below(s, c, i) \cup {i}) <= Cardinality(Begins(s, c))
    BY <2>1, BelowFinite, FS_Subset
  <2> QED
    BY <2>2, <2>3, BelowFinite
<1>2. ASSUME NEW k \in Begins(s, c), Cardinality(Below(s, c, k)) = n PROVE k = i
  <2>1. k \in Nat /\ i \in Nat
    BY BeginsValues
  <2>2. ~(k < i) /\ ~(i < k)
    BY <1>2, BelowLess
  <2> QED
    BY <2>1, <2>2
<1>3. (CHOOSE k \in Begins(s, c) : Cardinality(Below(s, c, k)) = (n + 1) - 1) = i
  <2>1. (n + 1) - 1 = n
    OBVIOUS
  <2> QED
    BY <1>2, <2>1
<1>4. Split(s, c) = [m \in 1 .. Cardinality(Begins(s, c)) |->
         LineAt(s, c, CHOOSE k \in Begins(s, c) : Cardinality(Below(s, c, k)) = m - 1)]
  BY DEF Split, Below
<1>5. Split(s, c)[n + 1]
        = LineAt(s, c, CHOOSE k \in Begins(s, c) : Cardinality(Below(s, c, k)) = (n + 1) - 1)
  BY <1>1, <1>4
<1>6. Len(Split(s, c)) = Cardinality(Begins(s, c))
  BY <1>1, <1>4
<1>7. Split(s, c)[n + 1] = LineAt(s, c, i)
  BY <1>3, <1>5
<1>8. n + 1 \in 1 .. Len(Split(s, c))
  BY <1>1, <1>6
<1> QED
  BY <1>7, <1>8

LEMMA FirstLine ==
    ASSUME NEW s \in Seq(Char), NEW c
    PROVE  /\ Cardinality(Below(s, c, 1)) = 0
           /\ Split(s, c)[1] = LineAt(s, c, 1)
<1>1. Below(s, c, 1) = {}
  BY BeginsValues DEF Below
<1>2. Cardinality(Below(s, c, 1)) = 0
  BY <1>1, FS_EmptySet
<1>3. 1 \in Begins(s, c) /\ 0 \in Nat /\ 0 + 1 = 1
  BY BeginsValues
<1>4. Split(s, c)[0 + 1] = LineAt(s, c, 1)
  BY <1>2, <1>3, NthLine
<1> QED
  BY <1>2, <1>4

(* The next line. *)
LEMMA NextLine ==
    ASSUME NEW s \in Seq(Char), NEW c, NEW i \in Begins(s, c), NEW k \in Begins(s, c),
           i < k, \A j \in Begins(s, c) : ~(i < j /\ j < k)
    PROVE  Cardinality(Below(s, c, k)) = Cardinality(Below(s, c, i)) + 1
<1>1. \A j \in Begins(s, c) : j \in Nat
  BY BeginsValues
<1>2. i \notin Below(s, c, i) /\ Below(s, c, k) = Below(s, c, i) \cup {i}
  BY <1>1 DEF Below
<1> QED
  BY <1>2, BelowFinite, FS_AddElement

(* All lines of a text are without the separator, as far as the second.    *)
LEMMA SecondLine ==
    ASSUME NEW s \in Seq(Char), NEW c, 2 \in 1 .. Len(Split(s, c))
    PROVE  \E i \in 1 .. Len(s) + 1 : Split(s, c)[2] = LineAt(s, c, i)
<1>1. /\ Begins(s, c) \subseteq Nat /\ 1 \in Begins(s, c)
      /\ \A i \in Begins(s, c) : i \in 1 .. Len(s) + 1
  BY BeginsValues
<1>2. Begins(s, c) \ {1} # {}
  <2> SUFFICES ASSUME Begins(s, c) \ {1} = {} PROVE FALSE
    OBVIOUS
  <2>1. Begins(s, c) = {1}
    BY <1>1
  <2>2. Cardinality(Begins(s, c)) = 1
    BY <2>1, FS_Singleton
  <2>3. Len(Split(s, c)) = 1
    <3>n. PICK n : n = Cardinality(Begins(s, c))
      OBVIOUS
    <3>1. n \in Nat
      BY <3>n, BelowFinite
    <3>2. Len(Split(s, c)) = n
      BY <3>n, <3>1 DEF Split
    <3> QED
      BY <2>2, <3>n, <3>2
  <2> QED
    BY <2>3
<1>3. PICK i \in Begins(s, c) \ {1} : \A j \in Begins(s, c) \ {1} : i <= j
  BY <1>1, <1>2, LeastNat
<1>4. 1 < i /\ \A j \in Begins(s, c) : ~(1 < j /\ j < i)
  BY <1>1, <1>3
<1>5. Cardinality(Below(s, c, i)) = 1
  BY <1>1, <1>4, NextLine, FirstLine
<1>6. Split(s, c)[1 + 1] = LineAt(s, c, i)
  BY <1>5, NthLine
<1> QED
  BY <1>1, <1>6

(* s begins with the lines a and b, and where a third begins. *)
BeginsWith(s, c, a, b) ==
    /\ Len(a) + Len(b) + 2 <= Len(s)
    /\ \A k \in 1 .. Len(a) : s[k] = a[k]
    /\ s[Len(a) + 1] = c
    /\ \A k \in 1 .. Len(b) : s[(Len(a) + 1) + k] = b[k]
    /\ s[Len(a) + Len(b) + 2] = c

GoesOn(s, j, d) ==
    /\ Len(s) = j + Len(d)
    /\ \A k \in 1 .. Len(d) : s[j + k] = d[k]

LEMMA ThreeLines ==
    ASSUME NEW s \in Seq(Char), NEW c, NEW a \in Seq(Char), NEW b \in Seq(Char),
           Without(a, c), Without(b, c), BeginsWith(s, c, a, b)
    PROVE  /\ Len(Split(s, c)) \in Nat /\ Len(Split(s, c)) >= 3
           /\ Split(s, c)[1] = a /\ Split(s, c)[2] = b
           /\ \A d \in Seq(Char) :
                 Without(d, c) /\ GoesOn(s, Len(a) + Len(b) + 2, d) =>
                    Len(Split(s, c)) = 3 /\ Split(s, c)[3] = d
<1>p. PICK p \in Nat : p = Len(a) + 2
  OBVIOUS
<1>q. PICK q \in Nat : q = Len(a) + Len(b) + 3
  OBVIOUS
<1>1. /\ p \in 1 .. Len(s) + 1 /\ q \in 1 .. Len(s) + 1 /\ 1 < p /\ p < q
      /\ s[p - 1] = c /\ s[q - 1] = c
  BY <1>p, <1>q DEF BeginsWith
<1>2. p \in Begins(s, c) /\ q \in Begins(s, c) /\ 1 \in Begins(s, c)
  <2>1. p - 1 \in 1 .. Len(s) /\ q - 1 \in 1 .. Len(s) /\ (p - 1) + 1 = p /\ (q - 1) + 1 = q
    BY <1>1
  <2> QED
    BY <1>1, <2>1, BeginsValues
<1>3. ASSUME NEW j \in Begins(s, c), j < q, j # 1, j # p PROVE FALSE
  <2>1. j \in 1 .. Len(s) + 1 /\ j - 1 \in 1 .. Len(s) /\ s[j - 1] = c
    BY <1>3, BeginsValues
  <2>2. CASE j < p
    <3>1. j - 1 \in 1 .. Len(a)
      BY <1>p, <2>1, <2>2
    <3>2. s[j - 1] = a[j - 1] /\ a[j - 1] # c
      BY <3>1 DEF BeginsWith, Without
    <3> QED
      BY <2>1, <3>2
  <2>3. CASE j > p
    <3>1. (j - 1) - (Len(a) + 1) \in 1 .. Len(b)
      BY <1>3, <1>p, <1>q, <2>1, <2>3
    <3>2. (Len(a) + 1) + ((j - 1) - (Len(a) + 1)) = j - 1
      BY <2>1
    <3>3. s[j - 1] # c
      BY <3>1, <3>2 DEF BeginsWith, Without
    <3> QED
      BY <2>1, <3>3
  <2> QED
    BY <1>1, <1>3, <2>1, <2>2, <2>3
<1>4. \A j \in Begins(s, c) : ~(1 < j /\ j < p) /\ ~(p < j /\ j < q)
  <2> TAKE j \in Begins(s, c)
  <2>1. j \in Nat
    BY BeginsValues
  <2> QED
    BY <1>1, <1>3, <2>1
<1>5. Cardinality(Below(s, c, p)) = 1
  <2>1. Cardinality(Below(s, c, p)) = Cardinality(Below(s, c, 1)) + 1
    BY <1>1, <1>2, <1>4, NextLine
  <2> QED
    BY <2>1, FirstLine
<1>6. Cardinality(Below(s, c, q)) = 2
  BY <1>1, <1>2, <1>4, <1>5, NextLine
<1>7. Split(s, c)[1] = a
  <2>0. 1 \in 1 .. Len(s) + 1
    OBVIOUS
  <2>1. /\ (1 - 1) + Len(a) <= Len(s)
        /\ \A k \in 1 .. Len(a) : s[(1 - 1) + k] = a[k]
        /\ s[((1 - 1) + Len(a)) + 1] = c
    BY DEF BeginsWith
  <2>2. LineAt(s, c, 1) = a
    BY <2>0, <2>1, LineIs
  <2> QED
    BY <2>2, FirstLine
<1>8. Split(s, c)[2] = b
  <2>1. /\ (p - 1) + Len(b) <= Len(s)
        /\ \A k \in 1 .. Len(b) : s[(p - 1) + k] = b[k]
        /\ s[((p - 1) + Len(b)) + 1] = c
    BY <1>p DEF BeginsWith
  <2>2. LineAt(s, c, p) = b
    BY <1>1, <2>1, LineIs
  <2>3. Split(s, c)[1 + 1] = LineAt(s, c, p)
    BY <1>2, <1>5, NthLine
  <2> QED
    BY <2>2, <2>3
<1>9. 2 + 1 \in 1 .. Len(Split(s, c)) /\ Split(s, c)[2 + 1] = LineAt(s, c, q)
  BY <1>2, <1>6, NthLine
<1>10. Len(Split(s, c)) = Cardinality(Begins(s, c)) /\ Cardinality(Begins(s, c)) \in Nat
  <2>n. PICK n : n = Cardinality(Begins(s, c))
    OBVIOUS
  <2>1. n \in Nat
    BY <2>n, BelowFinite
  <2>2. Len(Split(s, c)) = n
    BY <2>n, <2>1 DEF Split
  <2> QED
    BY <2>n, <2>1, <2>2
<1>11. ASSUME NEW d \in Seq(Char), Without(d, c), GoesOn(s, Len(a) + Len(b) + 2, d)
       PROVE  Len(Split(s, c)) = 3 /\ Split(s, c)[3] = d
  <2>1. /\ (q - 1) + Len(d) <= Len(s)
        /\ \A k \in 1 .. Len(d) : s[(q - 1) + k] = d[k]
        /\ (q - 1) + Len(d) = Len(s)
    BY <1>q, <1>11 DEF GoesOn
  <2>2. LineAt(s, c, q) = d
    BY <1>1, <1>11, <2>1, LineIs
  <2>3. ASSUME NEW j \in Begins(s, c), j > q PROVE FALSE
    <3>1. j \in Nat /\ j - 1 \in 1 .. Len(s) /\ s[j - 1] = c
      BY <1>1, <2>3, BeginsValues
    <3>2. j - q \in 1 .. Len(d) /\ (q - 1) + (j - q) = j - 1
      BY <2>1, <2>3, <3>1
    <3> QED
      BY <1>11, <2>1, <3>1, <3>2 DEF Without
  <2>4. Begins(s, c) = Below(s, c, q) \cup {q} /\ q \notin Below(s, c, q)
    <3>1. \A j \in Begins(s, c) : j \in Nat
      BY BeginsValues
    <3>2. \A j \in Begins(s, c) : j < q \/ j = q
      BY <2>3, <3>1
    <3>3. q \notin Below(s, c, q)
      BY <1>2, <3>1 DEF Below
    <3>4. \A j \in Begins(s, c) : j \in Below(s, c, q) \/ j = q
      BY <3>2 DEF Below
    <3>5. Below(s, c, q) \subseteq Begins(s, c)
      BY DEF Below
    <3> QED
      BY <1>2, <3>3, <3>4, <3>5
  <2>5. Cardinality(Begins(s, c)) = 2 + 1
    BY <1>6, <2>4, BelowFinite, FS_AddElement
  <2> QED
    BY <1>9, <1>10, <2>2, <2>5
<1>12. Len(Split(s, c)) \in Nat /\ Len(Split(s, c)) >= 3
  BY <1>9, <1>10
<1> QED
  BY <1>7, <1>8, <1>11, <1>12

-----------------------------------------------------------------------------
(* Files. *)

LEMMA Beside ==
    ASSUME NEW a \in Seq(Char), NEW b \in Seq(Char)
    PROVE  /\ a \o b \in Seq(Char) /\ Len(a \o b) = Len(a) + Len(b)
           /\ \A k \in 1 .. Len(a) : (a \o b)[k] = a[k]
           /\ \A k \in 1 .. Len(b) : (a \o b)[Len(a) + k] = b[k]
  OBVIOUS

(* Three joined lines, and whatever may lie behind them. *)
LEMMA JoinValues ==
    ASSUME NEW a \in Seq(Char), NEW b \in Seq(Char), NEW d \in Seq(Char),
           NEW c, Without(a, c), Without(b, c), Without(d, c), c # "\n"
    PROVE  /\ Join(a, b, d) \in Seq(Char)
           /\ Len(Join(a, b, d)) = Len(a) + Len(b) + 2 + Len(d)
           /\ BeginsWith(Join(a, b, d), "\n", a, b)
           /\ GoesOn(Join(a, b, d), Len(a) + Len(b) + 2, d)
           /\ Without(Join(a, b, d), c)
<1>n. PICK n : n = <<"\n">>
  OBVIOUS
<1>1. n \in Seq(Char) /\ Len(n) = 1 /\ n[1] = "\n"
  <2>1. "\n" \in Char
    BY DEF Char
  <2> QED
    BY <1>n, <2>1
<1>u. PICK u : u = a \o n
  OBVIOUS
<1>2. /\ u \in Seq(Char) /\ Len(u) = Len(a) + 1
      /\ \A k \in 1 .. Len(a) : u[k] = a[k]
      /\ u[Len(a) + 1] = "\n"
  <2>1. /\ a \o n \in Seq(Char) /\ Len(a \o n) = Len(a) + Len(n)
        /\ \A k \in 1 .. Len(a) : (a \o n)[k] = a[k]
        /\ \A k \in 1 .. Len(n) : (a \o n)[Len(a) + k] = n[k]
    BY <1>1, Beside
  <2> QED
    BY <1>u, <1>1, <2>1
<1>v. PICK v : v = u \o b
  OBVIOUS
<1>3. /\ v \in Seq(Char) /\ Len(v) = Len(u) + Len(b)
      /\ \A k \in 1 .. Len(u) : v[k] = u[k]
      /\ \A k \in 1 .. Len(b) : v[Len(u) + k] = b[k]
  <2>1. /\ u \o b \in Seq(Char) /\ Len(u \o b) = Len(u) + Len(b)
        /\ \A k \in 1 .. Len(u) : (u \o b)[k] = u[k]
        /\ \A k \in 1 .. Len(b) : (u \o b)[Len(u) + k] = b[k]
    BY <1>2, Beside
  <2> QED
    BY <1>v, <2>1
<1>w. PICK w : w = v \o n
  OBVIOUS
<1>4. /\ w \in Seq(Char) /\ Len(w) = Len(v) + 1
      /\ \A k \in 1 .. Len(v) : w[k] = v[k]
      /\ w[Len(v) + 1] = "\n"
  <2>1. /\ v \o n \in Seq(Char) /\ Len(v \o n) = Len(v) + Len(n)
        /\ \A k \in 1 .. Len(v) : (v \o n)[k] = v[k]
        /\ \A k \in 1 .. Len(n) : (v \o n)[Len(v) + k] = n[k]
    BY <1>1, <1>3, Beside
  <2> QED
    BY <1>w, <1>1, <2>1
<1>x. PICK x : x = w \o d
  OBVIOUS
<1>5. /\ x \in Seq(Char) /\ Len(x) = Len(w) + Len(d)
      /\ \A k \in 1 .. Len(w) : x[k] = w[k]
      /\ \A k \in 1 .. Len(d) : x[Len(w) + k] = d[k]
  <2>1. /\ w \o d \in Seq(Char) /\ Len(w \o d) = Len(w) + Len(d)
        /\ \A k \in 1 .. Len(w) : (w \o d)[k] = w[k]
        /\ \A k \in 1 .. Len(d) : (w \o d)[Len(w) + k] = d[k]
    BY <1>4, Beside
  <2> QED
    BY <1>x, <2>1
<1>6. /\ Len(u) = Len(a) + 1 /\ Len(v) = Len(a) + Len(b) + 1
      /\ Len(w) = Len(a) + Len(b) + 2 /\ Len(x) = Len(a) + Len(b) + 2 + Len(d)
  BY <1>2, <1>3, <1>4, <1>5
<1>7. \A k \in 1 .. Len(a) : x[k] = a[k]
  BY <1>2, <1>3, <1>4, <1>5, <1>6
<1>8. x[Len(a) + 1] = "\n"
  <2>1. Len(a) + 1 \in 1 .. Len(u) /\ Len(a) + 1 \in 1 .. Len(v) /\ Len(a) + 1 \in 1 .. Len(w)
    BY <1>6
  <2> QED
    BY <1>2, <1>3, <1>4, <1>5, <2>1
<1>9. \A k \in 1 .. Len(b) : x[(Len(a) + 1) + k] = b[k]
  <2> TAKE k \in 1 .. Len(b)
  <2>1. /\ (Len(a) + 1) + k \in 1 .. Len(v) /\ (Len(a) + 1) + k \in 1 .. Len(w)
        /\ Len(u) + k = (Len(a) + 1) + k
    BY <1>6
  <2> QED
    BY <1>3, <1>4, <1>5, <2>1
<1>10. x[Len(a) + Len(b) + 2] = "\n"
  <2>1. Len(v) + 1 = Len(a) + Len(b) + 2 /\ Len(v) + 1 \in 1 .. Len(w)
    BY <1>6
  <2> QED
    BY <1>4, <1>5, <2>1
<1>11. \A k \in 1 .. Len(d) : x[(Len(a) + Len(b) + 2) + k] = d[k]
  BY <1>5, <1>6
<1>12. BeginsWith(x, "\n", a, b) /\ GoesOn(x, Len(a) + Len(b) + 2, d)
  BY <1>6, <1>7, <1>8, <1>9, <1>10, <1>11 DEF BeginsWith, GoesOn
<1>13. ASSUME NEW k \in 1 .. Len(x) PROVE x[k] # c
  <2>1. CASE k \in 1 .. Len(a)
    BY <1>7, <2>1 DEF Without
  <2>2. CASE k = Len(a) + 1
    BY <1>8, <2>2
  <2>3. CASE k - (Len(a) + 1) \in 1 .. Len(b)
    <3>1. (Len(a) + 1) + (k - (Len(a) + 1)) = k
      OBVIOUS
    <3> QED
      BY <1>9, <2>3, <3>1 DEF Without
  <2>4. CASE k = Len(a) + Len(b) + 2
    BY <1>10, <2>4
  <2>5. CASE k - (Len(a) + Len(b) + 2) \in 1 .. Len(d)
    <3>1. (Len(a) + Len(b) + 2) + (k - (Len(a) + Len(b) + 2)) = k
      OBVIOUS
    <3> QED
      BY <1>11, <2>5, <3>1 DEF Without
  <2>6. /\ Len(a) \in Nat /\ Len(b) \in Nat /\ Len(d) \in Nat
        /\ k \in 1 .. Len(a) + Len(b) + 2 + Len(d)
    BY <1>6
  <2>7. \/ k \in 1 .. Len(a) \/ k = Len(a) + 1 \/ k - (Len(a) + 1) \in 1 .. Len(b)
        \/ k = Len(a) + Len(b) + 2 \/ k - (Len(a) + Len(b) + 2) \in 1 .. Len(d)
    BY <2>6
  <2> QED
    BY <2>1, <2>2, <2>3, <2>4, <2>5, <2>7
<1>14. Without(x, c)
  BY <1>13 DEF Without
<1>15. Join(a, b, d) = x
  BY <1>n, <1>u, <1>v, <1>w, <1>x DEF Join
<1> QED
  BY <1>5, <1>6, <1>12, <1>14, <1>15

(* What is found in me.info, when it is read with g behind the buffer: the *)
(* first two lines as they were written, and when nothing is there the     *)
(* third one, too.                                                         *)
LEMMA InfoLines ==
    ASSUME NEW a \in Seq(Char), NEW b \in Seq(Char), NEW d \in Seq(Char),
           \A c \in {"\n", "nul"} : Without(a, c) /\ Without(b, c) /\ Without(d, c),
           d # <<>>, NEW g \in Seq(Char)
    PROVE  /\ Len(LinesRead(Join(a, b, d), g)) \in Nat
           /\ LinesRead(Join(a, b, d), g)[1] = a
           /\ LinesRead(Join(a, b, d), g)[2] = b
           /\ g = <<>> => /\ Len(LinesRead(Join(a, b, d), g)) = 3
                          /\ LinesRead(Join(a, b, d), g)[3] = d
<1>x. PICK x : x = Join(a, b, d)
  OBVIOUS
<1>1. /\ x \in Seq(Char) /\ Len(x) = Len(a) + Len(b) + 2 + Len(d)
      /\ BeginsWith(x, "\n", a, b) /\ GoesOn(x, Len(a) + Len(b) + 2, d)
      /\ Without(x, "nul")
  BY <1>x, JoinValues
<1>s. PICK s : s = x \o g
  OBVIOUS
<1>2. /\ s \in Seq(Char) /\ Len(s) = Len(x) + Len(g)
      /\ \A k \in 1 .. Len(x) : s[k] = x[k]
      /\ g = <<>> => s = x
  <2>1. /\ x \o g \in Seq(Char) /\ Len(x \o g) = Len(x) + Len(g)
        /\ \A k \in 1 .. Len(x) : (x \o g)[k] = x[k]
    BY <1>1, Beside
  <2>2. g = <<>> => x \o g = x
    BY <1>1
  <2> QED
    BY <1>s, <2>1, <2>2
<1>e. PICK e : e = End(s, "nul", 1)
  OBVIOUS
<1>3. e \in 0 .. Len(s) /\ (e = Len(s) \/ s[e + 1] = "nul")
  <2>1. 1 \in 1 .. Len(s) + 1 /\ 1 - 1 = 0
    BY <1>2
  <2> QED
    BY <1>e, <1>2, <2>1, EndValue
<1>4. Len(x) <= e
  <2> SUFFICES ASSUME e < Len(x) PROVE FALSE
    BY <1>1, <1>3
  <2>1. e + 1 \in 1 .. Len(x) /\ e # Len(s)
    BY <1>1, <1>2, <1>3
  <2> QED
    BY <1>1, <1>2, <1>3, <2>1 DEF Without
<1>t. PICK t : t = SubSeq(s, 1, e)
  OBVIOUS
<1>5. /\ t \in Seq(Char) /\ Len(t) = e /\ \A k \in 1 .. Len(x) : t[k] = x[k]
      /\ g = <<>> => Len(t) = Len(x)
  <2>1. t \in Seq(Char) /\ Len(t) = e /\ \A k \in 1 .. e : t[k] = s[k]
    BY <1>t, <1>2, <1>3
  <2>2. \A k \in 1 .. Len(x) : k \in 1 .. e
    BY <1>1, <1>3, <1>4
  <2>3. g = <<>> => Len(s) = Len(x)
    BY <1>2
  <2>4. Len(x) \in Nat /\ Len(s) \in Nat
    BY <1>1, <1>2
  <2>5. g = <<>> => e = Len(x)
    BY <1>3, <1>4, <2>3, <2>4
  <2> QED
    BY <1>2, <2>1, <2>2, <2>5
<1>6. t = CString(s)
  BY <1>2, <1>e, <1>t, FirstLine DEF CString, LineAt
<1>7. BeginsWith(t, "\n", a, b)
  <2>1. /\ Len(a) + Len(b) + 2 <= Len(x) /\ Len(x) <= Len(t)
        /\ Len(a) + 1 \in 1 .. Len(x) /\ Len(a) + Len(b) + 2 \in 1 .. Len(x)
        /\ \A k \in 1 .. Len(a) : k \in 1 .. Len(x)
        /\ \A k \in 1 .. Len(b) : (Len(a) + 1) + k \in 1 .. Len(x)
    BY <1>1, <1>4, <1>5
  <2>2. Len(a) + Len(b) + 2 <= Len(t)
    BY <1>1, <1>3, <1>5, <2>1
  <2> QED
    BY <1>1, <1>5, <2>1, <2>2 DEF BeginsWith
<1>8. g = <<>> => GoesOn(t, Len(a) + Len(b) + 2, d)
  <2>1. \A k \in 1 .. Len(d) : (Len(a) + Len(b) + 2) + k \in 1 .. Len(x)
    BY <1>1
  <2> QED
    BY <1>1, <1>5, <2>1 DEF GoesOn
<1>l. PICK l : l = Split(t, "\n")
  OBVIOUS
<1>9. /\ Len(l) \in Nat /\ Len(l) >= 3 /\ l[1] = a /\ l[2] = b
      /\ g = <<>> => Len(l) = 3 /\ l[3] = d
  BY <1>l, <1>5, <1>7, <1>8, ThreeLines
<1>10. l = [k \in 1 .. Len(l) |-> l[k]]
  <2>n. PICK n : n = Cardinality(Begins(t, "\n"))
    OBVIOUS
  <2>1. n \in Nat
    BY <2>n, <1>5, BelowFinite
  <2> QED
    BY <1>l, <2>n, <2>1 DEF Split
<1>11. LinesRead(x, g) = WithoutEmptyEnd(l)
  <2>1. x # <<>>
    BY <1>1
  <2> QED
    BY <1>s, <1>6, <1>l, <2>1 DEF LinesRead
<1>12. CASE l[Len(l)] = <<>>
  <2>1. WithoutEmptyEnd(l) = SubSeq(l, 1, Len(l) - 1)
    BY <1>12 DEF WithoutEmptyEnd, Last, Front
  <2>f. PICK f : f = SubSeq(l, 1, Len(l) - 1)
    OBVIOUS
  <2>2. Len(f) = Len(l) - 1 /\ f[1] = l[1] /\ f[2] = l[2]
    BY <2>f, <1>9, <1>10
  <2>3. g # <<>>
    BY <1>9, <1>12
  <2> QED
    BY <1>x, <1>9, <1>11, <2>1, <2>f, <2>2, <2>3
<1>13. CASE l[Len(l)] # <<>>
  BY <1>x, <1>9, <1>11, <1>13 DEF WithoutEmptyEnd, Last
<1> QED
  BY <1>12, <1>13

(* A text of lines l that is read as three lines has its second one from l.  *)
LEMMA SplitIsSeq ==
    ASSUME NEW s \in Seq(Char), NEW c
    PROVE  /\ Len(Split(s, c)) \in Nat
           /\ Split(s, c) = [k \in 1 .. Len(Split(s, c)) |-> Split(s, c)[k]]
<1>n. PICK n : n = Cardinality(Begins(s, c))
  OBVIOUS
<1>1. n \in Nat
  BY <1>n, BelowFinite
<1> QED
  BY <1>n, <1>1 DEF Split

Plainly(t) == t \in Seq(Char) /\ Without(t, "\n") /\ Without(t, "nul")

LEMMA NameRead ==
    ASSUME NEW f \in Seq(Char), NEW g \in Seq(Char), Len(LinesRead(f, g)) = 3
    PROVE  Plainly(LinesRead(f, g)[2])
<1>s. PICK s : s = f \o g
  OBVIOUS
<1>t. PICK t : t = CString(s)
  OBVIOUS
<1>1. s \in Seq(Char) /\ 1 \in 1 .. Len(s) + 1
  BY <1>s, Beside
<1>2. t \in Seq(Char) /\ Without(t, "nul")
  BY <1>t, <1>1, FirstLine, LineWithout DEF CString
<1>l. PICK l : l = Split(t, "\n")
  OBVIOUS
<1>3. Len(l) \in Nat /\ l = [k \in 1 .. Len(l) |-> l[k]]
  BY <1>l, <1>2, SplitIsSeq
<1>r. PICK r : r = LinesRead(f, g)
  OBVIOUS
<1>4. f # <<>> /\ Len(r) = 3
  BY <1>r DEF LinesRead
<1>5. r = IF l[Len(l)] = <<>> THEN SubSeq(l, 1, Len(l) - 1) ELSE l
  BY <1>r, <1>s, <1>t, <1>l, <1>4 DEF LinesRead, WithoutEmptyEnd, Last, Front
<1>6. 2 \in 1 .. Len(l) /\ r[2] = l[2]
  <2>1. CASE l[Len(l)] = <<>>
    <3>1. r = SubSeq(l, 1, Len(l) - 1)
      BY <1>5, <2>1
    <3>2. r = [k \in 1 .. Len(l) - 1 |-> l[k]]
      BY <1>3, <3>1
    <3>3. Len(l) = 0 => Len(r) = 0
      BY <3>2
    <3>4. Len(l) # 0 => Len(r) = Len(l) - 1
      BY <1>3, <3>2
    <3>5. Len(l) = 4
      BY <1>3, <1>4, <3>3, <3>4
    <3> QED
      BY <3>2, <3>5
  <2>2. CASE l[Len(l)] # <<>>
    <3>1. r = l
      BY <1>5, <2>2
    <3>2. Len(l) = 3
      BY <1>4, <3>1
    <3> QED
      BY <3>1, <3>2
  <2> QED
    BY <2>1, <2>2
<1>7. PICK i \in 1 .. Len(t) + 1 : l[2] = LineAt(t, "\n", i)
  BY <1>l, <1>2, <1>6, SecondLine
<1>8. Plainly(LineAt(t, "\n", i))
  BY <1>2, LineWithout DEF Plainly
<1> QED
  BY <1>r, <1>6, <1>7, <1>8

(* Base64Wrapper: what unhex makes of the digits of hex. *)
LEMMA HexReturns ==
    ASSUME NEW b \in Seq(0 .. 3)
    PROVE  Plainly(Hex(b)) /\ IsHex(Hex(b)) /\ Unhex(Hex(b)) = b
<1>n. PICK n \in Nat : n = Len(b)
  OBVIOUS
<1>1. b = [i \in 1 .. n |-> b[i]] /\ \A i \in 1 .. n : b[i] \in 0 .. 3
  BY <1>n
<1>h. PICK h : h = Hex(b)
  OBVIOUS
<1>2. h = [k \in 1 .. 2 * n |-> IF k % 2 = 1 THEN Digits[(b[(k + 1) \div 2] \div 2) + 1]
                                             ELSE Digits[(b[k \div 2] % 2) + 1]]
  BY <1>h, <1>n DEF Hex
<1>3. Digits[1] = "0" /\ Digits[2] = "1" /\ ToSet(Digits) = {"0", "1"}
  BY DEF Digits, ToSet
<1>4. ASSUME NEW k \in 1 .. 2 * n PROVE h[k] \in {"0", "1"}
  <2>1. CASE k % 2 = 1
    <3>1. (k + 1) \div 2 \in 1 .. n
      BY <2>1
    <3>2. (b[(k + 1) \div 2] \div 2) + 1 \in {1, 2}
      BY <1>1, <3>1
    <3> QED
      BY <1>2, <1>3, <2>1, <3>2
  <2>2. CASE k % 2 # 1
    <3>1. k \div 2 \in 1 .. n
      BY <2>2
    <3>2. (b[k \div 2] % 2) + 1 \in {1, 2}
      BY <1>1, <3>1
    <3> QED
      BY <1>2, <1>3, <2>2, <3>2
  <2> QED
    BY <2>1, <2>2
<1>5. h \in Seq(Char) /\ Len(h) = 2 * n
  <2>1. \A k \in 1 .. 2 * n : h[k] \in Char
    BY <1>4 DEF Char
  <2>2. h = [k \in 1 .. 2 * n |-> h[k]] /\ 2 * n \in Nat
    BY <1>2
  <2> QED
    BY <2>1, <2>2
<1>6. Plainly(h)
  BY <1>4, <1>5 DEF Plainly, Without
<1>7. IsHex(h)
  <2>1. (2 * n) % 2 = 0
    OBVIOUS
  <2>2. DOMAIN h = 1 .. 2 * n
    BY <1>2
  <2>3. ToSet(h) \subseteq ToSet(Digits)
    BY <1>3, <1>4, <2>2 DEF ToSet
  <2> QED
    BY <1>5, <2>1, <2>3 DEF IsHex
<1>8. Unhex(h) = b
  <2>1. (2 * n) \div 2 = n
    OBVIOUS
  <2>2. ASSUME NEW i \in 1 .. n
        PROVE  (2 * DigitOf(h[(2 * i) - 1])) + DigitOf(h[2 * i]) = b[i]
    <3>1. /\ (2 * i) - 1 \in 1 .. 2 * n /\ 2 * i \in 1 .. 2 * n
          /\ ((2 * i) - 1) % 2 = 1 /\ (2 * i) % 2 = 0
          /\ (((2 * i) - 1) + 1) \div 2 = i /\ (2 * i) \div 2 = i
      OBVIOUS
    <3>2. /\ h[(2 * i) - 1] = Digits[(b[i] \div 2) + 1]
          /\ h[2 * i] = Digits[(b[i] % 2) + 1]
      BY <1>2, <3>1
    <3>3. "0" # "1"
      OBVIOUS
    <3>4. b[i] \in {0, 1, 2, 3}
      BY <1>1
    <3>5. DigitOf("0") = 0 /\ DigitOf("1") = 1
      BY <1>3, <3>3 DEF DigitOf
    <3> QED
      BY <1>3, <3>2, <3>4, <3>5
  <2>3. Unhex(h) = [i \in 1 .. n |->
                      (2 * DigitOf(h[(2 * i) - 1])) + DigitOf(h[2 * i])]
    BY <1>5, <2>1 DEF Unhex
  <2>4. Unhex(h) = [i \in 1 .. n |-> b[i]]
    BY <2>2, <2>3
  <2> QED
    BY <1>1, <2>4
<1> QED
  BY <1>h, <1>6, <1>7, <1>8
-----------------------------------------------------------------------------
(* The two runs. *)

(* me.info is what the first run has written for its user, and every name  *)
(* that a run has found is one that a line of me.info can hold.            *)
Written == info = Join(owner, Hex(id), Key)

InfoInv ==
    /\ stage \in {"first", "connected", "saved", "second", "reconnected",
                  "refused", "accepted", "failed"}
    /\ transfer \in Texts
    /\ id \in Ids
    /\ stage = "connected" => Plainly(name)
    /\ stage \in {"saved", "second", "reconnected"} => Plainly(owner) /\ Written
    /\ NextRunAccepts

LEMMA TextTypes ==
    /\ Texts \subseteq Seq(Char) /\ Garbage \subseteq Seq(Char) /\ <<>> \in Seq(Char)
    /\ Key # <<>> /\ Plainly(Key)
<1>1. Key \in Seq(Char) /\ Key # <<>>
  BY KeyAssumption
<1>2. Without(Key, "\n") /\ Without(Key, "nul")
  BY <1>1, KeyAssumption DEF Without
<1>3. <<>> \in Seq(Char)
  OBVIOUS
<1> QED
  BY <1>1, <1>2, <1>3, TextAssumption DEF Plainly

LEMMA TransferFound ==
    ASSUME InfoInv, GetTransferInformation
    PROVE  InfoInv'
<1>1. PICK g \in Garbage : \/ /\ Len(LinesRead(transfer, g)) = 3
                              /\ name' = LinesRead(transfer, g)[2]
                              /\ stage' = IF stage = "first" THEN "connected"
                                                            ELSE "reconnected"
                           \/ stage' = "refused"
  BY DEF GetTransferInformation
<1>2. /\ stage \in {"first", "second"}
      /\ transfer' = transfer /\ info' = info /\ owner' = owner /\ id' = id
  BY DEF GetTransferInformation
<1>3. Written' <=> Written
  BY <1>2 DEF Written
<1>4. CASE stage' = "refused"
  BY <1>2, <1>4 DEF InfoInv, NextRunAccepts
<1>5. CASE /\ Len(LinesRead(transfer, g)) = 3
           /\ name' = LinesRead(transfer, g)[2]
           /\ stage' = IF stage = "first" THEN "connected" ELSE "reconnected"
  <2>1. transfer \in Seq(Char) /\ g \in Seq(Char)
    BY TextTypes DEF InfoInv
  <2>2. Plainly(name')
    BY <1>5, <2>1, NameRead
  <2> QED
    BY <1>2, <1>3, <1>5, <2>2 DEF InfoInv, NextRunAccepts
<1> QED
  BY <1>1, <1>4, <1>5

LEMMA InfoSaved ==
    ASSUME InfoInv, SaveInfo
    PROVE  InfoInv'
<1>1. /\ stage = "connected" /\ stage' = "saved"
      /\ transfer' = transfer /\ id' = id /\ owner' = name
  BY DEF SaveInfo
<1>2. Written'
  BY DEF SaveInfo, Written
<1>3. Plainly(owner')
  BY <1>1 DEF InfoInv
<1> QED
  BY <1>1, <1>2, <1>3 DEF InfoInv, NextRunAccepts

LEMMA TransferEdited ==
    ASSUME InfoInv, Edit
    PROVE  InfoInv'
<1>1. /\ stage = "saved" /\ stage' = "second" /\ transfer' \in Texts
      /\ info' = info /\ owner' = owner /\ id' = id
  BY DEF Edit
<1>2. Written' <=> Written
  BY <1>1 DEF Written
<1> QED
  BY <1>1, <1>2 DEF InfoInv, NextRunAccepts

(* What is read from me.info, whatever lies behind its buffer. *)
LEMMA InfoRead ==
    ASSUME InfoInv, stage = "reconnected", NEW g \in Seq(Char)
    PROVE  /\ LinesRead(info, g)[1] = owner
           /\ LinesRead(info, g)[2] = Hex(id)
           /\ g = <<>> => /\ Len(LinesRead(info, g)) = 3
                          /\ LinesRead(info, g)[3] = Key
<1>1. Plainly(owner) /\ info = Join(owner, Hex(id), Key)
  BY DEF InfoInv, Written
<1>2. Plainly(Hex(id))
  BY IdAssumption, HexReturns DEF InfoInv
<1>3. Key # <<>> /\ Plainly(Key)
  BY TextTypes
<1>h. PICK h : h = Hex(id)
  OBVIOUS
<1>4. /\ owner \in Seq(Char) /\ h \in Seq(Char) /\ Key \in Seq(Char)
      /\ \A c \in {"\n", "nul"} : Without(owner, c) /\ Without(h, c) /\ Without(Key, c)
  BY <1>1, <1>2, <1>3, <1>h DEF Plainly
<1>5. info = Join(owner, h, Key)
  BY <1>1, <1>h
<1>6. /\ LinesRead(Join(owner, h, Key), g)[1] = owner
      /\ LinesRead(Join(owner, h, Key), g)[2] = h
      /\ g = <<>> => /\ Len(LinesRead(Join(owner, h, Key), g)) = 3
                     /\ LinesRead(Join(owner, h, Key), g)[3] = Key
  BY <1>3, <1>4, InfoLines
<1> QED
  BY <1>5, <1>6, <1>h

LEMMA InfoChecked ==
    ASSUME InfoInv, GetClientConnectionInfo
    PROVE  InfoInv'
<1> DEFINE Usable(lines) == /\ Len(lines) = 3
                            /\ lines[1] = name
                            /\ IsHex(lines[2])
                            /\ Len(Unhex(lines[2])) <= Len(id)
<1>1. PICK g \in Garbage :
         /\ overread' = (overread \/ LinesRead(info, g) # LinesRead(info, <<>>))
         /\ idRead' = IF Usable(LinesRead(info, g)) THEN Unhex(LinesRead(info, g)[2])
                                                   ELSE idRead
         /\ \/ /\ Usable(LinesRead(info, g))
               /\ stage' = "accepted"
            \/ /\ ~(Usable(LinesRead(info, g)) /\ LinesRead(info, g)[3] = Key)
               /\ stage' = "failed"
  BY DEF GetClientConnectionInfo
<1>2. /\ stage = "reconnected" /\ transfer' = transfer /\ info' = info
      /\ name' = name /\ owner' = owner /\ id' = id
  BY DEF GetClientConnectionInfo
<1>l. PICK l : l = LinesRead(info, g)
  OBVIOUS
<1>3. l[1] = owner /\ l[2] = Hex(id)
  BY <1>l, <1>2, TextTypes, InfoRead
<1>4. IsHex(Hex(id)) /\ Unhex(Hex(id)) = id /\ Len(id) \in Nat
  BY IdAssumption, HexReturns DEF InfoInv
<1>5. CASE Usable(l) /\ stage' = "accepted"
  <2>1. stage' = "accepted" /\ idRead' = Unhex(l[2])
    BY <1>l, <1>1, <1>5
  <2>2. owner' = name' /\ idRead' = id'
    BY <1>2, <1>3, <1>4, <1>5, <2>1
  <2> QED
    BY <1>2, <2>1, <2>2 DEF InfoInv, NextRunAccepts
<1>6. CASE ~(Usable(l) /\ l[3] = Key) /\ stage' = "failed"
  <2>1. stage' = "failed"
    BY <1>6
  <2>2. ASSUME name = owner PROVE l # LinesRead(info, <<>>)
    <3>1. SUFFICES ASSUME l = LinesRead(info, <<>>) PROVE FALSE
      OBVIOUS
    <3>2. Len(l) = 3 /\ l[3] = Key
      BY <1>2, <3>1, TextTypes, InfoRead
    <3> QED
      BY <1>3, <1>4, <1>6, <2>2, <3>2
  <2>3. name' # owner' \/ overread'
    BY <1>l, <1>1, <1>2, <2>2
  <2> QED
    BY <1>2, <2>1, <2>3 DEF InfoInv, NextRunAccepts
<1> QED
  BY <1>l, <1>1, <1>5, <1>6

(* Every reachable state has a me.info that reads back: the inductive      *)
(* invariant of the two runs.                                              *)
THEOREM InfoInvariant == Spec => []InfoInv
<1>1. Init => InfoInv
  BY DEF Init, InfoInv, NextRunAccepts
<1>2. InfoInv /\ [Next]_vars => InfoInv'
  <2> SUFFICES ASSUME InfoInv, [Next]_vars PROVE InfoInv'
    OBVIOUS
  <2>1. CASE GetTransferInformation
    BY <2>1, TransferFound
  <2>2. CASE SaveInfo
    BY <2>2, InfoSaved
  <2>3. CASE Edit
    BY <2>3, TransferEdited
  <2>4. CASE GetClientConnectionInfo
    BY <2>4, InfoChecked
  <2>5. CASE UNCHANGED vars
    BY <2>5 DEF vars, InfoInv, NextRunAccepts, Written
  <2> QED
    BY <2>1, <2>2, <2>3, <2>4, <2>5 DEF Next
<1> QED
  BY <1>1, <1>2, PTL DEF Spec

(* getClientConnectionInfo lets a second run through only for the user     *)
(* that me.info was written for, with the id it was given, and refuses     *)
(* that user only when readInformationFile has read on behind a buffer:    *)
(* for every key, every id and every transfer.info.                        *)
THEOREM NextRunsAccept == Spec => []NextRunAccepts
<1>1. InfoInv => NextRunAccepts
  BY DEF InfoInv
<1> QED
  BY <1>1, InfoInvariant, PTL
=============================================================================
