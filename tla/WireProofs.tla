------------------------------ MODULE WireProofs ------------------------------
(***************************************************************************)
(* Proofs about Wire: for fields and numbers of every length, and for all  *)
(* names, keys and files, a payload that fits is taken apart by the server *)
(* as the client has put it together, and so is the CRC on its way back.   *)
(***************************************************************************)
EXTENDS Wire, SequenceTheorems, NumberLemmas, TLAPS

-----------------------------------------------------------------------------
(* Numbers in bytes. *)

LEMMA Lengths ==
    /\ Base \in Nat \ {0, 1}
    /\ SizeLength \in Nat \ {0} /\ IdLength \in Nat \ {0}
    /\ NameLength \in Nat \ {0} /\ KeyLength \in Nat \ {0}
    /\ HeaderSize \in Nat /\ RequestSize \in Nat /\ PacketSize \in Nat
    /\ HeaderSize + IdLength + 2 * SizeLength + NameLength <= PacketSize
    /\ RequestSize + NameLength + KeyLength <= PacketSize
    /\ 0 \in Byte /\ Byte \subseteq Nat
  BY LengthAssumption DEF Byte

LEMMA WeightValues ==
    /\ Weight \in [Nat -> Nat \ {0}]
    /\ Weight[0] = 1
    /\ \A i \in Nat : Weight[i + 1] = Base * Weight[i]
<1> DEFINE Pos == Nat \ {0}
<1>1. Base \in Pos
  BY Lengths
<1>2. PICK next \in [Pos -> Pos] : \A x \in Pos : next[x] = Base * x
  <2>1. [x \in Pos |-> Base * x] \in [Pos -> Pos]
    BY <1>1
  <2> QED
    BY <2>1
<1>3. PICK f \in [Nat -> Pos] : f[0] = 1 /\ \A i \in Nat : f[i + 1] = next[f[i]]
  <2>1. 1 \in Pos
    OBVIOUS
  <2> HIDE DEF Pos
  <2>2. \A first \in Pos :
          \E f \in [Nat -> Pos] : f[0] = first /\ \A i \in Nat : f[i + 1] = next[f[i]]
    BY Iterates
  <2> QED
    BY <2>1, <2>2
<1>4. f = [i \in Nat |-> IF i = 0 THEN 1 ELSE Base * f[i - 1]]
  <2>1. ASSUME NEW i \in Nat, i # 0 PROVE f[i] = Base * f[i - 1]
    <3>1. i - 1 \in Nat /\ (i - 1) + 1 = i
      BY <2>1
    <3>2. f[(i - 1) + 1] = next[f[i - 1]]
      BY <1>3, <3>1
    <3> QED
      BY <1>2, <1>3, <3>1, <3>2
  <2> QED
    BY <1>3, <2>1
<1>5. Weight = [i \in Nat |-> IF i = 0 THEN 1 ELSE Base * Weight[i - 1]]
  BY <1>4 DEF Weight
<1>6. Weight[0] = 1 /\ \A i \in Nat : Weight[i + 1] = Base * Weight[i]
  <2>1. \A i \in Nat : Weight[i] = IF i = 0 THEN 1 ELSE Base * Weight[i - 1]
    BY <1>5
  <2>2. ASSUME NEW i \in Nat PROVE Weight[i + 1] = Base * Weight[i]
    <3>1. i + 1 \in Nat /\ i + 1 # 0 /\ (i + 1) - 1 = i
      OBVIOUS
    <3> QED
      BY <2>1, <3>1
  <2> QED
    BY <2>1, <2>2
<1>7. \A i \in Nat : Weight[i] = f[i]
  <2> DEFINE T == {i \in Nat : Weight[i] = f[i]}
  <2>1. 0 \in T
    BY <1>3, <1>6
  <2>2. ASSUME NEW i \in T PROVE i + 1 \in T
    <3>1. f[i + 1] = Base * f[i]
      BY <1>2, <1>3
    <3> QED
      BY <1>6, <3>1
  <2> HIDE DEF T
  <2>3. T = Nat
    BY <2>1, <2>2, Induct DEF T
  <2> QED
    BY <2>3 DEF T
<1>8. Weight = f
  <2>1. ASSUME NEW i \in Nat
        PROVE  (IF i = 0 THEN 1 ELSE Base * Weight[i - 1])
                 = IF i = 0 THEN 1 ELSE Base * f[i - 1]
    BY <1>7
  <2> QED
    BY <1>4, <1>5, <2>1
<1> QED
  BY <1>3, <1>6, <1>8

LEMMA LimitValue == Limit \in Nat \ {0}
  BY WeightValues, Lengths DEF Limit

(* A number is written in so many bytes, *)
LEMMA LittleBytes ==
    ASSUME NEW n \in Nat
    PROVE  Little(n) \in [1 .. SizeLength -> Byte]
<1>1. n % Limit \in Nat
  BY LimitValue, DivMod
<1>2. ASSUME NEW i \in 1 .. SizeLength
      PROVE  ((n % Limit) \div Weight[i - 1]) % Base \in Byte
  <2>1. Weight[i - 1] \in Nat \ {0} /\ Base \in Nat \ {0}
    BY WeightValues, Lengths
  <2>2. (n % Limit) \div Weight[i - 1] \in Nat
    BY <1>1, <2>1, DivMod
  <2> HIDE DEF Byte
  <2> QED
    BY <2>1, <2>2, DivMod DEF Byte
<1> QED
  BY <1>2 DEF Little

(* which are those of what fits, *)
LEMMA LittleMod ==
    ASSUME NEW n \in Nat
    PROVE  Little(n % Limit) = Little(n) /\ n % Limit \in 0 .. Limit - 1
<1>1. n % Limit \in 0 .. Limit - 1
  BY LimitValue, DivMod
<1>2. (n % Limit) % Limit = n % Limit
  BY <1>1, LimitValue, ModSmall
<1> QED
  BY <1>1, <1>2 DEF Little

(* and tell what fits apart. *)
LEMMA LittleOnce ==
    ASSUME NEW a \in 0 .. Limit - 1, NEW b \in 0 .. Limit - 1, Little(a) = Little(b)
    PROVE  a = b
<1>1. a % Limit = a /\ b % Limit = b
  BY LimitValue, ModSmall
<1>2. \A i \in 1 .. SizeLength :
        (a \div Weight[i - 1]) % Base = (b \div Weight[i - 1]) % Base
  BY <1>1 DEF Little
<1> DEFINE T == {k \in Nat : k <= SizeLength => a % Weight[k] = b % Weight[k]}
<1>3. 0 \in T
  <2>1. a % 1 = 0 /\ b % 1 = 0
    BY LimitValue
  <2> QED
    BY <2>1, WeightValues
<1>4. ASSUME NEW k \in T PROVE k + 1 \in T
  <2> SUFFICES ASSUME k + 1 <= SizeLength
               PROVE  a % Weight[k + 1] = b % Weight[k + 1]
    OBVIOUS
  <2>1. a % Weight[k] = b % Weight[k]
    BY Lengths
  <2>2. (a \div Weight[k]) % Base = (b \div Weight[k]) % Base
    <3>1. k + 1 \in 1 .. SizeLength /\ (k + 1) - 1 = k
      BY Lengths
    <3> QED
      BY <1>2, <3>1
  <2>3. Weight[k] \in Nat \ {0} /\ Base \in Nat \ {0} /\ Weight[k + 1] = Base * Weight[k]
    BY WeightValues, Lengths
  <2>4. a \in Nat /\ b \in Nat
    BY LimitValue
  <2>5. ASSUME NEW n \in Nat
        PROVE  n % (Base * Weight[k])
                 = Weight[k] * ((n \div Weight[k]) % Base) + (n % Weight[k])
    BY <2>3, ModProduct
  <2> QED
    BY <2>1, <2>2, <2>3, <2>4, <2>5
<1> HIDE DEF T
<1>5. T = Nat
  BY <1>3, <1>4, Induct DEF T
<1>6. a % Weight[SizeLength] = b % Weight[SizeLength]
  BY <1>5, Lengths DEF T
<1> QED
  BY <1>1, <1>6 DEF Limit

(* So a number that is read is the one that was written, if it fits. *)
LEMMA UnpackedLittle ==
    ASSUME NEW n \in Nat
    PROVE  Unpacked(Little(n)) = n % Limit
<1>1. n % Limit \in 0 .. Limit - 1 /\ Little(n % Limit) = Little(n)
  BY LittleMod
<1>2. \A m \in 0 .. Limit - 1 : Little(m) = Little(n) => m = n % Limit
  BY <1>1, LittleOnce
<1> QED
  BY <1>1, <1>2 DEF Unpacked

-----------------------------------------------------------------------------
(* Parts of byte sequences. *)

(* Two sequences are equal when they agree at every place. *)
LEMMA SamePlaces ==
    ASSUME NEW s \in Seq(Byte), NEW t \in Seq(Byte), Len(s) = Len(t),
           \A i \in 1 .. Len(s) : s[i] = t[i]
    PROVE  s = t
  BY SeqEqual

(* What is put together has the parts one behind the other. *)
LEMMA TwoParts ==
    ASSUME NEW a \in Seq(Byte), NEW b \in Seq(Byte), NEW w, w = a \o b,
           NEW j, j = Len(a), NEW k, k = Len(b)
    PROVE  /\ w \in Seq(Byte) /\ Len(w) = j + k
           /\ \A i \in 1 .. j : w[i] = a[i]
           /\ \A i \in 1 .. k : w[j + i] = b[i]
  OBVIOUS

LEMMA Joined ==
    ASSUME NEW a \in Seq(Byte), NEW b \in Seq(Byte)
    PROVE  a \o b \in Seq(Byte) /\ Len(a \o b) = Len(a) + Len(b)
  OBVIOUS

(* s is found in w behind its first j bytes. *)
IsBehind(s, w, j) ==
    /\ j \in Nat /\ j + Len(s) <= Len(w)
    /\ \A i \in 1 .. Len(s) : w[j + i] = s[i]

LEMMA LastIsBehind ==
    ASSUME NEW a \in Seq(Byte), NEW b \in Seq(Byte)
    PROVE  IsBehind(b, a \o b, Len(a))
  BY DEF IsBehind

LEMMA StaysBehind ==
    ASSUME NEW s \in Seq(Byte), NEW u \in Seq(Byte), NEW b \in Seq(Byte), NEW j,
           IsBehind(s, u, j)
    PROVE  IsBehind(s, u \o b, j)
<1>w. PICK w : w = u \o b
  OBVIOUS
<1>1. Len(w) = Len(u) + Len(b) /\ \A i \in 1 .. Len(u) : w[i] = u[i]
  BY <1>w
<1>2. ASSUME NEW i \in 1 .. Len(s) PROVE w[j + i] = s[i]
  <2>1. j + i \in 1 .. Len(u) /\ u[j + i] = s[i]
    BY DEF IsBehind
  <2> QED
    BY <1>1, <2>1
<1>3. j \in Nat /\ j + Len(s) <= Len(w)
  BY <1>1 DEF IsBehind
<1>4. IsBehind(s, w, j)
  BY <1>2, <1>3 DEF IsBehind
<1> QED
  BY <1>w, <1>4

LEMMA FourParts ==
    ASSUME NEW a \in Seq(Byte), NEW b \in Seq(Byte),
           NEW c \in Seq(Byte), NEW d \in Seq(Byte)
    PROVE  /\ a \o b \o c \o d \in Seq(Byte)
           /\ Len(a \o b \o c \o d) = Len(a) + Len(b) + Len(c) + Len(d)
           /\ IsBehind(b, a \o b \o c \o d, Len(a))
           /\ IsBehind(c, a \o b \o c \o d, Len(a) + Len(b))
           /\ IsBehind(d, a \o b \o c \o d, Len(a) + Len(b) + Len(c))
<1>u. PICK u : u = a \o b
  OBVIOUS
<1>v. PICK v : v = u \o c
  OBVIOUS
<1>w. PICK w : w = v \o d
  OBVIOUS
<1>1. u \in Seq(Byte) /\ Len(u) = Len(a) + Len(b) /\ IsBehind(b, u, Len(a))
  BY <1>u, LastIsBehind
<1>2. /\ v \in Seq(Byte) /\ Len(v) = Len(u) + Len(c)
      /\ IsBehind(b, v, Len(a)) /\ IsBehind(c, v, Len(u))
  <2>1. u \o c \in Seq(Byte) /\ Len(u \o c) = Len(u) + Len(c)
    BY <1>1, Joined
  <2>2. IsBehind(b, u \o c, Len(a))
    BY <1>1, StaysBehind
  <2>3. IsBehind(c, u \o c, Len(u))
    BY <1>1, LastIsBehind
  <2> QED
    BY <1>v, <2>1, <2>2, <2>3
<1>3. /\ w \in Seq(Byte) /\ Len(w) = Len(v) + Len(d)
      /\ IsBehind(b, w, Len(a)) /\ IsBehind(c, w, Len(u)) /\ IsBehind(d, w, Len(v))
  <2>1. v \o d \in Seq(Byte) /\ Len(v \o d) = Len(v) + Len(d)
    BY <1>2, Joined
  <2>2. IsBehind(b, v \o d, Len(a)) /\ IsBehind(c, v \o d, Len(u))
    BY <1>2, StaysBehind
  <2>3. IsBehind(d, v \o d, Len(v))
    BY <1>2, LastIsBehind
  <2> QED
    BY <1>w, <2>1, <2>2, <2>3
<1>4. Len(w) = Len(a) + Len(b) + Len(c) + Len(d) /\ Len(v) = Len(a) + Len(b) + Len(c)
  BY <1>1, <1>2, <1>3
<1>5. w = a \o b \o c \o d
  BY <1>u, <1>v, <1>w
<1> QED
  BY <1>1, <1>3, <1>4, <1>5

(* A slice that ends within the sequence takes all that it is asked for, *)
LEMMA InnerSlice ==
    ASSUME NEW s \in Seq(Byte), NEW a \in Nat, NEW n \in Nat, a + n <= Len(s)
    PROVE  /\ Slice(s, a, a + n) \in Seq(Byte)
           /\ Len(Slice(s, a, a + n)) = n
           /\ \A i \in 1 .. n : Slice(s, a, a + n)[i] = s[a + i]
<1>1. Slice(s, a, a + n) = [i \in 1 .. n |-> s[a + i]]
  <2>1. (IF a + n < Len(s) THEN a + n ELSE IF a < Len(s) THEN Len(s) ELSE a) - a = n
    OBVIOUS
  <2> QED
    BY <2>1 DEF Slice
<1>2. \A i \in 1 .. n : s[a + i] \in Byte
  OBVIOUS
<1> QED
  BY <1>1, <1>2

LEMMA SliceBehind ==
    ASSUME NEW s \in Seq(Byte), NEW w \in Seq(Byte), NEW j, IsBehind(s, w, j)
    PROVE  Slice(w, j, j + Len(s)) = s
<1>n. PICK n : n = Len(s)
  OBVIOUS
<1>1. /\ j \in Nat /\ n \in Nat /\ j + n <= Len(w) /\ Len(s) = n
      /\ \A i \in 1 .. n : w[j + i] = s[i]
  BY <1>n DEF IsBehind
<1>u. PICK u : u = Slice(w, j, j + n)
  OBVIOUS
<1>2. u \in Seq(Byte) /\ Len(u) = n /\ \A i \in 1 .. n : u[i] = w[j + i]
  BY <1>u, <1>1, InnerSlice
<1>3. u = s
  BY <1>1, <1>2, SamePlaces
<1> QED
  BY <1>n, <1>u, <1>3

LEMMA SliceIsSubSeq ==
    ASSUME NEW w \in Seq(Byte), NEW a \in Nat, NEW n \in Nat, a + n <= Len(w)
    PROVE  Slice(w, a, a + n) = SubSeq(w, a + 1, a + n)
<1>u. PICK u : u = SubSeq(w, a + 1, a + n)
  OBVIOUS
<1>1. u \in Seq(Byte) /\ Len(u) = n /\ \A i \in 1 .. n : u[i] = w[a + i]
  BY <1>u
<1>2. IsBehind(u, w, a)
  BY <1>1 DEF IsBehind
<1> QED
  BY <1>u, <1>1, <1>2, SliceBehind

(* and no slice takes more than there is. *)
LEMMA AnySlice ==
    ASSUME NEW s \in Seq(Byte), NEW a \in Nat, NEW n \in Nat
    PROVE  /\ Slice(s, a, a + n) \in Seq(Byte)
           /\ Len(Slice(s, a, a + n)) <= n
           /\ Slice(s, a, a + n) = <<>> \/ Len(Slice(s, a, a + n)) + a <= Len(s)
<1> PICK m : m = (IF a + n < Len(s) THEN a + n ELSE IF a < Len(s) THEN Len(s) ELSE a) - a
  OBVIOUS
<1>1. m \in Nat /\ m <= n /\ (m = 0 \/ m + a <= Len(s))
  OBVIOUS
<1>2. Slice(s, a, a + n) = [i \in 1 .. m |-> s[a + i]]
  BY DEF Slice
<1>3. \A i \in 1 .. m : s[a + i] \in Byte
  BY <1>1
<1>4. Slice(s, a, a + n) \in Seq(Byte) /\ Len(Slice(s, a, a + n)) = m
  <2> PICK u : u = [i \in 1 .. m |-> s[a + i]]
    OBVIOUS
  <2>1. u \in [1 .. m -> Byte]
    BY <1>3
  <2>2. u \in Seq(Byte) /\ Len(u) = m
    BY <1>1, <2>1
  <2> QED
    BY <1>2, <2>2
<1>5. m = 0 => Slice(s, a, a + n) = <<>>
  BY <1>4
<1> QED
  BY <1>1, <1>4, <1>5

(* The beginning of a sequence. *)
LEMMA Beginning ==
    ASSUME NEW s \in Seq(Byte), NEW n \in 0 .. Len(s)
    PROVE  /\ SubSeq(s, 1, n) \in Seq(Byte)
           /\ Len(SubSeq(s, 1, n)) = n
           /\ \A i \in 1 .. n : SubSeq(s, 1, n)[i] = s[i]
           /\ n = Len(s) => SubSeq(s, 1, n) = s
<1>1. SubSeq(s, 1, n) = [i \in 1 .. n |-> s[i]]
  OBVIOUS
<1>2. /\ SubSeq(s, 1, n) \in Seq(Byte) /\ Len(SubSeq(s, 1, n)) = n
      /\ \A i \in 1 .. n : SubSeq(s, 1, n)[i] = s[i]
  BY <1>1
<1> QED
  BY <1>2, SamePlaces

-----------------------------------------------------------------------------
(* Fields. *)

LEMMA Contents ==
    /\ Id \in Seq(Byte) /\ Len(Id) = IdLength
    /\ Key \in Seq(Byte) /\ Len(Key) = KeyLength
    /\ UserNames \subseteq Seq(Byte \ {0}) /\ FileNames \subseteq Seq(Byte \ {0})
    /\ Data \subseteq Seq(Byte)
  BY ContentAssumption, Lengths

LEMMA NamesAreBytes ==
    ASSUME NEW s \in Seq(Byte \ {0})
    PROVE  s \in Seq(Byte) /\ \A i \in 1 .. Len(s) : s[i] # 0
<1>1. /\ Len(s) \in Nat /\ s \in [1 .. Len(s) -> Byte \ {0}]
  OBVIOUS
<1>2. s \in [1 .. Len(s) -> Byte]
  BY <1>1
<1> QED
  BY <1>1, <1>2

LEMMA LittleSeq ==
    ASSUME NEW n \in Nat
    PROVE  Little(n) \in Seq(Byte) /\ Len(Little(n)) = SizeLength
<1> PICK u : u = Little(n)
  OBVIOUS
<1>1. u \in [1 .. SizeLength -> Byte] /\ SizeLength \in Nat
  BY LittleBytes, Lengths
<1>2. u \in Seq(Byte) /\ Len(u) = SizeLength
  BY <1>1
<1> QED
  BY <1>2

LEMMA BytesAreSeq ==
    ASSUME NEW n \in Nat, NEW s \in [1 .. n -> Byte]
    PROVE  s \in Seq(Byte) /\ Len(s) = n
  OBVIOUS

(* A string that is padded begins with the string, and zeros follow; *)
LEMMA PadValues ==
    ASSUME NEW s \in Seq(Byte), NEW n \in Nat
    PROVE  /\ Pad(s, n) \in Seq(Byte)
           /\ Len(Pad(s, n)) = IF Len(s) < n THEN n ELSE Len(s)
           /\ \A i \in 1 .. Len(s) : Pad(s, n)[i] = s[i]
           /\ \A i \in Len(s) + 1 .. n : Pad(s, n)[i] = 0
<1>1. CASE Len(s) < n
  <2> PICK z : z = Zeroes(n - Len(s))
    OBVIOUS
  <2> PICK k \in Nat : k = n - Len(s)
    BY <1>1
  <2>1. z \in [1 .. k -> Byte] /\ \A i \in 1 .. k : z[i] = 0
    BY Lengths DEF Zeroes
  <2>2. z \in Seq(Byte) /\ Len(z) = k
    BY <2>1, BytesAreSeq
  <2> PICK p : p = s \o z
    OBVIOUS
  <2>3. /\ p \in Seq(Byte) /\ Len(p) = Len(s) + k
        /\ \A i \in 1 .. Len(s) : p[i] = s[i]
        /\ \A i \in 1 .. k : p[Len(s) + i] = z[i]
    BY <2>2, TwoParts
  <2>4. ASSUME NEW i \in Len(s) + 1 .. n PROVE p[i] = 0
    <3>1. i - Len(s) \in 1 .. k /\ Len(s) + (i - Len(s)) = i
      OBVIOUS
    <3> QED
      BY <2>1, <2>3, <3>1
  <2>5. Pad(s, n) = p
    BY <1>1 DEF Pad
  <2> QED
    BY <1>1, <2>3, <2>4, <2>5
<1>2. CASE ~(Len(s) < n)
  BY <1>2 DEF Pad
<1> QED
  BY <1>1, <1>2

(* and what is cut to a length has it. *)
LEMMA CutValues ==
    ASSUME NEW s \in Seq(Byte), NEW n \in Nat
    PROVE  /\ Cut(s, n) \in Seq(Byte) /\ Len(Cut(s, n)) = n
           /\ \A i \in 1 .. n : Cut(s, n)[i] = IF i <= Len(s) THEN s[i] ELSE 0
<1> PICK p : p = Pad(s, n)
  OBVIOUS
<1>1. /\ p \in Seq(Byte) /\ Len(p) = IF Len(s) < n THEN n ELSE Len(s)
      /\ \A i \in 1 .. Len(s) : p[i] = s[i]
      /\ \A i \in Len(s) + 1 .. n : p[i] = 0
  BY PadValues
<1> PICK u : u = SubSeq(p, 1, n)
  OBVIOUS
<1>2. n \in 0 .. Len(p)
  BY <1>1
<1>3. u \in Seq(Byte) /\ Len(u) = n /\ \A i \in 1 .. n : u[i] = p[i]
  BY <1>1, <1>2, Beginning
<1>4. ASSUME NEW i \in 1 .. n PROVE u[i] = IF i <= Len(s) THEN s[i] ELSE 0
  BY <1>1, <1>3
<1>5. Cut(s, n) = u
  BY DEF Cut
<1> QED
  BY <1>3, <1>4, <1>5

(* What has no zero loses none to strip, only those that are behind it. *)
LEMMA StripsZeros ==
    ASSUME NEW s \in Seq(Byte), NEW k \in 0 .. Len(s),
           \A i \in 1 .. k : s[i] # 0, \A i \in k + 1 .. Len(s) : s[i] = 0
    PROVE  Strip(s) = SubSeq(s, 1, k)
<1> DEFINE Ends(n) == (n > 0 => s[n] # 0) /\ \A i \in n + 1 .. Len(s) : s[i] = 0
<1>1. Ends(k)
  OBVIOUS
<1>2. ASSUME NEW n \in 0 .. Len(s), Ends(n) PROVE n = k
  <2>1. CASE n < k
    <3>1. k \in n + 1 .. Len(s) /\ k \in 1 .. k
      BY <2>1
    <3> QED
      BY <1>2, <3>1
  <2>2. CASE n > k
    <3>1. n \in k + 1 .. Len(s) /\ n > 0
      BY <2>2
    <3> QED
      BY <1>2, <3>1
  <2> QED
    BY <2>1, <2>2
<1>3. (CHOOSE n \in 0 .. Len(s) : Ends(n)) = k
  <2> HIDE DEF Ends
  <2> QED
    BY <1>1, <1>2
<1> QED
  BY <1>3 DEF Strip

LEMMA StripAny ==
    ASSUME NEW s \in Seq(Byte)
    PROVE  Strip(s) \in Seq(Byte)
<1> DEFINE Ends(n) == (n > 0 => s[n] # 0) /\ \A i \in n + 1 .. Len(s) : s[i] = 0
<1>1. \E n \in 0 .. Len(s) : Ends(n)
  <2> DEFINE T == {m \in Nat : \E n \in 0 .. Len(s) :
                                  n + m = Len(s) /\ \A i \in n + 1 .. Len(s) : s[i] = 0}
  <2>1. T \subseteq Nat /\ Len(s) \in Nat
    OBVIOUS
  <2>2. 0 \in T
    OBVIOUS
  <2>3. CASE \E m \in T : m < Len(s) /\ m + 1 \notin T
    <3> PICK m \in T : m < Len(s) /\ m + 1 \notin T
      BY <2>3
    <3> PICK n \in 0 .. Len(s) : n + m = Len(s) /\ \A i \in n + 1 .. Len(s) : s[i] = 0
      OBVIOUS
    <3>1. s[n] # 0
      <4> SUFFICES ASSUME s[n] = 0 PROVE FALSE
        OBVIOUS
      <4>1. n - 1 \in 0 .. Len(s) /\ (n - 1) + (m + 1) = Len(s)
        OBVIOUS
      <4>2. \A i \in (n - 1) + 1 .. Len(s) : s[i] = 0
        OBVIOUS
      <4> QED
        BY <4>1, <4>2
    <3> QED
      BY <3>1
  <2>4. CASE \A m \in T : m < Len(s) => m + 1 \in T
    <3>1. 0 .. Len(s) \subseteq T
      <4> HIDE DEF T
      <4> QED
        BY <2>1, <2>2, <2>4, InductTo
    <3>2. Len(s) \in T
      BY <3>1, <2>1
    <3>3. \A i \in 1 .. Len(s) : s[i] = 0
      BY <3>2
    <3>4. Ends(0)
      BY <3>3
    <3> QED
      BY <3>4, <2>1
  <2> QED
    BY <2>3, <2>4
<1> PICK k \in 0 .. Len(s) : k = CHOOSE n \in 0 .. Len(s) : Ends(n)
  <2> HIDE DEF Ends
  <2> QED
    BY <1>1
<1>2. Strip(s) = SubSeq(s, 1, k)
  BY DEF Strip
<1> QED
  BY <1>2, Beginning

(* A name comes out of its field as it was put in, without what did not    *)
(* fit.                                                                    *)
LEMMA NameReturns ==
    ASSUME NEW s \in Seq(Byte \ {0})
    PROVE  Strip(Cut(s, NameLength))
             = IF Len(s) <= NameLength THEN s ELSE SubSeq(s, 1, NameLength)
<1> PICK c : c = Cut(s, NameLength)
  OBVIOUS
<1>1. s \in Seq(Byte) /\ \A i \in 1 .. Len(s) : s[i] # 0
  BY NamesAreBytes
<1>2. NameLength \in Nat
  BY Lengths
<1>3. /\ c \in Seq(Byte) /\ Len(c) = NameLength
      /\ \A i \in 1 .. NameLength : c[i] = IF i <= Len(s) THEN s[i] ELSE 0
  BY <1>1, <1>2, CutValues
<1> PICK k \in Nat : k = IF Len(s) <= NameLength THEN Len(s) ELSE NameLength
  BY <1>1, <1>2
<1>4. k \in 0 .. Len(c) /\ k \in 0 .. Len(s)
  BY <1>1, <1>2, <1>3
<1>5. (\A i \in 1 .. k : c[i] # 0 /\ c[i] = s[i]) /\ \A i \in k + 1 .. Len(c) : c[i] = 0
  BY <1>1, <1>2, <1>3, <1>4
<1>6. Strip(c) = SubSeq(c, 1, k)
  BY <1>3, <1>4, <1>5, StripsZeros
<1>7. SubSeq(c, 1, k) = SubSeq(s, 1, k)
  <2> PICK a : a = SubSeq(c, 1, k)
    OBVIOUS
  <2> PICK b : b = SubSeq(s, 1, k)
    OBVIOUS
  <2>1. a \in Seq(Byte) /\ Len(a) = k /\ \A i \in 1 .. k : a[i] = c[i]
    BY <1>3, <1>4, Beginning
  <2>2. b \in Seq(Byte) /\ Len(b) = k /\ \A i \in 1 .. k : b[i] = s[i]
    BY <1>1, <1>4, Beginning
  <2> QED
    BY <1>5, <2>1, <2>2, SamePlaces
<1>8. Len(s) <= NameLength => SubSeq(s, 1, k) = s
  BY <1>1, <1>4, Beginning
<1> QED
  BY <1>6, <1>7, <1>8

LEMMA BeginningBehind ==
    ASSUME NEW s \in Seq(Byte), NEW w \in Seq(Byte), NEW n \in 0 .. Len(w), NEW j,
           IsBehind(s, w, j), j + Len(s) <= n
    PROVE  IsBehind(s, SubSeq(w, 1, n), j)
<1>p. PICK p : p = SubSeq(w, 1, n)
  OBVIOUS
<1>1. p \in Seq(Byte) /\ Len(p) = n /\ \A i \in 1 .. n : p[i] = w[i]
  BY <1>p, Beginning
<1>2. j \in Nat
  BY DEF IsBehind
<1>3. ASSUME NEW i \in 1 .. Len(s) PROVE p[j + i] = s[i]
  <2>1. w[j + i] = s[i] /\ j + i \in 1 .. n
    BY <1>2 DEF IsBehind
  <2> QED
    BY <1>1, <2>1
<1>4. IsBehind(s, p, j)
  BY <1>1, <1>2, <1>3 DEF IsBehind
<1> QED
  BY <1>p, <1>4

Found(p, a, b, c, d) ==
    /\ Len(a) + Len(b) <= Len(p) => Slice(p, Len(a), Len(a) + Len(b)) = b
    /\ Len(p) = Len(a) + Len(b) + Len(c) + Len(d) =>
          /\ Slice(p, Len(a) + Len(b), Len(a) + Len(b) + Len(c)) = c
          /\ Slice(p, Len(a) + Len(b) + Len(c),
                      Len(a) + Len(b) + Len(c) + Len(d)) = d

LEMMA PartsBegun ==
    ASSUME NEW a \in Seq(Byte), NEW b \in Seq(Byte),
           NEW c \in Seq(Byte), NEW d \in Seq(Byte),
           NEW n \in 0 .. Len(a \o b \o c \o d)
    PROVE  /\ SubSeq(a \o b \o c \o d, 1, n) \in Seq(Byte)
           /\ Len(SubSeq(a \o b \o c \o d, 1, n)) = n
           /\ Found(SubSeq(a \o b \o c \o d, 1, n), a, b, c, d)
<1>w. PICK w : w = a \o b \o c \o d
  OBVIOUS
<1>p. PICK p : p = SubSeq(w, 1, n)
  OBVIOUS
<1>1. /\ w \in Seq(Byte) /\ Len(w) = Len(a) + Len(b) + Len(c) + Len(d)
      /\ IsBehind(b, w, Len(a)) /\ IsBehind(c, w, Len(a) + Len(b))
      /\ IsBehind(d, w, Len(a) + Len(b) + Len(c))
  BY <1>w, FourParts
<1>0. n \in 0 .. Len(w)
  BY <1>w
<1>2. p \in Seq(Byte) /\ Len(p) = n /\ (n = Len(w) => p = w)
  BY <1>p, <1>0, <1>1, Beginning
<1>3. ASSUME Len(a) + Len(b) <= n PROVE Slice(p, Len(a), Len(a) + Len(b)) = b
  <2>1. IsBehind(b, p, Len(a))
    BY <1>p, <1>0, <1>1, <1>3, BeginningBehind
  <2> QED
    BY <1>2, <2>1, SliceBehind
<1>4. ASSUME n = Len(w)
      PROVE  /\ Slice(p, Len(a) + Len(b), Len(a) + Len(b) + Len(c)) = c
             /\ Slice(p, Len(a) + Len(b) + Len(c),
                         Len(a) + Len(b) + Len(c) + Len(d)) = d
  <2>1. IsBehind(c, p, Len(a) + Len(b)) /\ IsBehind(d, p, Len(a) + Len(b) + Len(c))
    BY <1>1, <1>2, <1>4
  <2> QED
    BY <1>2, <2>1, SliceBehind
<1>5. Found(p, a, b, c, d)
  BY <1>1, <1>2, <1>3, <1>4 DEF Found
<1> QED
  BY <1>w, <1>p, <1>2, <1>5

-----------------------------------------------------------------------------
(* Payloads, as they are put together and taken apart. *)

LEMMA MessageKinds ==
    ASSUME NEW m \in Messages
    PROVE  \/ /\ m.code = "CLIENT_REGISTRATION" /\ m.name \in Seq(Byte \ {0})
              /\ Payload(m) = m.name
           \/ /\ m.code = "CLIENT_PUBLIC_KEY" /\ m.name \in Seq(Byte \ {0})
              /\ Payload(m) = PublicKey(m.name)
           \/ /\ m.code = "CLIENT_ENCRYPTED_FILE" /\ m.name \in Seq(Byte \ {0})
              /\ m.data \in Seq(Byte)
              /\ Payload(m) = EncryptedFile(m.name, m.data)
<1> USE Contents
<1>1. CASE m.code = "CLIENT_REGISTRATION"
  BY <1>1 DEF Messages, Payload, Registration
<1>2. CASE m.code = "CLIENT_PUBLIC_KEY"
  BY <1>2 DEF Messages, Payload
<1>3. CASE m.code = "CLIENT_ENCRYPTED_FILE"
  BY <1>3 DEF Messages, Payload
<1> QED
  BY <1>1, <1>2, <1>3 DEF Messages

LEMMA KeyPayload ==
    ASSUME NEW name \in Seq(Byte)
    PROVE  /\ PublicKey(name) \in Seq(Byte)
           /\ Len(PublicKey(name)) >= NameLength + KeyLength
           /\ ParsedKey(PublicKey(name)).key
                = IF Len(name) <= NameLength
                    THEN Key
                    ELSE SubSeq(name \o Key, NameLength + 1, NameLength + KeyLength)
<1>p. PICK p : p = Pad(name, NameLength)
  OBVIOUS
<1>w. PICK w : w = PublicKey(name)
  OBVIOUS
<1>1. /\ NameLength \in Nat /\ KeyLength \in Nat /\ Key \in Seq(Byte)
      /\ KeyLength = Len(Key)
  BY Lengths, Contents
<1>2. p \in Seq(Byte) /\ Len(p) = IF Len(name) < NameLength THEN NameLength ELSE Len(name)
  BY <1>p, <1>1, PadValues
<1>3. w = p \o Key
  BY <1>p, <1>w DEF PublicKey
<1>4. /\ w \in Seq(Byte) /\ Len(w) = Len(p) + KeyLength
      /\ IsBehind(Key, w, Len(p))
  <2>1. p \o Key \in Seq(Byte) /\ Len(p \o Key) = Len(p) + Len(Key)
    BY <1>1, <1>2
  <2>2. IsBehind(Key, p \o Key, Len(p))
    BY <1>1, <1>2, LastIsBehind
  <2> QED
    BY <1>1, <1>3, <2>1, <2>2
<1>5. ParsedKey(w).key = Slice(w, NameLength, NameLength + KeyLength)
  BY DEF ParsedKey
<1>6. NameLength + KeyLength <= Len(w)
  BY <1>1, <1>2, <1>4
<1>7. CASE Len(name) <= NameLength
  <2>1. Len(p) = NameLength
    BY <1>1, <1>2, <1>7
  <2>2. Slice(w, Len(p), Len(p) + KeyLength) = Key
    BY <1>1, <1>4, SliceBehind
  <2> QED
    BY <1>w, <1>4, <1>5, <1>6, <1>7, <2>1, <2>2
<1>8. CASE ~(Len(name) <= NameLength)
  <2>1. p = name
    <3>1. ~(Len(name) < NameLength)
      BY <1>1, <1>8
    <3> QED
      BY <1>p, <3>1 DEF Pad
  <2>2. Slice(w, NameLength, NameLength + KeyLength)
          = SubSeq(w, NameLength + 1, NameLength + KeyLength)
    BY <1>1, <1>4, <1>6, SliceIsSubSeq
  <2> QED
    BY <1>w, <1>3, <1>4, <1>5, <1>6, <1>8, <2>1, <2>2
<1> QED
  BY <1>7, <1>8

(* A file of which n bytes have come. *)
LEMMA FilePayload ==
    ASSUME NEW name \in Seq(Byte \ {0}), NEW data \in Seq(Byte)
    PROVE  /\ EncryptedFile(name, data) \in Seq(Byte)
           /\ Len(EncryptedFile(name, data)) = Plain + Len(data)
<1>b. PICK b : b = Little(Len(data))
  OBVIOUS
<1>c. PICK c : c = Cut(name, NameLength)
  OBVIOUS
<1>1. Id \in Seq(Byte) /\ IdLength = Len(Id)
  BY Contents
<1>2. b \in Seq(Byte) /\ SizeLength = Len(b)
  BY <1>b, LittleSeq
<1>3. c \in Seq(Byte) /\ NameLength = Len(c)
  BY <1>c, NamesAreBytes, CutValues, Lengths
<1>w. PICK w : w = Id \o b \o c \o data
  OBVIOUS
<1>4. /\ w \in Seq(Byte)
      /\ Len(w) = IdLength + SizeLength + NameLength + Len(data)
  BY <1>1, <1>2, <1>3, <1>w, FourParts
<1>5. EncryptedFile(name, data) = w
  BY <1>b, <1>c, <1>w DEF EncryptedFile
<1> QED
  BY <1>4, <1>5 DEF Plain

LEMMA FileParts ==
    ASSUME NEW name \in Seq(Byte \ {0}), NEW data \in Seq(Byte),
           NEW n \in 0 .. Plain + Len(data), n >= IdLength + SizeLength
    PROVE  \E file \in {ParsedFile(SubSeq(EncryptedFile(name, data), 1, n))} :
           /\ file.name \in Seq(Byte)
           /\ file.size = Len(data) % Limit
           /\ n = Plain + Len(data) =>
                file.name = IF Len(name) <= NameLength
                              THEN name ELSE SubSeq(name, 1, NameLength)
           /\ n = Plain + Len(data) /\ Len(data) < Limit => file.data = data
           /\ n < Plain + Len(data) /\ Len(data) > 0 => file.data # data
<1>b. PICK b : b = Little(Len(data))
  OBVIOUS
<1>c. PICK c : c = Cut(name, NameLength)
  OBVIOUS
<1>w. PICK w : w = Id \o b \o c \o data
  OBVIOUS
<1>p. PICK p : p = SubSeq(w, 1, n)
  OBVIOUS
<1>s. PICK size : size = Len(data) % Limit
  OBVIOUS
<1>1. Id \in Seq(Byte) /\ IdLength = Len(Id)
  BY Contents
<1>2. b \in Seq(Byte) /\ SizeLength = Len(b) /\ Unpacked(b) = size
  BY <1>b, <1>s, LittleSeq, UnpackedLittle
<1>3. name \in Seq(Byte) /\ NameLength \in Nat
  BY NamesAreBytes, Lengths
<1>4. c \in Seq(Byte) /\ NameLength = Len(c)
  BY <1>c, <1>3, CutValues
<1>5. Strip(c) = IF Len(name) <= NameLength THEN name ELSE SubSeq(name, 1, NameLength)
  BY <1>c, NameReturns
<1>6. /\ IdLength \in Nat /\ SizeLength \in Nat
      /\ Plain = IdLength + SizeLength + NameLength /\ Plain \in Nat
  BY Lengths DEF Plain
<1>7. size \in Nat /\ (Len(data) < Limit => size = Len(data))
  <2>1. Limit \in Nat \ {0} /\ Len(data) \in Nat
    BY LimitValue
  <2>2. Len(data) < Limit => Len(data) \in 0 .. Limit - 1
    BY <2>1
  <2> QED
    BY <1>s, <2>1, <2>2, DivMod, ModSmall
<1>8. Len(w) = Plain + Len(data)
  BY <1>1, <1>2, <1>4, <1>6, <1>w, FourParts
<1>9. /\ p \in Seq(Byte) /\ Len(p) = n
      /\ Slice(p, IdLength, IdLength + SizeLength) = b
      /\ n = Len(w) =>
           /\ Slice(p, IdLength + SizeLength, Plain) = c
           /\ Slice(p, Plain, Plain + Len(data)) = data
  <2>1. n \in 0 .. Len(w) /\ IdLength + SizeLength <= n
    BY <1>6, <1>8
  <2>2. n \in 0 .. Len(Id \o b \o c \o data)
    BY <1>w, <2>1
  <2>3. /\ SubSeq(Id \o b \o c \o data, 1, n) \in Seq(Byte)
        /\ Len(SubSeq(Id \o b \o c \o data, 1, n)) = n
        /\ Found(SubSeq(Id \o b \o c \o data, 1, n), Id, b, c, data)
    BY <1>1, <1>2, <1>4, <2>2, PartsBegun
  <2>4. p \in Seq(Byte) /\ Len(p) = n /\ Found(p, Id, b, c, data)
    BY <1>p, <1>w, <2>3
  <2> QED
    BY <1>1, <1>2, <1>4, <1>6, <1>8, <2>1, <2>4 DEF Found
<1>10. EncryptedFile(name, data) = w
  BY <1>b, <1>c, <1>w DEF EncryptedFile
<1>f. PICK file : file = ParsedFile(p)
  OBVIOUS
<1>11. /\ file.name = Strip(Slice(p, IdLength + SizeLength, Plain))
       /\ file.size = size
       /\ file.data = Slice(p, Plain, Plain + size)
  BY <1>f, <1>2, <1>9 DEF ParsedFile, Plain
<1>12. file.name \in Seq(Byte)
  <2>1. IdLength + SizeLength \in Nat /\ Plain = (IdLength + SizeLength) + NameLength
    BY <1>6
  <2>2. Slice(p, IdLength + SizeLength, Plain) \in Seq(Byte)
    BY <1>3, <1>9, <2>1, AnySlice
  <2> QED
    BY <1>11, <2>2, StripAny
<1>13. ASSUME n < Plain + Len(data), Len(data) > 0 PROVE file.data # data
  <2>d. PICK d : d = Slice(p, Plain, Plain + size)
    OBVIOUS
  <2>1. d \in Seq(Byte) /\ (d = <<>> \/ Len(d) + Plain <= Len(p))
    BY <1>6, <1>7, <1>9, <2>d, AnySlice
  <2>2. d # data
    BY <1>6, <1>9, <1>13, <2>1
  <2> QED
    BY <1>11, <2>d, <2>2
<1>14. /\ file.name \in Seq(Byte)
       /\ file.size = Len(data) % Limit
       /\ n = Plain + Len(data) =>
            file.name = IF Len(name) <= NameLength
                          THEN name ELSE SubSeq(name, 1, NameLength)
       /\ n = Plain + Len(data) /\ Len(data) < Limit => file.data = data
       /\ n < Plain + Len(data) /\ Len(data) > 0 => file.data # data
  BY <1>s, <1>5, <1>7, <1>8, <1>9, <1>11, <1>12, <1>13
<1>15. file = ParsedFile(SubSeq(EncryptedFile(name, data), 1, n))
  BY <1>f, <1>p, <1>10
<1> QED
  BY <1>14, <1>15

(* The CRC is read where it has been packed. *)
LEMMA CrcReturns ==
    ASSUME NEW size \in Nat, NEW name \in Seq(Byte), NEW crc \in 0 .. Limit - 1
    PROVE  \E r \in Seq(Byte) :
           /\ r = Packed(CrcPayload(size, name, crc))
           /\ Unpacked(SubSeq(Slice(r, SizeLength, Len(r)),
                              CrcOffset + 1, CrcOffset + SizeLength)) = crc
<1>1. /\ IdLength \in Nat /\ SizeLength \in Nat /\ NameLength \in Nat
      /\ HeaderSize \in Nat /\ PacketSize \in Nat
      /\ HeaderSize + IdLength + 2 * SizeLength + NameLength <= PacketSize
      /\ CrcOffset = IdLength + SizeLength + NameLength
  BY Lengths DEF CrcOffset
<1>a. PICK a : a = Little(size)
  OBVIOUS
<1>b. PICK b : b = Cut(name, NameLength)
  OBVIOUS
<1>c. PICK c : c = Little(crc)
  OBVIOUS
<1>w. PICK w : w = CrcPayload(size, name, crc)
  OBVIOUS
<1>2. a \in Seq(Byte) /\ SizeLength = Len(a) /\ Id \in Seq(Byte) /\ IdLength = Len(Id)
  BY <1>a, LittleSeq, Contents
<1>3. b \in Seq(Byte) /\ NameLength = Len(b)
  BY <1>b, <1>1, CutValues
<1>4. c \in Seq(Byte) /\ SizeLength = Len(c) /\ Unpacked(c) = crc
  <2>1. crc \in Nat /\ crc % Limit = crc
    BY LimitValue, ModSmall
  <2> QED
    BY <1>c, <2>1, LittleSeq, UnpackedLittle
<1>5. w = Id \o a \o b \o c
  BY <1>a, <1>b, <1>c, <1>w DEF CrcPayload
<1>6. /\ w \in Seq(Byte) /\ Len(w) = CrcOffset + SizeLength
      /\ IsBehind(c, w, CrcOffset)
  <2>1. /\ w \in Seq(Byte)
        /\ Len(w) = IdLength + SizeLength + NameLength + SizeLength
        /\ IsBehind(c, w, IdLength + SizeLength + NameLength)
    <3>1. /\ Id \o a \o b \o c \in Seq(Byte)
          /\ Len(Id \o a \o b \o c) = Len(Id) + Len(a) + Len(b) + Len(c)
          /\ IsBehind(c, Id \o a \o b \o c, Len(Id) + Len(a) + Len(b))
      <4>1. /\ Id \in Seq(Byte) /\ a \in Seq(Byte) /\ b \in Seq(Byte)
            /\ c \in Seq(Byte)
        BY <1>2, <1>3, <1>4
      <4> QED
        BY <4>1, FourParts
    <3> QED
      BY <1>2, <1>3, <1>4, <1>5, <3>1
  <2> QED
    BY <1>1, <2>1
<1>l. PICK l : l = Little(Len(w))
  OBVIOUS
<1>7. l \in Seq(Byte) /\ SizeLength = Len(l)
  BY <1>l, <1>6, LittleSeq
<1>r. PICK r : r = l \o w
  OBVIOUS
<1>8. r = Packed(CrcPayload(size, name, crc))
  <2>k. PICK k : k = IF Len(w) < PacketSize - HeaderSize
                       THEN Len(w) ELSE PacketSize - HeaderSize
    OBVIOUS
  <2>1. k = Len(w)
    BY <1>1, <1>6, <2>k
  <2>2. SubSeq(w, 1, Len(w)) = w
    BY <1>6, Beginning
  <2>3. Packed(w) = l \o SubSeq(w, 1, k)
    BY <1>l, <2>k DEF Packed
  <2> QED
    BY <1>w, <1>r, <2>1, <2>2, <2>3
<1>9. /\ r \in Seq(Byte) /\ Len(r) = SizeLength + Len(w)
      /\ Slice(r, SizeLength, SizeLength + Len(w)) = w
  <2>1. r \in Seq(Byte) /\ Len(r) = SizeLength + Len(w) /\ IsBehind(w, r, SizeLength)
    <3>1. l \o w \in Seq(Byte) /\ Len(l \o w) = Len(l) + Len(w)
      BY <1>6, <1>7
    <3>2. IsBehind(w, l \o w, Len(l))
      BY <1>6, <1>7, LastIsBehind
    <3> QED
      BY <1>7, <1>r, <3>1, <3>2
  <2> QED
    BY <1>6, <2>1, SliceBehind
<1>10. SubSeq(w, CrcOffset + 1, CrcOffset + SizeLength) = c
  <2>1. CrcOffset \in Nat /\ CrcOffset + SizeLength <= Len(w)
    BY <1>1, <1>6
  <2>2. Slice(w, CrcOffset, CrcOffset + SizeLength) = c
    BY <1>4, <1>6, SliceBehind
  <2>3. Slice(w, CrcOffset, CrcOffset + SizeLength)
          = SubSeq(w, CrcOffset + 1, CrcOffset + SizeLength)
    BY <1>1, <1>6, <2>1, SliceIsSubSeq
  <2> QED
    BY <2>2, <2>3
<1> QED
  BY <1>4, <1>8, <1>9, <1>10

-----------------------------------------------------------------------------
(* The steps of a message. *)

(* What is sent is the beginning of the payload, and all of it if it fits; *)
(* a file that has been parsed has a name that a CRC can be sent for, and  *)
(* what is answered is the packet of such a CRC.                           *)
Sent ==
    stage = "sent" =>
        /\ stream.size = Len(Payload(message)) % Limit
        /\ stream.bytes = SubSeq(Payload(message), 1, stream.size)
        /\ stream.size + RequestSize < Limit

FileParsed ==
    Parsed /\ message.code = "CLIENT_ENCRYPTED_FILE" =>
        got.name \in Seq(Byte) /\ got.size \in Nat

Answered ==
    stage = "answered" =>
        \E size \in Nat, name \in Seq(Byte) :
           answer.bytes = Packed(CrcPayload(size, name, answer.crc))

WireInv == TypeOK /\ Sent /\ FileParsed /\ Answered /\ FittingArrive /\ CrcArrives

LEMMA PayloadBytes ==
    ASSUME NEW m \in Messages
    PROVE  /\ Payload(m) \in Seq(Byte)
           /\ Len(Payload(m)) % Limit \in 0 .. Limit - 1
           /\ Len(Payload(m)) % Limit <= Len(Payload(m))
           /\ Len(Payload(m)) < Limit => Len(Payload(m)) % Limit = Len(Payload(m))
<1>1. Payload(m) \in Seq(Byte)
  <2>1. CASE m.name \in Seq(Byte \ {0}) /\ Payload(m) = m.name
    BY <2>1, NamesAreBytes
  <2>2. CASE m.name \in Seq(Byte \ {0}) /\ Payload(m) = PublicKey(m.name)
    BY <2>2, NamesAreBytes, KeyPayload
  <2>3. CASE /\ m.name \in Seq(Byte \ {0}) /\ m.data \in Seq(Byte)
             /\ Payload(m) = EncryptedFile(m.name, m.data)
    BY <2>3, FilePayload
  <2> QED
    BY <2>1, <2>2, <2>3, MessageKinds
<1>n. PICK n \in Nat : n = Len(Payload(m))
  BY <1>1
<1>2. n % Limit \in 0 .. Limit - 1 /\ n % Limit <= n
  BY LimitValue
<1>3. n < Limit => n % Limit = n
  BY LimitValue
<1> QED
  BY <1>n, <1>1, <1>2, <1>3

LEMMA WireInit == Init => WireInv
<1> SUFFICES ASSUME Init PROVE WireInv
  OBVIOUS
<1>1. 0 \in 0 .. Limit - 1
  BY LimitValue
<1>2. TypeOK
  BY <1>1 DEF Init, TypeOK
<1> QED
  BY <1>2 DEF Init, WireInv, Sent, FileParsed, Answered, FittingArrive, CrcArrives, Parsed

LEMMA WireStutters ==
    ASSUME WireInv, UNCHANGED vars
    PROVE  WireInv'
  BY DEF vars, WireInv, TypeOK, Sent, FileParsed, Answered, FittingArrive, CrcArrives,
         Parsed, Fits, HasRoom, OnStack, RegistrationArrives, KeyArrives, FileArrives

(* A user name that fits its field fits the buffer on the stack, with the  *)
(* key behind it.                                                          *)
LEMMA NamesHaveRoom ==
    ASSUME message \in Messages, OnStack(message), Len(message.name) <= NameLength
    PROVE  Fits
<1>1. /\ RequestSize \in Nat /\ NameLength \in Nat /\ KeyLength \in Nat
      /\ PacketSize \in Nat /\ RequestSize + NameLength + KeyLength <= PacketSize
      /\ Len(Key) = KeyLength /\ Key \in Seq(Byte)
  BY Lengths, Contents
<1>2. message.name \in Seq(Byte)
  BY MessageKinds, NamesAreBytes
<1>3. CASE Payload(message) = message.name
  BY <1>1, <1>2, <1>3 DEF Fits, HasRoom
<1>4. CASE Payload(message) = PublicKey(message.name)
  <2>p. PICK p : p = Pad(message.name, NameLength)
    OBVIOUS
  <2>1. p \in Seq(Byte) /\ Len(p) = NameLength
    BY <1>1, <1>2, <2>p, PadValues
  <2>2. Len(p \o Key) = NameLength + KeyLength
    BY <1>1, <2>1
  <2>3. Payload(message) = p \o Key
    BY <1>4, <2>p DEF PublicKey
  <2> QED
    BY <1>1, <2>2, <2>3 DEF Fits, HasRoom
<1> QED
  BY <1>3, <1>4, MessageKinds DEF OnStack

(* A payload that does not fit is cut where the size field has its end, or *)
(* is not sent.                                                            *)
LEMMA SerializeKeeps ==
    ASSUME WireInv, Serialize
    PROVE  WireInv'
<1>m. PICK w : w = Payload(message)
  OBVIOUS
<1>n. PICK size : size = Len(w) % Limit
  OBVIOUS
<1>1. /\ w \in Seq(Byte) /\ size \in 0 .. Limit - 1 /\ size <= Len(w)
      /\ Len(w) < Limit => size = Len(w)
  <2>1. message \in Messages
    BY DEF WireInv, TypeOK
  <2> QED
    BY <1>m, <1>n, <2>1, PayloadBytes
<1>2. /\ stage = "asked" /\ message' = message /\ got' = got /\ answer' = answer
      /\ stage' \in {"sent", "failed"}
  BY DEF Serialize
<1>5. HasRoom(message, size) => size + RequestSize < Limit
  BY <1>1, Lengths, LimitValue, FieldAssumption DEF HasRoom
<1>3. CASE /\ HasRoom(message, size) \/ size + RequestSize < Limit
           /\ stream' = [size |-> size, bytes |-> SubSeq(w, 1, size)]
           /\ stage' = "sent"
  <2>1. size \in 0 .. Len(w)
    BY <1>1
  <2>2. SubSeq(w, 1, size) \in Seq(Byte) /\ Len(SubSeq(w, 1, size)) = size
    BY <1>1, <2>1, Beginning
  <2>3. TypeOK'
    BY <1>1, <1>2, <1>3, <2>2 DEF WireInv, TypeOK
  <2>4. Sent'
    BY <1>m, <1>n, <1>2, <1>3, <1>5 DEF Sent
  <2> QED
    BY <1>2, <1>3, <2>3, <2>4 DEF WireInv, FileParsed, Answered, FittingArrive,
                                  CrcArrives, Parsed
<1>4. CASE ~HasRoom(message, size) /\ stage' = "failed" /\ UNCHANGED stream
  <2>1. TypeOK'
    BY <1>2, <1>4 DEF WireInv, TypeOK
  <2>2. ~Fits'
    <3>1. ~Fits
      BY <1>m, <1>1, <1>4, Lengths, LimitValue DEF Fits, HasRoom
    <3> QED
      BY <1>2, <3>1 DEF Fits
  <2>3. OnStack(message') => Len(message'.name) > NameLength
    <3>1. message \in Messages
      BY DEF WireInv, TypeOK
    <3>2. message.name \in Seq(Byte) /\ NameLength \in Nat
      BY <3>1, MessageKinds, NamesAreBytes, Lengths
    <3>3. ~Fits
      BY <1>2, <2>2 DEF Fits
    <3>4. OnStack(message) => ~(Len(message.name) <= NameLength)
      BY <3>1, <3>3, NamesHaveRoom
    <3> QED
      BY <1>2, <3>2, <3>4
  <2> QED
    BY <1>4, <2>1, <2>2, <2>3 DEF WireInv, Sent, FileParsed, Answered, FittingArrive,
                                  CrcArrives, Parsed
<1> QED
  BY <1>m, <1>n, <1>3, <1>4 DEF Serialize

(* What the handler is given: the payload, or the beginning of one that    *)
(* does not fit.                                                           *)
LEMMA PayloadGiven ==
    ASSUME WireInv, stage = "sent"
    PROVE  /\ message \in Messages /\ stream.size \in Nat
           /\ SubSeq(stream.bytes, 1, stream.size)
                = SubSeq(Payload(message), 1, stream.size)
           /\ stream.size \in 0 .. Len(Payload(message))
           /\ Fits => stream.size = Len(Payload(message))
           /\ message.code = "CLIENT_ENCRYPTED_FILE" /\ ~Fits =>
                /\ stream.size < Len(Payload(message))
                /\ Limit <= Len(Payload(message))
<1>m. PICK w : w = Payload(message)
  OBVIOUS
<1>n. PICK size : size = stream.size
  OBVIOUS
<1>1. /\ message \in Messages
      /\ stream.size = Len(stream.bytes) /\ stream.bytes \in Seq(Byte)
  BY DEF WireInv, TypeOK
<1>2. /\ w \in Seq(Byte) /\ Len(w) % Limit \in 0 .. Limit - 1 /\ Len(w) % Limit <= Len(w)
      /\ Len(w) < Limit => Len(w) % Limit = Len(w)
  BY <1>m, <1>1, PayloadBytes
<1>3. size = Len(w) % Limit /\ size + RequestSize < Limit
  BY <1>m, <1>n DEF WireInv, Sent
<1>4. stream.bytes = SubSeq(w, 1, size)
  BY <1>m, <1>n DEF WireInv, Sent
<1>5. SubSeq(stream.bytes, 1, stream.size) = stream.bytes
  BY <1>1, Beginning
<1>6. size \in 0 .. Len(w) /\ size \in Nat
  BY <1>2, <1>3, LimitValue
<1>8. /\ RequestSize \in Nat /\ Len(w) \in Nat /\ Limit \in Nat /\ PacketSize \in Nat
      /\ PacketSize < Limit
  BY <1>2, Lengths, LimitValue, FieldAssumption
<1>7. /\ Fits => Len(w) + RequestSize < Limit
      /\ message.code = "CLIENT_ENCRYPTED_FILE" /\ ~Fits => ~(Len(w) + RequestSize < Limit)
  BY <1>m, <1>8 DEF Fits, HasRoom, OnStack
<1>9. /\ Fits => size = Len(w)
      /\ message.code = "CLIENT_ENCRYPTED_FILE" /\ ~Fits => size < Len(w) /\ Limit <= Len(w)
  BY <1>2, <1>3, <1>6, <1>7, <1>8
<1> QED
  BY <1>m, <1>n, <1>1, <1>4, <1>5, <1>6, <1>9

LEMMA ParseKeeps ==
    ASSUME WireInv, Parse
    PROVE  WireInv'
<1>w. PICK w : w = Payload(message)
  OBVIOUS
<1>n. PICK n : n = stream.size
  OBVIOUS
<1>p. PICK p : p = SubSeq(w, 1, n)
  OBVIOUS
<1>1. stage = "sent" /\ message' = message /\ stream' = stream /\ answer' = answer
  BY DEF Parse
<1>2. /\ message \in Messages /\ p = SubSeq(stream.bytes, 1, stream.size)
      /\ n \in 0 .. Len(w) /\ (Fits => n = Len(w))
  BY <1>w, <1>n, <1>p, <1>1, PayloadGiven
<1>3. stage' \in {"parsed", "failed"}
  BY DEF Parse
<1>4. TypeOK' /\ Sent' /\ Answered' /\ CrcArrives'
  BY <1>1, <1>3 DEF WireInv, TypeOK, Sent, Answered, CrcArrives
<1>5. (Fits' <=> Fits) /\ message.code = message'.code
  BY <1>1 DEF Fits
<1>r. RegistrationArrives' <=> (got'.name = message.name <=> Len(message.name) <= NameLength)
  BY <1>1 DEF RegistrationArrives
<1>6. CASE message.code = "CLIENT_REGISTRATION"
  <2>1. /\ message.name \in Seq(Byte) /\ w = message.name
    BY <1>w, <1>2, <1>6, MessageKinds, NamesAreBytes
  <2>2. got' = ParsedRegistration(p) /\ stage' = "parsed"
    BY <1>2, <1>6 DEF Parse
  <2>3. got'.name = Slice(p, 0, 0 + NameLength)
    BY <2>2, Lengths DEF ParsedRegistration
  <2>4. /\ p \in Seq(Byte) /\ Len(p) = n /\ (n = Len(w) => p = w)
    BY <1>p, <1>2, <2>1, Beginning
  <2>5. /\ got'.name \in Seq(Byte) /\ Len(got'.name) <= NameLength
        /\ got'.name = <<>> \/ Len(got'.name) <= n
    <3>1. 0 \in Nat /\ NameLength \in Nat
      BY Lengths
    <3>2. /\ Slice(p, 0, 0 + NameLength) \in Seq(Byte)
          /\ Len(Slice(p, 0, 0 + NameLength)) <= NameLength
          /\ \/ Slice(p, 0, 0 + NameLength) = <<>>
             \/ Len(Slice(p, 0, 0 + NameLength)) + 0 <= Len(p)
      BY <2>4, <3>1, AnySlice
    <3> QED
      BY <2>3, <2>4, <3>2
  <2>6. ASSUME Len(w) <= NameLength PROVE got'.name = w
    <3>0. Fits
      BY <1>2, <1>6, <2>1, <2>6, NamesHaveRoom DEF OnStack
    <3>1. n = Len(w) /\ p = w
      BY <1>2, <2>4, <3>0
    <3>2. Slice(w, 0, 0 + NameLength) = Slice(w, 0, 0 + Len(w))
      BY <2>1, <2>6, Lengths DEF Slice
    <3>3. IsBehind(w, w, 0)
      BY <2>1 DEF IsBehind
    <3>4. Slice(w, 0, 0 + Len(w)) = w
      BY <2>1, <3>3, SliceBehind
    <3> QED
      BY <2>3, <3>1, <3>2, <3>4
  <2>8. Len(w) \in Nat /\ NameLength \in Nat
    BY <2>1, Lengths
  <2>7. ASSUME Len(w) > NameLength PROVE got'.name # w
    BY <2>1, <2>5, <2>7, <2>8
  <2>9. got'.name = w <=> Len(w) <= NameLength
    BY <2>6, <2>7, <2>8
  <2>10. RegistrationArrives'
    BY <1>r, <2>1, <2>9
  <2>11. FittingArrive' /\ FileParsed'
    BY <1>5, <1>6, <2>2, <2>10 DEF FittingArrive, FileParsed
  <2> QED
    BY <1>4, <2>11 DEF WireInv
<1>7. CASE message.code = "CLIENT_PUBLIC_KEY"
  <2>1. message.name \in Seq(Byte) /\ w = PublicKey(message.name)
    BY <1>w, <1>2, <1>7, MessageKinds, NamesAreBytes
  <2>2. got' = ParsedKey(p) /\ stage' = "parsed"
    BY <1>2, <1>7 DEF Parse
  <2>3. w \in Seq(Byte)
    BY <2>1, KeyPayload
  <2>4. Fits => p = w
    BY <1>p, <1>2, <2>3, Beginning
  <2>5. Fits => got'.key = IF Len(message.name) <= NameLength
                             THEN Key
                             ELSE SubSeq(message.name \o Key, NameLength + 1,
                                                              NameLength + KeyLength)
    BY <2>1, <2>2, <2>4, KeyPayload
  <2>6. KeyArrives'
    BY <1>1, <1>5, <2>5 DEF KeyArrives
  <2>7. FittingArrive' /\ FileParsed'
    BY <1>5, <1>7, <2>2, <2>6 DEF FittingArrive, FileParsed
  <2> QED
    BY <1>4, <2>7 DEF WireInv
<1>8. CASE message.code = "CLIENT_ENCRYPTED_FILE"
  <2>1. /\ message.name \in Seq(Byte \ {0}) /\ message.data \in Seq(Byte)
        /\ w = EncryptedFile(message.name, message.data)
    BY <1>w, <1>2, <1>8, MessageKinds
  <2>2. w \in Seq(Byte) /\ Len(w) = Plain + Len(message.data)
    BY <2>1, FilePayload
  <2>3. /\ IdLength \in Nat /\ SizeLength \in Nat /\ NameLength \in Nat /\ Limit \in Nat
        /\ Plain = IdLength + SizeLength + NameLength /\ RequestSize \in Nat
        /\ Plain + RequestSize < Limit
    BY Lengths, LimitValue, FieldAssumption DEF Plain
  <2>4. p \in Seq(Byte) /\ Len(p) = n
    BY <1>p, <1>2, <2>2, Beginning
  <2>k. PICK k \in Nat : k = Len(message.data)
    BY <2>1
  <2>l. Len(w) = Plain + k /\ n \in 0 .. Plain + k
    BY <1>2, <2>2, <2>k
  <2>f. /\ Fits <=> n = Plain + k
        /\ ~Fits => Limit <= Plain + k
        /\ Fits => Plain + k + RequestSize < Limit
    <3>1. /\ Fits => n = Len(w)
          /\ ~Fits => n < Len(w) /\ Limit <= Len(w)
      BY <1>w, <1>n, <1>1, <1>8, PayloadGiven
    <3>2. Fits => Len(w) + RequestSize < Limit
      BY <1>w, <1>8 DEF Fits, HasRoom, OnStack
    <3> QED
      BY <2>3, <2>l, <3>1, <3>2
  <2>5. CASE n < IdLength + SizeLength
    <3>1. stage' = "failed"
      BY <1>2, <1>8, <2>4, <2>5, <2>3 DEF Parse
    <3>2. ~Fits'
      <4>1. n < Plain
        BY <1>2, <2>2, <2>3, <2>5
      <4>2. Plain \in Nat /\ n \in Nat
        BY <1>2, <2>3, <2>4
      <4>3. n # Plain + k
        BY <4>1, <4>2
      <4> QED
        BY <1>5, <2>f, <4>3
    <3>3. ~OnStack(message')
      BY <1>5, <1>8 DEF OnStack
    <3> QED
      BY <1>4, <3>1, <3>2, <3>3 DEF WireInv, FittingArrive, FileParsed, Parsed
  <2>6. CASE n >= IdLength + SizeLength
    <3>1. got' = ParsedFile(p) /\ stage' = "parsed"
      BY <1>2, <1>8, <2>3, <2>4, <2>6 DEF Parse
    <3>2. /\ got'.name \in Seq(Byte)
          /\ got'.size = k % Limit
          /\ n = Plain + k =>
               got'.name = IF Len(message.name) <= NameLength
                             THEN message.name ELSE SubSeq(message.name, 1, NameLength)
          /\ n = Plain + k /\ k < Limit => got'.data = message.data
          /\ n < Plain + k /\ k > 0 => got'.data # message.data
      <4>1. PICK d \in Seq(Byte) : d = message.data
        BY <2>1
      <4>2. PICK name \in Seq(Byte \ {0}) : name = message.name
        BY <2>1
      <4>3. n \in 0 .. Plain + Len(d) /\ n >= IdLength + SizeLength
        BY <2>k, <2>l, <2>6, <4>1
      <4>4. got' = ParsedFile(SubSeq(EncryptedFile(name, d), 1, n))
        BY <1>p, <2>1, <3>1, <4>1, <4>2
      <4>5. \E file \in {ParsedFile(SubSeq(EncryptedFile(name, d), 1, n))} :
               /\ file.name \in Seq(Byte)
               /\ file.size = Len(d) % Limit
               /\ n = Plain + Len(d) =>
                    file.name = IF Len(name) <= NameLength
                                  THEN name ELSE SubSeq(name, 1, NameLength)
               /\ n = Plain + Len(d) /\ Len(d) < Limit => file.data = d
               /\ n < Plain + Len(d) /\ Len(d) > 0 => file.data # d
        BY <4>3, FileParts
      <4>6. PICK file : file = got'
        OBVIOUS
      <4>7. /\ file.name \in Seq(Byte)
            /\ file.size = Len(d) % Limit
            /\ n = Plain + Len(d) =>
                 file.name = IF Len(name) <= NameLength
                               THEN name ELSE SubSeq(name, 1, NameLength)
            /\ n = Plain + Len(d) /\ Len(d) < Limit => file.data = d
            /\ n < Plain + Len(d) /\ Len(d) > 0 => file.data # d
        BY <4>4, <4>5, <4>6
      <4> QED
        BY <2>k, <4>1, <4>2, <4>6, <4>7
    <3>3. got'.size \in Nat
      <4>1. Limit \in Nat \ {0}
        BY LimitValue
      <4>2. k % Limit \in Nat
        BY <4>1, DivMod
      <4> QED
        BY <3>2, <4>2
    <3>4. Fits => n = Plain + k /\ k < Limit
      BY <2>3, <2>f
    <3>5. ~Fits => n < Plain + k /\ k > 0
      BY <2>3, <2>f, <2>l
    <3>6. FileArrives'
      BY <1>1, <1>5, <3>2, <3>4, <3>5 DEF FileArrives
    <3> QED
      BY <1>4, <1>5, <1>8, <3>1, <3>2, <3>3, <3>6 DEF WireInv, FittingArrive, FileParsed
  <2> QED
    BY <1>2, <2>3, <2>5, <2>6
<1> QED
  BY <1>2, <1>6, <1>7, <1>8, MessageKinds

LEMMA AnswerKeeps ==
    ASSUME WireInv, AnswerCrc
    PROVE  WireInv'
<1>1. /\ stage = "parsed" /\ stage' = "answered"
      /\ message.code = "CLIENT_ENCRYPTED_FILE"
      /\ message' = message /\ stream' = stream /\ got' = got
  BY DEF AnswerCrc
<1>2. got.size \in Nat /\ got.name \in Seq(Byte)
  BY <1>1 DEF WireInv, FileParsed, Parsed
<1>r. PICK crc \in 0 .. Limit - 1 :
        answer' = [answer EXCEPT !.crc = crc,
                                 !.bytes = Packed(CrcPayload(got.size, got.name, crc))]
  BY DEF AnswerCrc
<1>3. Packed(CrcPayload(got.size, got.name, crc)) \in Seq(Byte)
  BY <1>r, <1>2, CrcReturns
<1>4. /\ answer' \in [crc : 0 .. Limit - 1, bytes : Seq(Byte), read : 0 .. Limit - 1]
      /\ answer'.crc = crc
      /\ answer'.bytes = Packed(CrcPayload(got.size, got.name, crc))
  BY <1>r, <1>3 DEF WireInv, TypeOK
<1>5. TypeOK'
  BY <1>1, <1>4 DEF WireInv, TypeOK
<1>6. Answered'
  BY <1>2, <1>4 DEF Answered
<1>7. FittingArrive' /\ FileParsed'
  BY <1>1 DEF WireInv, FittingArrive, FileParsed, Parsed, Fits, HasRoom, OnStack,
              RegistrationArrives, KeyArrives, FileArrives
<1> QED
  BY <1>1, <1>5, <1>6, <1>7 DEF WireInv, Sent, CrcArrives

LEMMA ReadKeeps ==
    ASSUME WireInv, ReadCrc
    PROVE  WireInv'
<1>1. /\ stage = "answered" /\ stage' = "read"
      /\ message' = message /\ stream' = stream /\ got' = got
      /\ answer' = [answer EXCEPT !.read =
                      Unpacked(SubSeq(Slice(answer.bytes, SizeLength, Len(answer.bytes)),
                                      CrcOffset + 1, CrcOffset + SizeLength))]
  BY DEF ReadCrc
<1>2. answer \in [crc : 0 .. Limit - 1, bytes : Seq(Byte), read : 0 .. Limit - 1]
  BY DEF WireInv, TypeOK
<1>3. Unpacked(SubSeq(Slice(answer.bytes, SizeLength, Len(answer.bytes)),
                      CrcOffset + 1, CrcOffset + SizeLength)) = answer.crc
  <2>1. PICK size \in Nat, name \in Seq(Byte) :
          answer.bytes = Packed(CrcPayload(size, name, answer.crc))
    BY <1>1 DEF WireInv, Answered
  <2>2. answer.crc \in 0 .. Limit - 1
    BY <1>2
  <2> QED
    BY <2>1, <2>2, CrcReturns
<1>4. answer' = [answer EXCEPT !.read = answer.crc]
  BY <1>1, <1>3
<1>5. /\ answer' \in [crc : 0 .. Limit - 1, bytes : Seq(Byte), read : 0 .. Limit - 1]
      /\ answer'.read = answer'.crc
  BY <1>2, <1>4
<1>6. TypeOK'
  BY <1>1, <1>5 DEF WireInv, TypeOK
<1>7. FittingArrive' /\ FileParsed'
  BY <1>1 DEF WireInv, FittingArrive, FileParsed, Parsed, Fits, HasRoom, OnStack,
              RegistrationArrives, KeyArrives, FileArrives
<1> QED
  BY <1>1, <1>5, <1>6, <1>7 DEF WireInv, Sent, Answered, CrcArrives

LEMMA WireInvariant == Spec => []WireInv
<1>1. WireInv /\ [Next]_vars => WireInv'
  BY WireStutters, SerializeKeeps, ParseKeeps, AnswerKeeps, ReadKeeps DEF Next
<1> QED
  BY <1>1, WireInit, PTL DEF Spec

(* ClientRequest, receive_payload: whatever the names and the files, what  *)
(* the handler is given is as many bytes as the size in the header says.   *)
THEOREM WireTypes == Spec => []TypeOK
  BY WireInvariant, PTL DEF WireInv

(* Serialize and the parse methods, for every name, key and file and       *)
(* fields of every length: a payload that its buffer has room for, the one *)
(* of PACKET_SIZE or the one of sizeWithPayload, is taken apart as it was  *)
(* put together; names that are too long lose their end, or are taken for  *)
(* the key; a larger file is lost. No request whose user name fits its     *)
(* field is lost for want of room.                                         *)
THEOREM PayloadsArrive == Spec => []FittingArrive
  BY WireInvariant, PTL DEF WireInv

(* ServerResponse.pack and getServerCalculatedCRC: the client looks for    *)
(* the CRC where the server has put it, for every name and every CRC.      *)
THEOREM CrcsArrive == Spec => []CrcArrives
  BY WireInvariant, PTL DEF WireInv
===============================================================================
