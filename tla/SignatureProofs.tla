-------------------------- MODULE SignatureProofs --------------------------
(***************************************************************************)
(* Proofs about Signature for every width, padding, prefix, key and image: *)
(* what is hashed is the image with its padding, the Montgomery arithmetic *)
(* is exact, and an image passes exactly when its signature has the power  *)
(* that encodes its digest.                                                *)
(*                                                                         *)
(* The recursive functions of Signature (a difference, a product's rows, a *)
(* power) each get three facts: that a function with the recursion's       *)
(* equations exists for every length, what its steps are, and that the     *)
(* operator of Signature is its last value.  The CHOOSE behind a recursive *)
(* function would otherwise say nothing.                                   *)
(***************************************************************************)
EXTENDS Signature, SequenceTheorems, WellFoundedInduction, TLAPS

(* The image passes only when the power of its signature is the encoding   *)
(* of its digest, byte by byte.                                            *)
OnlyTheEncodingPasses == result = "OK" => ToBytes(Power) = Encoded

(* A set of naturals with a member has a least one.                        *)
LEMMA MinIs ==
    ASSUME NEW T, T \subseteq Nat, T # {}
    PROVE  Min(T) \in T /\ \A y \in T : Min(T) <= y
<1>. DEFINE Less == OpToRel(<, Nat)
<1>1. IsWellFoundedOn(Less, Nat)
  BY NatLessThanWellFounded
<1>2. \A x, y \in Nat : y < x => <<y, x>> \in Less
  BY Zenon DEF OpToRel
<1>. HIDE DEF Less
<1>3. PICK x \in T : \A y \in T : ~ (<<y, x>> \in Less)
  BY <1>1, WFMin
<1>4. \A y \in T : ~ (y < x)
  BY <1>2, <1>3
<1>5. \A y \in Nat : ~ (y < x) => x <= y
  BY <1>3
<1>6. \A y \in T : x <= y
  BY <1>4, <1>5
<1>. QED
  BY <1>3, <1>6, Zenon DEF Min

(* A sequence is its two halves.                                           *)
LEMMA Halves ==
    ASSUME NEW S, NEW q \in Seq(S), NEW m \in 0 .. Len(q)
    PROVE  /\ SubSeq(q, 1, m) \in Seq(S) /\ Len(SubSeq(q, 1, m)) = m
           /\ \A k \in 1 .. m : SubSeq(q, 1, m)[k] = q[k]
           /\ SubSeq(q, m + 1, Len(q)) \in Seq(S) /\ Len(SubSeq(q, m + 1, Len(q))) = Len(q) - m
           /\ q = SubSeq(q, 1, m) \o SubSeq(q, m + 1, Len(q))
<1>. DEFINE a == SubSeq(q, 1, m)
            b == SubSeq(q, m + 1, Len(q))
            w == a \o b
<1>1. Len(q) \in Nat /\ m \in Nat /\ m <= Len(q)
  OBVIOUS
<1>2. a \in Seq(S) /\ Len(a) = m /\ \A k \in 1 .. m : a[k] = q[k]
  BY <1>1
<1>3. b \in Seq(S) /\ Len(b) = Len(q) - m /\ \A k \in 1 .. Len(b) : b[k] = q[k + m]
  BY <1>1
<1>. HIDE DEF a, b
<1>4. /\ w \in Seq(S) /\ Len(w) = Len(a) + Len(b)
      /\ \A k \in 1 .. (Len(a) + Len(b)) : w[k] = IF k <= Len(a) THEN a[k] ELSE b[k - Len(a)]
  BY <1>2, <1>3, ConcatProperties
<1>. HIDE DEF w
<1>5. ASSUME NEW k \in 1 .. Len(q)
      PROVE  w[k] = q[k]
  <2>1. CASE k <= m
    BY <2>1, <1>1, <1>2, <1>3, <1>4
  <2>2. CASE k > m
    <3>1. k - m \in 1 .. Len(b) /\ (k - m) + m = k
      BY <2>2, <1>1, <1>3
    <3>2. w[k] = b[k - m]
      BY <3>1, <2>2, <1>1, <1>2, <1>3, <1>4
    <3>. QED
      BY <3>1, <3>2, <1>3
  <2>3. k <= m \/ k > m
    BY <1>1
  <2>. QED
    BY <2>1, <2>2, <2>3, Zenon
<1>6. Len(w) = Len(q)
  BY <1>1, <1>2, <1>3, <1>4
<1>7. w = q
  BY <1>4, <1>5, <1>6, SeqEqual
<1>. QED
  BY <1>2, <1>3, <1>7, Zenon DEF w, a, b

(* Sequences that are joined may be grouped either way.                    *)
Regroups(q, w, u) == (q \o w) \o u = q \o (w \o u)

LEMMA Regrouped ==
    ASSUME NEW S, NEW q \in Seq(S), NEW w \in Seq(S), NEW u \in Seq(S)
    PROVE  Regroups(q, w, u)
  BY ConcatAssociative, SMTT(30) DEF Regroups

-----------------------------------------------------------------------------
(* Numbers.  A set of naturals that has 0, and with each its successor, has*)
(* them all.                                                               *)
LEMMA Inductive ==
    ASSUME NEW T, 0 \in T, \A x \in Nat : x \in T => x + 1 \in T
    PROVE  Nat \subseteq T
<1>. DEFINE U == Nat \ T
<1>1. SUFFICES ASSUME U # {} PROVE FALSE
  OBVIOUS
<1>2. PICK x \in U : \A y \in U : x <= y
  <2>1. U \subseteq Nat
    OBVIOUS
  <2>. HIDE DEF U
  <2>. QED
    BY <1>1, <2>1, MinIs
<1>3. x \in Nat /\ x \notin T /\ x # 0
  BY <1>2
<1>4. x - 1 \in Nat /\ (x - 1) + 1 = x /\ ~ (x <= x - 1)
  BY <1>3
<1>5. x - 1 \notin U
  <2>. HIDE DEF U
  <2>. QED
    BY <1>2, <1>4
<1>6. x - 1 \in T
  BY <1>4, <1>5
<1>. QED
  BY <1>3, <1>4, <1>6

(* The same up to a bound.                                                 *)
LEMMA InductiveTo ==
    ASSUME NEW m \in Nat, NEW T, 0 \in T, \A x \in 0 .. (m - 1) : x \in T => x + 1 \in T
    PROVE  \A x \in 0 .. m : x \in T
<1>. DEFINE U == {x \in Nat : x <= m => x \in T}
<1>1. 0 \in U
  OBVIOUS
<1>2. ASSUME NEW x \in Nat, x \in U PROVE x + 1 \in U
  <2>1. CASE x + 1 <= m
    <3>1. x \in 0 .. (m - 1) /\ x <= m
      BY <2>1
    <3>. QED
      BY <3>1, <1>2
  <2>2. CASE ~ (x + 1 <= m)
    BY <2>2
  <2>. QED
    BY <2>1, <2>2
<1>3. Nat \subseteq U
  <2>. HIDE DEF U
  <2>. QED
    BY <1>1, <1>2, Inductive
<1>. QED
  BY <1>3

(* Products.                                                               *)
LEMMA Commutes == ASSUME NEW a \in Int, NEW b \in Int PROVE a * b = b * a /\ a * b \in Int
OBVIOUS
LEMMA Associates ==
    ASSUME NEW a \in Int, NEW b \in Int, NEW c \in Int
    PROVE  a * (b * c) = (a * b) * c
OBVIOUS
LEMMA Distributes ==
    ASSUME NEW a \in Int, NEW b \in Int, NEW c \in Int
    PROVE  a * (b + c) = a * b + a * c /\ (b + c) * a = b * a + c * a
           /\ a * (b - c) = a * b - a * c /\ (b - c) * a = b * a - c * a
OBVIOUS
LEMMA Naturals == ASSUME NEW a \in Nat, NEW b \in Nat PROVE a * b \in Nat
OBVIOUS
LEMMA Grows ==
    ASSUME NEW a \in Nat, NEW b \in Nat, NEW c \in Nat, a <= b
    PROVE  a * c <= b * c /\ c * a <= c * b
OBVIOUS
LEMMA GrowsMore ==
    ASSUME NEW a \in Nat, NEW b \in Nat, NEW c \in Nat \ {0}, a < b
    PROVE  a * c < b * c /\ a * c + c <= b * c
<1>1. (a + 1) * c <= b * c
  BY Grows
<1>2. (a + 1) * c = a * c + c
  OBVIOUS
<1>3. a * c \in Nat /\ b * c \in Nat
  OBVIOUS
<1>. QED
  BY <1>1, <1>2, <1>3

LEMMA DivideBy ==
    ASSUME NEW x \in Int, NEW m \in Nat \ {0}
    PROVE  /\ x \div m \in Int /\ x % m \in 0 .. (m - 1)
           /\ x = (m * (x \div m)) + (x % m)
           /\ x \in Nat => x \div m \in Nat
OBVIOUS

(* There is one way to write x as a multiple of m and a rest below it.     *)
LEMMA OneRest ==
    ASSUME NEW m \in Nat \ {0}, NEW p \in Int, NEW q \in Int,
           NEW y \in 0 .. (m - 1), NEW z \in 0 .. (m - 1), m * p + y = m * q + z
    PROVE  p = q /\ y = z
<1>1. ASSUME NEW u \in Int, NEW v \in Int, NEW a \in 0 .. (m - 1), NEW b \in 0 .. (m - 1),
             m * u + a = m * v + b
      PROVE  ~ (u > v)
  <2>1. SUFFICES ASSUME u > v PROVE FALSE
    OBVIOUS
  <2>. DEFINE d == u - v
  <2>2. d \in Nat \ {0}
    BY <2>1
  <2>3. m * u - m * v = m * d
    BY Distributes
  <2>4. m * u \in Int /\ m * v \in Int
    OBVIOUS
  <2>5. m * d = b - a
    BY <1>1, <2>3, <2>4
  <2>. HIDE DEF d
  <2>6. m * 1 <= m * d
    BY <2>2, Grows
  <2>. QED
    BY <2>5, <2>6
<1>2. p = q
  BY <1>1
<1>3. m * p \in Int
  OBVIOUS
<1>. QED
  BY <1>2, <1>3

LEMMA RestIs ==
    ASSUME NEW m \in Nat \ {0}, NEW p \in Int, NEW y \in 0 .. (m - 1)
    PROVE  (m * p + y) \div m = p /\ (m * p + y) % m = y
<1>. DEFINE x == m * p + y
            u == x \div m
            v == x % m
<1>1. x \in Int
  OBVIOUS
<1>2. u \in Int /\ v \in 0 .. (m - 1) /\ x = m * u + v
  <2>. HIDE DEF x
  <2>. QED
    BY <1>1, DivideBy
<1>. HIDE DEF u, v
<1>3. u = p /\ v = y
  BY <1>2, OneRest
<1>. QED
  BY <1>3 DEF u, v

-----------------------------------------------------------------------------
(* Powers.                                                                 *)
Powers(f, b, m) == f = [k \in 0 .. m |-> IF k = 0 THEN 1 ELSE f[k - 1] * b]

LEMMA PowersAre ==
    ASSUME NEW f, NEW b, NEW m \in Nat, Powers(f, b, m)
    PROVE  f[0] = 1 /\ \A k \in 0 .. (m - 1) : f[k + 1] = f[k] * b
<1>1. \A k \in 0 .. m : f[k] = IF k = 0 THEN 1 ELSE f[k - 1] * b
  BY DEF Powers
<1>2. 0 \in 0 .. m /\ \A k \in 0 .. (m - 1) : k + 1 \in 0 .. m /\ k + 1 # 0 /\ (k + 1) - 1 = k
  OBVIOUS
<1>. QED
  BY <1>1, <1>2

LEMMA SomePowers == ASSUME NEW b PROVE \A m \in Nat : \E f : Powers(f, b, m)
<1>. DEFINE T == {m \in Nat : \E f : Powers(f, b, m)}
<1>1. 0 \in T
  <2>. DEFINE g == [k \in 0 .. 0 |-> 1]
  <2>1. g = [k \in 0 .. 0 |-> IF k = 0 THEN 1 ELSE g[k - 1] * b]
    OBVIOUS
  <2>2. Powers(g, b, 0)
    <3>. HIDE DEF g
    <3>. QED
      BY <2>1 DEF Powers
  <2>. QED
    BY <2>2
<1>2. ASSUME NEW m \in Nat, m \in T PROVE m + 1 \in T
  <2>1. PICK f : Powers(f, b, m)
    BY <1>2
  <2>2. f[0] = 1 /\ \A k \in 0 .. (m - 1) : f[k + 1] = f[k] * b
    BY <2>1, PowersAre
  <2>. DEFINE g == [k \in 0 .. (m + 1) |-> IF k = m + 1 THEN f[m] * b ELSE f[k]]
  <2>3. ASSUME NEW k \in 0 .. (m + 1)
        PROVE  g[k] = IF k = 0 THEN 1 ELSE g[k - 1] * b
    <3>1. CASE k = 0
      BY <2>2, <3>1
    <3>2. CASE k = m + 1
      BY <3>2
    <3>3. CASE k \in 1 .. m
      <4>1. k - 1 \in 0 .. (m - 1) /\ (k - 1) + 1 = k /\ k # m + 1 /\ k - 1 # m + 1 /\ k # 0
            /\ k - 1 \in 0 .. (m + 1)
        BY <3>3
      <4>2. g[k] = f[k] /\ g[k - 1] = f[k - 1]
        BY <4>1
      <4>. HIDE DEF g
      <4>3. f[(k - 1) + 1] = f[k - 1] * b
        BY <4>1, <2>2
      <4>. QED
        BY <4>1, <4>2, <4>3
    <3>. QED
      BY <3>1, <3>2, <3>3
  <2>4. g = [k \in 0 .. (m + 1) |-> g[k]]
    OBVIOUS
  <2>. HIDE DEF g
  <2>5. Powers(g, b, m + 1)
    BY <2>3, <2>4 DEF Powers
  <2>. QED
    BY <2>5
<1>. HIDE DEF T
<1>3. Nat \subseteq T
  BY <1>1, <1>2, Inductive
<1>. QED
  BY <1>3 DEF T

LEMMA PowIs ==
    ASSUME NEW b
    PROVE  Pow(b, 0) = 1 /\ \A k \in Nat : Pow(b, k + 1) = Pow(b, k) * b
<1>1. ASSUME NEW m \in Nat
      PROVE  \E f : Powers(f, b, m) /\ Pow(b, m) = f[m]
  <2>. DEFINE h == CHOOSE f : Powers(f, b, m)
  <2>1. Pow(b, m) = h[m]
    BY DEF Pow, Powers
  <2>2. Powers(h, b, m)
    BY SomePowers
  <2>. HIDE DEF h
  <2>. QED
    BY <2>1, <2>2
<1>2. Pow(b, 0) = 1
  <2>1. 0 \in Nat
    OBVIOUS
  <2>2. PICK f : Powers(f, b, 0) /\ Pow(b, 0) = f[0]
    BY <2>1, <1>1
  <2>. QED
    BY <2>1, <2>2, PowersAre
<1>3. ASSUME NEW m \in Nat PROVE Pow(b, m + 1) = Pow(b, m) * b
  <2>1. PICK f : Powers(f, b, m) /\ Pow(b, m) = f[m]
    BY <1>1
  <2>2. PICK g : Powers(g, b, m + 1) /\ Pow(b, m + 1) = g[m + 1]
    <3>1. m + 1 \in Nat
      OBVIOUS
    <3>. QED
      BY <3>1, <1>1
  <2>3. f[0] = 1 /\ \A k \in 0 .. (m - 1) : f[k + 1] = f[k] * b
    BY <2>1, PowersAre
  <2>4. g[0] = 1 /\ \A k \in 0 .. m : g[k + 1] = g[k] * b
    <3>1. m + 1 \in Nat /\ (m + 1) - 1 = m
      OBVIOUS
    <3>. QED
      BY <2>2, <3>1, PowersAre
  <2>. DEFINE T == {k \in 0 .. m : f[k] = g[k]}
  <2>5. 0 \in T
    BY <2>3, <2>4
  <2>6. \A k \in 0 .. (m - 1) : k \in T => k + 1 \in T
    BY <2>3, <2>4
  <2>7. m \in T
    <3>. HIDE DEF T
    <3>. QED
      BY <2>5, <2>6, InductiveTo
  <2>. QED
    BY <2>1, <2>2, <2>4, <2>7
<1>. QED
  BY <1>2, <1>3

LEMMA PowNat ==
    ASSUME NEW b \in Nat \ {0}
    PROVE  \A k \in Nat : Pow(b, k) \in Nat \ {0}
<1>. DEFINE T == {k \in Nat : Pow(b, k) \in Nat \ {0}}
<1>1. 0 \in T
  BY PowIs
<1>2. ASSUME NEW k \in Nat, k \in T PROVE k + 1 \in T
  <2>1. Pow(b, k + 1) = Pow(b, k) * b /\ Pow(b, k) \in Nat \ {0}
    BY <1>2, PowIs
  <2>. DEFINE q == Pow(b, k)
  <2>2. q * b \in Nat \ {0}
    <3>1. q \in Nat \ {0}
      BY <2>1
    <3>. HIDE DEF q
    <3>. QED
      BY <3>1
  <2>. QED
    BY <2>1, <2>2
<1>. HIDE DEF T
<1>3. Nat \subseteq T
  BY <1>1, <1>2, Inductive
<1>. QED
  BY <1>3 DEF T

LEMMA PowIn ==
    ASSUME NEW b \in Nat
    PROVE  \A k \in Nat : Pow(b, k) \in Nat
<1>. DEFINE T == {k \in Nat : Pow(b, k) \in Nat}
<1>1. 0 \in T
  BY PowIs
<1>2. ASSUME NEW k \in Nat, k \in T PROVE k + 1 \in T
  <2>. DEFINE q == Pow(b, k)
  <2>1. Pow(b, k + 1) = q * b /\ q \in Nat
    BY <1>2, PowIs
  <2>. HIDE DEF q
  <2>2. q * b \in Nat
    BY <2>1
  <2>. QED
    BY <2>1, <2>2
<1>. HIDE DEF T
<1>3. Nat \subseteq T
  BY <1>1, <1>2, Inductive
<1>. QED
  BY <1>3 DEF T

LEMMA PowAdds ==
    ASSUME NEW b \in Nat, NEW j \in Nat
    PROVE  \A k \in Nat : Pow(b, j + k) = Pow(b, j) * Pow(b, k)
<1>. DEFINE T == {k \in Nat : Pow(b, j + k) = Pow(b, j) * Pow(b, k)}
<1>1. 0 \in T
  <2>1. j + 0 = j /\ Pow(b, 0) = 1 /\ Pow(b, j) \in Nat
    BY PowIs, PowIn
  <2>. QED
    BY <2>1
<1>2. ASSUME NEW k \in Nat, k \in T PROVE k + 1 \in T
  <2>1. Pow(b, j) \in Nat /\ Pow(b, k) \in Nat
    BY PowIn
  <2>2. Pow(b, k + 1) = Pow(b, k) * b
    BY PowIs
  <2>3. Pow(b, j + (k + 1)) = Pow(b, j + k) * b
    <3>1. j + k \in Nat /\ (j + k) + 1 = j + (k + 1)
      OBVIOUS
    <3>. QED
      BY <3>1, PowIs
  <2>4. (Pow(b, j) * Pow(b, k)) * b = Pow(b, j) * (Pow(b, k) * b)
    BY <2>1, Associates
  <2>. QED
    BY <1>2, <2>2, <2>3, <2>4
<1>. HIDE DEF T
<1>3. Nat \subseteq T
  BY <1>1, <1>2, Inductive
<1>. QED
  BY <1>3 DEF T

LEMMA PowMultiplies ==
    ASSUME NEW b \in Nat \ {0}, NEW j \in Nat
    PROVE  \A k \in Nat : Pow(Pow(b, j), k) = Pow(b, k * j)
<1>. DEFINE T == {k \in Nat : Pow(Pow(b, j), k) = Pow(b, k * j)}
<1>1. 0 \in T
  <2>1. 0 * j = 0
    OBVIOUS
  <2>. QED
    BY <2>1, PowIs
<1>2. ASSUME NEW k \in Nat, k \in T PROVE k + 1 \in T
  <2>1. k * j \in Nat /\ (k + 1) * j = k * j + j
    OBVIOUS
  <2>2. Pow(Pow(b, j), k + 1) = Pow(Pow(b, j), k) * Pow(b, j)
    BY PowIs
  <2>3. Pow(b, k * j + j) = Pow(b, k * j) * Pow(b, j)
    BY <2>1, PowAdds
  <2>. QED
    BY <1>2, <2>1, <2>2, <2>3
<1>. HIDE DEF T
<1>3. Nat \subseteq T
  BY <1>1, <1>2, Inductive
<1>. QED
  BY <1>3 DEF T

-----------------------------------------------------------------------------
(* The widths.                                                             *)
LEMMA Widths ==
    /\ Byte \in Nat /\ Byte >= 4 /\ LimbBytes \in Nat \ {0} /\ Limbs \in Nat \ {0}
    /\ Bytes \in Nat \ {0} /\ BitsPerByte \in Nat \ {0} /\ Pow(2, BitsPerByte) = Byte
<1>1. /\ Byte \in Nat /\ LimbBytes \in Nat \ {0} /\ Limbs \in Nat \ {0}
  BY SignatureAssumption DEF SignatureAssumption
<1>2. Byte >= 4 /\ \E b \in 1 .. Byte : Pow(2, b) = Byte
  BY SignatureAssumption, Zenon DEF SignatureAssumption
<1>3. BitsPerByte \in 1 .. Byte /\ Pow(2, BitsPerByte) = Byte
  BY <1>2, Zenon DEF BitsPerByte
<1>4. BitsPerByte \in Nat \ {0}
  BY <1>1, <1>3
<1>5. Bytes \in Nat \ {0}
  BY <1>1 DEF Bytes
<1>. QED
  BY <1>1, <1>2, <1>3, <1>4, <1>5

LEMMA WordIs ==
    /\ Word \in Nat /\ Word >= 4 /\ Word = Pow(2, LimbBytes * BitsPerByte)
    /\ Word \div 2 \in Nat \ {0} /\ Word = 2 * (Word \div 2)
<1>. DEFINE e == LimbBytes * BitsPerByte
<1>1. 2 \in Nat \ {0} /\ BitsPerByte \in Nat \ {0} /\ LimbBytes \in Nat \ {0} /\ Byte \in Nat /\ Byte >= 4
  BY Widths
<1>2. Word = Pow(2, e)
  BY <1>1, PowMultiplies, Widths DEF Word
<1>3. Word = Pow(Byte, LimbBytes - 1) * Byte /\ Pow(Byte, LimbBytes - 1) \in Nat \ {0}
  <2>1. LimbBytes - 1 \in Nat /\ (LimbBytes - 1) + 1 = LimbBytes /\ Byte \in Nat \ {0}
    BY <1>1
  <2>. QED
    BY <2>1, PowIs, PowNat DEF Word
<1>4. Word \in Nat /\ Word >= 4
  <2>. DEFINE q == Pow(Byte, LimbBytes - 1)
  <2>1. q \in Nat \ {0} /\ Word = q * Byte
    BY <1>3
  <2>. HIDE DEF q
  <2>2. 1 * Byte <= q * Byte
    BY <1>1, <2>1, Grows
  <2>. QED
    BY <1>1, <2>1, <2>2
<1>5. e \in Nat \ {0}
  BY <1>1
<1>6. Word = Pow(2, e - 1) * 2 /\ Pow(2, e - 1) \in Nat
  <2>. HIDE DEF e
  <2>1. e - 1 \in Nat /\ (e - 1) + 1 = e
    BY <1>5
  <2>. QED
    BY <1>2, <2>1, PowIs, PowNat
<1>7. Word \div 2 \in Nat \ {0} /\ Word = 2 * (Word \div 2)
  <2>. DEFINE q == Pow(2, e - 1)
  <2>1. q \in Nat /\ Word = q * 2
    BY <1>6
  <2>. HIDE DEF q
  <2>2. Word \div 2 = q
    BY <2>1
  <2>. QED
    BY <1>4, <2>1, <2>2
<1>. QED
  BY <1>2, <1>4, <1>7 DEF e

LEMMA RIs ==
    /\ R \in Nat /\ R >= 4 /\ R = Pow(Word, Limbs)
    /\ R = Pow(Byte, Bytes) /\ Bits \in Nat /\ R = Pow(2, Bits)
<1>1. /\ Word \in Nat \ {0} /\ Limbs \in Nat \ {0} /\ LimbBytes \in Nat /\ Byte \in Nat \ {0}
      /\ Word >= 4 /\ Bytes \in Nat /\ BitsPerByte \in Nat
  BY WordIs, Widths
<1>2. R = Pow(Byte, Bytes)
  <2>1. Pow(Pow(Byte, LimbBytes), Limbs) = Pow(Byte, Limbs * LimbBytes)
    BY <1>1, PowMultiplies
  <2>. QED
    BY <2>1 DEF R, Word, Bytes
<1>3. R = Pow(2, Bits)
  <2>1. Pow(Pow(2, BitsPerByte), Bytes) = Pow(2, Bytes * BitsPerByte)
    <3>1. 2 \in Nat \ {0}
      OBVIOUS
    <3>. QED
      BY <1>1, <3>1, PowMultiplies
  <2>. QED
    BY <2>1, <1>2, Widths DEF Bits
<1>4. Bits \in Nat
  BY <1>1 DEF Bits
<1>5. R = Pow(Word, Limbs - 1) * Word /\ Pow(Word, Limbs - 1) \in Nat \ {0}
  <2>1. Limbs - 1 \in Nat /\ (Limbs - 1) + 1 = Limbs
    BY <1>1
  <2>. QED
    BY <1>1, <2>1, PowIs, PowNat DEF R
<1>6. R \in Nat /\ R >= 4
  <2>. DEFINE q == Pow(Word, Limbs - 1)
  <2>1. q \in Nat \ {0} /\ R = q * Word
    BY <1>5
  <2>. HIDE DEF q
  <2>2. 1 * Word <= q * Word
    BY <1>1, <2>1, Grows
  <2>. QED
    BY <1>1, <2>1, <2>2
<1>. QED
  BY <1>2, <1>3, <1>4, <1>6 DEF R

LEMMA WordPow ==
    ASSUME NEW k \in Nat
    PROVE  Pow(Word, k) \in Nat \ {0} /\ Pow(Word, k + 1) = Pow(Word, k) * Word
<1>1. Word \in Nat \ {0}
  BY WordIs
<1>. QED
  BY <1>1, PowNat, PowIs

-----------------------------------------------------------------------------
(* Numbers as words.                                                       *)
Values(f, a, m) == f = [k \in 0 .. m |-> IF k = 0 THEN 0 ELSE f[k - 1] + a[k] * Pow(Word, k - 1)]

LEMMA ValuesAre ==
    ASSUME NEW f, NEW a, NEW m \in Nat, Values(f, a, m)
    PROVE  f[0] = 0 /\ \A k \in 0 .. (m - 1) : f[k + 1] = f[k] + a[k + 1] * Pow(Word, k)
<1>1. \A k \in 0 .. m : f[k] = IF k = 0 THEN 0 ELSE f[k - 1] + a[k] * Pow(Word, k - 1)
  BY DEF Values
<1>2. 0 \in 0 .. m /\ \A k \in 0 .. (m - 1) : k + 1 \in 0 .. m /\ k + 1 # 0 /\ (k + 1) - 1 = k
  OBVIOUS
<1>. QED
  BY <1>1, <1>2

LEMMA SomeValues == ASSUME NEW a PROVE \A m \in Nat : \E f : Values(f, a, m)
<1>. DEFINE T == {m \in Nat : \E f : Values(f, a, m)}
            G(k) == a[k] * Pow(Word, k - 1)
<1>1. 0 \in T
  <2>. DEFINE g == [k \in 0 .. 0 |-> 0]
  <2>1. g = [k \in 0 .. 0 |-> IF k = 0 THEN 0 ELSE g[k - 1] + G(k)]
    <3>. HIDE DEF G
    <3>. QED
      OBVIOUS
  <2>2. Values(g, a, 0)
    <3>. HIDE DEF g
    <3>. QED
      BY <2>1 DEF Values
  <2>. QED
    BY <2>2
<1>2. ASSUME NEW m \in Nat, m \in T PROVE m + 1 \in T
  <2>1. PICK f : Values(f, a, m)
    BY <1>2
  <2>2. f[0] = 0 /\ \A k \in 1 .. m : f[k] = f[k - 1] + G(k)
    <3>1. \A k \in 0 .. m : f[k] = IF k = 0 THEN 0 ELSE f[k - 1] + a[k] * Pow(Word, k - 1)
      BY <2>1 DEF Values
    <3>2. 0 \in 0 .. m /\ \A k \in 1 .. m : k \in 0 .. m /\ k # 0
      OBVIOUS
    <3>. QED
      BY <3>1, <3>2
  <2>. HIDE DEF G
  <2>. DEFINE g == [k \in 0 .. (m + 1) |-> IF k = m + 1 THEN f[m] + G(m + 1) ELSE f[k]]
  <2>3. ASSUME NEW k \in 0 .. (m + 1)
        PROVE  g[k] = IF k = 0 THEN 0 ELSE g[k - 1] + G(k)
    <3>1. CASE k = 0
      BY <2>2, <3>1
    <3>2. CASE k = m + 1
      BY <3>2
    <3>3. CASE k \in 1 .. m
      <4>1. k # m + 1 /\ k - 1 # m + 1 /\ k # 0 /\ k - 1 \in 0 .. (m + 1)
        BY <3>3
      <4>2. g[k] = f[k] /\ g[k - 1] = f[k - 1]
        BY <4>1
      <4>. HIDE DEF g
      <4>. QED
        BY <4>1, <4>2, <2>2, <3>3
    <3>. QED
      BY <3>1, <3>2, <3>3
  <2>4. g = [k \in 0 .. (m + 1) |-> g[k]]
    OBVIOUS
  <2>. HIDE DEF g
  <2>5. Values(g, a, m + 1)
    BY <2>3, <2>4 DEF Values, G
  <2>. QED
    BY <2>5
<1>. HIDE DEF T
<1>3. Nat \subseteq T
  BY <1>1, <1>2, Inductive
<1>. QED
  BY <1>3 DEF T

LEMMA ValueIs ==
    ASSUME NEW a
    PROVE  /\ ValueOf(a, 0) = 0
           /\ \A k \in Nat : ValueOf(a, k + 1) = ValueOf(a, k) + a[k + 1] * Pow(Word, k)
<1>1. ASSUME NEW m \in Nat
      PROVE  \E f : Values(f, a, m) /\ ValueOf(a, m) = f[m]
  <2>. DEFINE h == CHOOSE f : Values(f, a, m)
  <2>1. ValueOf(a, m) = h[m]
    BY DEF ValueOf, Values
  <2>2. Values(h, a, m)
    BY SomeValues
  <2>. HIDE DEF h
  <2>. QED
    BY <2>1, <2>2
<1>2. ValueOf(a, 0) = 0
  <2>1. 0 \in Nat
    OBVIOUS
  <2>2. PICK f : Values(f, a, 0) /\ ValueOf(a, 0) = f[0]
    BY <2>1, <1>1
  <2>. QED
    BY <2>1, <2>2, ValuesAre
<1>3. ASSUME NEW m \in Nat PROVE ValueOf(a, m + 1) = ValueOf(a, m) + a[m + 1] * Pow(Word, m)
  <2>1. PICK f : Values(f, a, m) /\ ValueOf(a, m) = f[m]
    BY <1>1
  <2>2. PICK g : Values(g, a, m + 1) /\ ValueOf(a, m + 1) = g[m + 1]
    <3>1. m + 1 \in Nat
      OBVIOUS
    <3>. QED
      BY <3>1, <1>1
  <2>. DEFINE G(k) == a[k + 1] * Pow(Word, k)
  <2>3. f[0] = 0 /\ \A k \in 0 .. (m - 1) : f[k + 1] = f[k] + G(k)
    BY <2>1, ValuesAre
  <2>4. g[0] = 0 /\ \A k \in 0 .. m : g[k + 1] = g[k] + G(k)
    <3>1. m + 1 \in Nat /\ (m + 1) - 1 = m
      OBVIOUS
    <3>. QED
      BY <2>2, <3>1, ValuesAre
  <2>. DEFINE T == {k \in 0 .. m : f[k] = g[k]}
  <2>. HIDE DEF G
  <2>5. 0 \in T
    BY <2>3, <2>4
  <2>6. \A k \in 0 .. (m - 1) : k \in T => k + 1 \in T
    BY <2>3, <2>4
  <2>7. m \in T
    <3>. HIDE DEF T
    <3>. QED
      BY <2>5, <2>6, InductiveTo
  <2>. QED
    BY <2>1, <2>2, <2>4, <2>7 DEF G
<1>. QED
  BY <1>2, <1>3

(* The lowest words are words.                                             *)
IsBig(a, m) == \A k \in 1 .. m : a[k] \in 0 .. (Word - 1)

LEMMA ValueBelow ==
    ASSUME NEW m \in Nat, NEW a, IsBig(a, m)
    PROVE  \A k \in 0 .. m : ValueOf(a, k) \in 0 .. (Pow(Word, k) - 1)
<1>. DEFINE T == {k \in 0 .. m : ValueOf(a, k) \in 0 .. (Pow(Word, k) - 1)}
<1>1. 0 \in T
  BY ValueIs, PowIs
<1>2. ASSUME NEW k \in 0 .. (m - 1), k \in T PROVE k + 1 \in T
  <2>. DEFINE p == Pow(Word, k)
              v == ValueOf(a, k)
              w == a[k + 1]
  <2>1. p \in Nat \ {0} /\ Pow(Word, k + 1) = p * Word /\ ValueOf(a, k + 1) = v + w * p
    BY WordPow, ValueIs
  <2>2. v \in 0 .. (p - 1) /\ w \in 0 .. (Word - 1) /\ Word \in Nat
    BY <1>2, WordIs DEF IsBig
  <2>. HIDE DEF p, v, w
  <2>3. w * p + p <= Word * p
    BY <2>1, <2>2, GrowsMore
  <2>4. Word * p = p * Word /\ w * p \in Nat /\ p * Word \in Nat
    BY <2>1, <2>2
  <2>5. v + w * p \in 0 .. (p * Word - 1)
    BY <2>1, <2>2, <2>3, <2>4
  <2>. QED
    BY <2>1, <2>5 DEF p, v, w
<1>. HIDE DEF T
<1>3. \A k \in 0 .. m : k \in T
  BY <1>1, <1>2, InductiveTo
<1>. QED
  BY <1>3 DEF T

LEMMA ValueSame ==
    ASSUME NEW m \in Nat, NEW a, NEW b, \A k \in 1 .. m : a[k] = b[k]
    PROVE  \A k \in 0 .. m : ValueOf(a, k) = ValueOf(b, k)
<1>. DEFINE T == {k \in 0 .. m : ValueOf(a, k) = ValueOf(b, k)}
<1>1. 0 \in T
  BY ValueIs
<1>2. ASSUME NEW k \in 0 .. (m - 1), k \in T PROVE k + 1 \in T
  <2>1. a[k + 1] = b[k + 1]
    OBVIOUS
  <2>2. ValueOf(a, k + 1) = ValueOf(b, k + 1)
    BY <1>2, <2>1, ValueIs
  <2>. QED
    BY <2>2
<1>. HIDE DEF T
<1>3. \A k \in 0 .. m : k \in T
  BY <1>1, <1>2, InductiveTo
<1>. QED
  BY <1>3 DEF T

(* The words from the k-th on are a number of their own.                   *)
LEMMA ValueSplits ==
    ASSUME NEW k \in Nat, NEW m \in Nat, NEW a, IsBig(a, k + m),
           NEW b, \A o \in 1 .. m : b[o] = a[k + o]
    PROVE  \A j \in 0 .. m : ValueOf(a, k + j) = ValueOf(a, k) + Pow(Word, k) * ValueOf(b, j)
<1>. DEFINE T == {j \in 0 .. m : ValueOf(a, k + j) = ValueOf(a, k) + Pow(Word, k) * ValueOf(b, j)}
            p == Pow(Word, k)
            u == ValueOf(a, k)
<1>0. p \in Nat /\ u \in Nat /\ IsBig(b, m)
  <2>1. k \in 0 .. (k + m)
    OBVIOUS
  <2>2. \A o \in 1 .. m : k + o \in 1 .. (k + m)
    OBVIOUS
  <2>3. p \in Nat
    BY WordPow
  <2>4. u \in Nat
    <3>1. k + m \in Nat
      OBVIOUS
    <3>2. u \in 0 .. (p - 1)
      BY <2>1, <3>1, ValueBelow
    <3>. QED
      BY <2>3, <3>2
  <2>5. IsBig(b, m)
    BY <2>2 DEF IsBig
  <2>. QED
    BY <2>3, <2>4, <2>5
<1>1. 0 \in T
  <2>1. ValueOf(b, 0) = 0 /\ k + 0 = k
    BY ValueIs
  <2>2. u = u + p * 0
    <3>. HIDE DEF u, p
    <3>. QED
      BY <1>0
  <2>. QED
    BY <2>1, <2>2
<1>2. ASSUME NEW j \in 0 .. (m - 1), j \in T PROVE j + 1 \in T
  <2>. DEFINE v == ValueOf(b, j)
              w == b[j + 1]
              q == Pow(Word, j)
  <2>1. j \in Nat /\ k + j \in Nat /\ (k + j) + 1 = k + (j + 1) /\ j + 1 \in 1 .. m
    OBVIOUS
  <2>2. /\ ValueOf(a, k + (j + 1)) = ValueOf(a, k + j) + w * Pow(Word, k + j)
        /\ ValueOf(b, j + 1) = v + w * q
    BY <2>1, ValueIs
  <2>3. Pow(Word, k + j) = p * q
    <3>1. Word \in Nat \ {0}
      BY WordIs
    <3>. QED
      BY <2>1, <3>1, PowAdds
  <2>4. v \in Nat /\ w \in Nat /\ q \in Nat
    <3>1. v \in Nat
      BY <1>0, <2>1, ValueBelow
    <3>2. w \in Nat
      BY <1>0, <2>1, WordIs DEF IsBig
    <3>. QED
      BY <2>1, <3>1, <3>2, WordPow
  <2>. DEFINE z == ValueOf(a, k + j)
  <2>5. z = u + p * v
    BY <1>2
  <2>. HIDE DEF v, w, q, z, u, p
  <2>6. p * (v + w * q) = p * v + p * (w * q)
    BY <1>0, <2>4, Naturals, Distributes
  <2>7. p * (w * q) = w * (p * q)
    BY <1>0, <2>4
  <2>8. z + w * (p * q) = u + p * (v + w * q)
    <3>1. p * v \in Nat /\ w * (p * q) \in Nat
      BY <1>0, <2>4
    <3>. QED
      BY <1>0, <2>5, <2>6, <2>7, <3>1
  <2>. QED
    BY <2>1, <2>2, <2>3, <2>8 DEF v, w, q, z, u, p
<1>. HIDE DEF T
<1>3. \A j \in 0 .. m : j \in T
  BY <1>1, <1>2, InductiveTo
<1>. QED
  BY <1>3 DEF T

(* A number has one way to be written.                                     *)
LEMMA ValueUnique ==
    ASSUME NEW m \in Nat, NEW a, NEW b, IsBig(a, m), IsBig(b, m), ValueOf(a, m) = ValueOf(b, m)
    PROVE  \A k \in 1 .. m : a[k] = b[k]
<1>. DEFINE T == {k \in 0 .. m : ValueOf(a, k) = ValueOf(b, k) => \A j \in 1 .. k : a[j] = b[j]}
<1>1. 0 \in T
  OBVIOUS
<1>2. ASSUME NEW k \in 0 .. (m - 1), k \in T PROVE k + 1 \in T
  <2>1. SUFFICES ASSUME ValueOf(a, k + 1) = ValueOf(b, k + 1) PROVE \A j \in 1 .. (k + 1) : a[j] = b[j]
    OBVIOUS
  <2>. DEFINE p == Pow(Word, k)
              u == ValueOf(a, k)
              v == ValueOf(b, k)
              x == a[k + 1]
              y == b[k + 1]
  <2>2. p \in Nat \ {0} /\ u \in 0 .. (p - 1) /\ v \in 0 .. (p - 1)
    BY WordPow, ValueBelow
  <2>3. x \in Int /\ y \in Int
    BY WordIs DEF IsBig
  <2>4. u + x * p = v + y * p
    BY <2>1, ValueIs
  <2>. HIDE DEF p, u, v, x, y
  <2>5. p * x + u = p * y + v
    BY <2>2, <2>3, <2>4
  <2>6. x = y /\ u = v
    BY <2>2, <2>3, <2>5, OneRest
  <2>. QED
    BY <1>2, <2>6 DEF u, v, x, y
<1>. HIDE DEF T
<1>3. m \in T
  BY <1>1, <1>2, InductiveTo
<1>. QED
  BY <1>3 DEF T

-----------------------------------------------------------------------------
(* What the check of the padding lets pass is the encoding of the digest.  *)
LEMMA OneEncoding ==
    ASSUME NEW S, Nat \subseteq S, NEW em \in Seq(S), Len(em) = Bytes, Verdict(em) = "OK"
    PROVE  em = Encoded
<1>. DEFINE zeros == {k \in 3 .. Bytes : em[k] = 0}
            end == Min(zeros)
            rest == SubSeq(em, end + 1, Bytes)
            pad == [k \in 1 .. (Bytes - 3 - Len(Prefix) - DigestSize) |-> Byte - 1]
<1>1. /\ em[1] = 0 /\ em[2] = 1
      /\ zeros # {}
      /\ ~ \E k \in 3 .. (end - 1) : em[k] # Byte - 1
      /\ ~ (end - 3 < MinPadding)
      /\ Len(rest) = Len(Prefix) + DigestSize
      /\ SubSeq(rest, 1, Len(Prefix)) = Prefix
      /\ SubSeq(rest, Len(Prefix) + 1, Len(rest)) = digest
  BY Zenon DEF Verdict
<1>2. Prefix \in Seq(S) /\ Len(Prefix) \in Nat /\ DigestSize \in Nat /\ Byte - 1 \in Nat /\ Bytes \in Nat
  <2>1. Prefix \in Seq(0 .. (Byte - 1)) /\ DigestSize \in Nat
    BY SignatureAssumption, Zenon DEF SignatureAssumption
  <2>2. Byte - 1 \in Nat /\ Bytes \in Nat /\ 0 .. (Byte - 1) \subseteq S
    BY Widths
  <2>3. Prefix \in Seq(S) /\ Len(Prefix) \in Nat
    <3>. DEFINE X == 0 .. (Byte - 1)
    <3>1. Prefix \in Seq(X) /\ X \subseteq S
      BY <2>1, <2>2
    <3>. HIDE DEF X
    <3>. QED
      BY <3>1
  <2>. QED
    BY <2>1, <2>2, <2>3
<1>3. zeros \subseteq Nat
  BY <1>2
<1>4. end \in 3 .. Bytes /\ em[end] = 0
  <2>1. end \in zeros
    <3>. HIDE DEF zeros
    <3>. QED
      BY <1>1, <1>3, MinIs
  <2>. HIDE DEF end
  <2>. QED
    BY <2>1
<1>. HIDE DEF zeros, end
<1>5. /\ SubSeq(em, 1, end) \in Seq(S) /\ Len(SubSeq(em, 1, end)) = end
      /\ \A k \in 1 .. end : SubSeq(em, 1, end)[k] = em[k]
      /\ rest \in Seq(S) /\ Len(rest) = Bytes - end
      /\ em = SubSeq(em, 1, end) \o rest
  <2>1. end \in 0 .. Len(em)
    BY <1>2, <1>4
  <2>. QED
    BY <2>1, Halves
<1>. HIDE DEF rest
<1>6. rest = Prefix \o digest /\ digest \in Seq(S)
  <2>1. Len(Prefix) \in 0 .. Len(rest)
    BY <1>1, <1>2
  <2>. QED
    BY <2>1, <1>1, <1>5, Halves, ZenonT(30)
<1>7. pad \in Seq(S) /\ Len(pad) = end - 3 /\ \A k \in 1 .. (end - 3) : pad[k] = Byte - 1
  <2>1. Bytes - 3 - Len(Prefix) - DigestSize = end - 3 /\ end - 3 \in Nat
    <3>1. Bytes - end = Len(Prefix) + DigestSize /\ end \in 3 .. Bytes
      BY <1>1, <1>4, <1>5, Zenon
    <3>2. Bytes \in Nat /\ Len(Prefix) \in Nat /\ DigestSize \in Nat
      BY <1>2, Zenon
    <3>. QED
      BY <3>1, <3>2
  <2>2. pad = [k \in 1 .. (end - 3) |-> Byte - 1]
    BY <2>1
  <2>3. Byte - 1 \in S
    BY <1>2
  <2>. HIDE DEF pad
  <2>. QED
    BY <2>1, <2>2, <2>3
<1>. HIDE DEF pad
<1>. DEFINE a == <<0, 1>> \o pad
            b == a \o <<0>>
<1>8. a \in Seq(S) /\ Len(a) = end - 1 /\ a[1] = 0 /\ a[2] = 1 /\ \A k \in 3 .. (end - 1) : a[k] = Byte - 1
  <2>1. <<0, 1>> \in Seq(S) /\ Len(<<0, 1>>) = 2 /\ <<0, 1>>[1] = 0 /\ <<0, 1>>[2] = 1
    OBVIOUS
  <2>2. /\ a \in Seq(S) /\ Len(a) = 2 + Len(pad)
        /\ \A k \in 1 .. (2 + Len(pad)) : a[k] = IF k <= 2 THEN <<0, 1>>[k] ELSE pad[k - 2]
    BY <2>1, <1>7, ConcatProperties
  <2>. HIDE DEF a
  <2>3. Len(a) = end - 1 /\ 2 + Len(pad) = end - 1 /\ end \in Nat /\ end >= 3
    BY <2>2, <1>4, <1>7
  <2>4. a[1] = 0 /\ a[2] = 1
    BY <2>1, <2>2, <2>3
  <2>5. ASSUME NEW k \in 3 .. (end - 1)
        PROVE  a[k] = Byte - 1
    <3>1. k \in 1 .. (end - 1) /\ ~ (k <= 2) /\ k - 2 \in 1 .. (end - 3)
      BY <2>3
    <3>2. a[k] = pad[k - 2]
      BY <3>1, <2>2, <2>3
    <3>. QED
      BY <3>1, <3>2, <1>7
  <2>. QED
    BY <2>2, <2>3, <2>4, <2>5
<1>. HIDE DEF a
<1>9. b \in Seq(S) /\ Len(b) = end /\ (\A k \in 1 .. (end - 1) : b[k] = a[k]) /\ b[end] = 0
  <2>1. <<0>> \in Seq(S) /\ Len(<<0>>) = 1 /\ <<0>>[1] = 0
    OBVIOUS
  <2>2. /\ b \in Seq(S) /\ Len(b) = Len(a) + 1
        /\ \A k \in 1 .. (Len(a) + 1) : b[k] = IF k <= Len(a) THEN a[k] ELSE <<0>>[k - Len(a)]
    BY <2>1, <1>8, ConcatProperties
  <2>. HIDE DEF b
  <2>. QED
    BY <2>1, <2>2, <1>4, <1>8
<1>. HIDE DEF b
<1>10. SubSeq(em, 1, end) = b
  <2>1. ASSUME NEW k \in 1 .. end
        PROVE  em[k] = b[k]
    <3>1. CASE k = 1
      BY <3>1, <1>1, <1>4, <1>8, <1>9
    <3>2. CASE k = 2
      BY <3>2, <1>1, <1>4, <1>8, <1>9
    <3>3. CASE k \in 3 .. (end - 1)
      BY <3>3, <1>1, <1>4, <1>8, <1>9
    <3>4. CASE k = end
      BY <3>4, <1>4, <1>9
    <3>5. k = 1 \/ k = 2 \/ k \in 3 .. (end - 1) \/ k = end
      BY <1>4
    <3>. QED
      BY <3>1, <3>2, <3>3, <3>4, <3>5, Zenon
  <2>2. \A k \in 1 .. end : SubSeq(em, 1, end)[k] = b[k]
    BY <2>1, <1>5
  <2>. QED
    BY <2>2, <1>5, <1>9, SeqEqual
<1>11. em = (b \o Prefix) \o digest
  <2>1. b \o (Prefix \o digest) = (b \o Prefix) \o digest
    <3>1. b \in Seq(S) /\ Prefix \in Seq(S) /\ digest \in Seq(S)
      BY <1>2, <1>6, <1>9
    <3>. QED
      <4>1. Regroups(b, Prefix, digest)
        BY <3>1, Regrouped
      <4>. QED
        BY <4>1, Zenon DEF Regroups
  <2>2. em = b \o (Prefix \o digest)
    BY <1>5, <1>6, <1>10, Zenon
  <2>. QED
    BY <2>1, <2>2, Zenon
<1>. QED
  BY <1>11, Zenon DEF Encoded, b, a, pad

-----------------------------------------------------------------------------
(* The verdict is the last step.                                           *)
IInv == result = "OK" => pc = "out" /\ ToBytes(Power) = Encoded

LEMMA NextHolds == IInv /\ [Next]_vars => IInv'
<1>. SUFFICES ASSUME IInv, [Next]_vars PROVE IInv'
  OBVIOUS
<1>1. CASE UNCHANGED vars
  <2>1. Power' = Power /\ Encoded' = Encoded /\ UNCHANGED <<pc, result>>
    BY <1>1 DEF vars, sha, ctx, Power, Times, Encoded
  <2>. QED
    BY <2>1 DEF IInv
<1>2. CASE Update \/ Final \/ Digested \/ MontInit \/ R2Step \/ ModexpStep
  <2>1. pc # "out" /\ result' = result
    BY <1>2 DEF Update, Final, Digested, MontInit, R2Step, ModexpStep
  <2>. QED
    BY <2>1 DEF IInv
<1>3. CASE BadKey
  BY <1>3 DEF BadKey, Return, IInv
<1>4. CASE ReadSignature
  <2>1. pc # "out" /\ (result' = result \/ result' = "BAD_PADDING")
    BY <1>4 DEF ReadSignature, Return
  <2>. QED
    BY <2>1 DEF IInv
<1>5. CASE CheckPadding
  <2>1. pc' = "out" /\ result' = Verdict(ToBytes(Power)) /\ UNCHANGED <<sha, ctx, acc>>
    BY <1>5 DEF CheckPadding, Return
  <2>2. Power' = Power /\ Encoded' = Encoded
    BY <2>1 DEF sha, ctx, Power, Times, Encoded
  <2>3. ASSUME Verdict(ToBytes(Power)) = "OK"
        PROVE  ToBytes(Power) = Encoded
    <3>. DEFINE em == ToBytes(Power)
                S == Nat \cup {em[k] : k \in 1 .. Bytes}
    <3>1. Bytes \in Nat
      BY Widths
    <3>2. em \in [1 .. Bytes -> S]
      <4>1. em = [k \in 1 .. Bytes |-> em[k]]
        BY DEF ToBytes
      <4>. HIDE DEF em
      <4>. QED
        BY <4>1
    <3>3. em \in Seq(S) /\ Len(em) = Bytes
      <4>. HIDE DEF em, S
      <4>. QED
        BY <3>1, <3>2
    <3>4. Nat \subseteq S
      OBVIOUS
    <3>. HIDE DEF S
    <3>. QED
      BY <2>3, <3>3, <3>4, OneEncoding
  <2>. QED
    BY <2>1, <2>2, <2>3 DEF IInv
<1>. QED
  BY <1>1, <1>2, <1>3, <1>4, <1>5 DEF Next

(* The check of the padding lets one encoding pass, for every width.       *)
THEOREM CheckIsExact == Spec => []OnlyTheEncodingPasses
<1>1. Init => IInv
  BY DEF Init, IInv
<1>2. IInv => OnlyTheEncodingPasses
  BY DEF IInv, OnlyTheEncodingPasses
<1>. QED
  BY <1>1, <1>2, NextHolds, PTL DEF Spec

-----------------------------------------------------------------------------
(* The blocks given to sha256_transform, one behind the other.             *)
Flattened(f, q, m) == f = [j \in 1 .. m |-> IF j = 1 THEN q[j] ELSE f[j - 1] \o q[j]]

LEMMA FlattenedIs ==
    ASSUME NEW f, NEW q, NEW m \in Nat \ {0}, Flattened(f, q, m)
    PROVE  f[1] = q[1] /\ \A j \in 2 .. m : f[j] = f[j - 1] \o q[j]
<1>1. \A j \in 1 .. m : f[j] = IF j = 1 THEN q[j] ELSE f[j - 1] \o q[j]
  BY DEF Flattened
<1>2. 1 \in 1 .. m /\ \A j \in 2 .. m : j \in 1 .. m /\ j # 1
  OBVIOUS
<1>. QED
  BY <1>1, <1>2, Zenon

LEMMA SomeFlattened == ASSUME NEW q, NEW m \in Nat PROVE \E f : Flattened(f, q, m)
<1>. DEFINE T == {x \in Nat : ~ \E f : Flattened(f, q, x)}
<1>1. SUFFICES ASSUME T # {} PROVE FALSE
  OBVIOUS
<1>2. T \subseteq Nat
  OBVIOUS
<1>3. PICK x \in T : \A y \in T : x <= y
  <2>. HIDE DEF T
  <2>. QED
    BY <1>1, <1>2, MinIs
<1>4. x \in Nat /\ ~ \E f : Flattened(f, q, x)
  BY <1>3
<1>5. CASE x = 0
  <2>1. [j \in 1 .. x |-> q[j]] = [j \in 1 .. x |-> IF j = 1 THEN q[j] ELSE [k \in 1 .. x |-> q[k]][j - 1] \o q[j]]
    BY <1>5
  <2>. QED
    BY <2>1, <1>4 DEF Flattened
<1>6. CASE x # 0
  <2>1. x - 1 \in Nat /\ ~ (x <= x - 1)
    BY <1>4, <1>6
  <2>2. x - 1 \notin T
    <3>. HIDE DEF T
    <3>. QED
      BY <1>3, <2>1
  <2>3. PICK f : Flattened(f, q, x - 1)
    BY <2>1, <2>2
  <2>. DEFINE g == [j \in 1 .. x |-> IF j = 1 THEN q[j] ELSE IF j = x THEN f[x - 1] \o q[x] ELSE f[j]]
  <2>4. ASSUME NEW j \in 1 .. x
        PROVE  g[j] = IF j = 1 THEN q[j] ELSE g[j - 1] \o q[j]
    <3>1. CASE j = 1
      BY <3>1
    <3>2. CASE j # 1
      <4>1. j - 1 \in 1 .. (x - 1) /\ j - 1 \in 1 .. x /\ j - 1 # x /\ x - 1 \in Nat \ {0}
        BY <1>4, <3>2
      <4>2. f[1] = q[1] /\ \A l \in 2 .. (x - 1) : f[l] = f[l - 1] \o q[l]
        BY <2>3, <4>1, FlattenedIs
      <4>3. g[j - 1] = f[j - 1]
        BY <4>1, <4>2
      <4>4. CASE j = x
        BY <3>2, <4>3, <4>4
      <4>5. CASE j # x
        <5>1. j \in 2 .. (x - 1)
          BY <4>5, <3>2, <1>4
        <5>. QED
          BY <5>1, <4>2, <4>3, <3>2, <4>5
      <4>. QED
        BY <4>4, <4>5
    <3>. QED
      BY <3>1, <3>2
  <2>5. g = [j \in 1 .. x |-> g[j]]
    OBVIOUS
  <2>. HIDE DEF g
  <2>6. Flattened(g, q, x)
    BY <2>4, <2>5 DEF Flattened
  <2>. QED
    BY <2>6, <1>4
<1>. QED
  BY <1>5, <1>6

(* Equal blocks make equal texts.                                          *)
LEMMA SameFlattened ==
    ASSUME NEW m \in Nat \ {0}, NEW q, NEW r, NEW f, Flattened(f, q, m),
           NEW u \in Nat \ {0}, m <= u, NEW g, Flattened(g, r, u),
           \A j \in 1 .. m : q[j] = r[j]
    PROVE  g[m] = f[m]
<1>5. f[1] = q[1] /\ \A j \in 2 .. m : f[j] = f[j - 1] \o q[j]
  <2>1. m \in Nat \ {0} /\ Flattened(f, q, m)
    OBVIOUS
  <2>. QED
    BY ONLY <2>1, FlattenedIs, Zenon
<1>6. g[1] = r[1] /\ \A j \in 2 .. u : g[j] = g[j - 1] \o r[j]
  <2>1. u \in Nat \ {0} /\ Flattened(g, r, u)
    OBVIOUS
  <2>. QED
    BY ONLY <2>1, FlattenedIs, Zenon
<1>. DEFINE T == {x \in 1 .. m : g[x] # f[x]}
<1>1. SUFFICES ASSUME T # {} PROVE FALSE
  OBVIOUS
<1>2. T \subseteq Nat
  OBVIOUS
<1>3. PICK x \in T : \A y \in T : x <= y
  <2>. HIDE DEF T
  <2>. QED
    BY <1>1, <1>2, MinIs
<1>4. x \in 1 .. m /\ g[x] # f[x]
  BY <1>3
<1>7. CASE x = 1
  BY <1>4, <1>5, <1>6, <1>7
<1>8. CASE x # 1
  <2>1. x - 1 \in 1 .. m /\ ~ (x <= x - 1) /\ x \in 2 .. m /\ x \in 2 .. u
    BY <1>4, <1>8
  <2>2. x - 1 \notin T
    <3>. HIDE DEF T
    <3>. QED
      BY <1>3, <2>1
  <2>3. g[x - 1] = f[x - 1]
    BY <2>1, <2>2
  <2>4. f[x] = f[x - 1] \o q[x] /\ g[x] = g[x - 1] \o r[x]
    BY <2>1, <1>5, <1>6, Zenon
  <2>5. q[x] = r[x]
    BY <1>4, Zenon
  <2>. QED
    BY <2>3, <2>4, <2>5, <1>4, Zenon
<1>. QED
  BY <1>7, <1>8

LEMMA FlattenIs ==
    ASSUME NEW q, Len(q) \in Nat \ {0}
    PROVE  \E f : Flattened(f, q, Len(q)) /\ FlattenSeq(q) = f[Len(q)]
<1>. DEFINE h == CHOOSE f : Flattened(f, q, Len(q))
<1>1. FlattenSeq(q) = h[Len(q)]
  BY DEF FlattenSeq, Flattened
<1>2. Flattened(h, q, Len(q))
  BY SomeFlattened
<1>. HIDE DEF h
<1>. QED
  BY <1>1, <1>2

(* A block more makes the text longer by the block.                        *)
LEMMA FlattenAppend ==
    ASSUME NEW X, NEW q \in Seq(Seq(X)), NEW b \in Seq(X)
    PROVE  FlattenSeq(Append(q, b)) = FlattenSeq(q) \o b
<1>. DEFINE m == Len(q)
            r == Append(q, b)
<1>1. m \in Nat /\ Len(r) = m + 1 /\ r[m + 1] = b /\ \A j \in 1 .. m : r[j] = q[j]
  <2>. DEFINE Y == Seq(X)
  <2>1. q \in Seq(Y) /\ b \in Y
    OBVIOUS
  <2>. HIDE DEF Y
  <2>. QED
    BY <2>1
<1>. HIDE DEF m, r
<1>2. PICK g : Flattened(g, r, m + 1) /\ FlattenSeq(r) = g[m + 1]
  <2>1. Len(r) \in Nat \ {0}
    BY <1>1
  <2>2. \E g : Flattened(g, r, Len(r)) /\ FlattenSeq(r) = g[Len(r)]
    BY <2>1, FlattenIs, Zenon
  <2>. QED
    BY <1>1, <2>2, Zenon
<1>3. g[1] = r[1] /\ \A j \in 2 .. (m + 1) : g[j] = g[j - 1] \o r[j]
  <2>1. m + 1 \in Nat \ {0}
    BY <1>1
  <2>. QED
    BY <2>1, <1>2, FlattenedIs, Zenon
<1>4. CASE m = 0
  <2>1. q = <<>> /\ FlattenSeq(q) = q
    BY <1>4, EmptySeq DEF m, FlattenSeq
  <2>2. FlattenSeq(r) = b
    BY <1>1, <1>2, <1>3, <1>4
  <2>3. <<>> \o b = b
    OBVIOUS
  <2>. QED
    BY <2>1, <2>2, <2>3 DEF r
<1>5. CASE m # 0
  <2>1. m \in Nat \ {0} /\ m + 1 \in 2 .. (m + 1) /\ (m + 1) - 1 = m /\ m <= m + 1 /\ m + 1 \in Nat \ {0}
    BY <1>1, <1>5
  <2>2. PICK f : Flattened(f, q, m) /\ FlattenSeq(q) = f[m]
    BY <2>1, FlattenIs DEF m
  <2>3. g[m] = f[m]
    BY <1>1, <1>2, <2>1, <2>2, SameFlattened
  <2>4. g[m + 1] = g[m] \o r[m + 1]
    BY <1>3, <2>1
  <2>. QED
    BY <1>1, <1>2, <2>2, <2>3, <2>4 DEF r
<1>. QED
  BY <1>4, <1>5

LEMMA FlattenType == ASSUME NEW X, NEW q \in Seq(Seq(X)) PROVE FlattenSeq(q) \in Seq(X)
<1>. DEFINE m == Len(q)
<1>1. m \in Nat /\ \A j \in 1 .. m : q[j] \in Seq(X)
  OBVIOUS
<1>2. CASE m = 0
  BY <1>2, EmptySeq DEF FlattenSeq
<1>3. CASE m # 0
  <2>1. m \in Nat \ {0}
    BY <1>1, <1>3
  <2>2. PICK f : Flattened(f, q, m) /\ FlattenSeq(q) = f[m]
    BY <2>1, FlattenIs
  <2>3. f[1] = q[1] /\ \A j \in 2 .. m : f[j] = f[j - 1] \o q[j]
    BY <2>1, <2>2, FlattenedIs
  <2>. HIDE DEF m
  <2>. DEFINE T == {x \in 1 .. m : f[x] \notin Seq(X)}
  <2>4. ASSUME T # {} PROVE FALSE
    <3>1. T \subseteq Nat
      BY <1>1
    <3>2. PICK x \in T : \A y \in T : x <= y
      <4>. HIDE DEF T
      <4>. QED
        BY <2>4, <3>1, MinIs
    <3>3. x \in 1 .. m /\ f[x] \notin Seq(X)
      BY <3>2
    <3>4. x # 1
      BY <3>3, <2>3, <1>1
    <3>5. x - 1 \in 1 .. m /\ ~ (x <= x - 1) /\ x \in 2 .. m
      BY <3>3, <3>4, <1>1
    <3>6. x - 1 \notin T
      <4>. HIDE DEF T
      <4>. QED
        BY <3>2, <3>5
    <3>7. f[x - 1] \in Seq(X)
      BY <3>5, <3>6
    <3>8. f[x] = f[x - 1] \o q[x] /\ q[x] \in Seq(X)
      BY <3>3, <3>5, <2>3, <1>1
    <3>9. f[x - 1] \o q[x] \in Seq(X)
      BY <3>7, <3>8
    <3>. QED
      BY <3>3, <3>8, <3>9
  <2>. QED
    BY <2>1, <2>2, <2>4
<1>. QED
  BY <1>2, <1>3

Fed(z, m) == [k \in 1 .. m |-> ImageByte(z - k)]

FedNext(w, a, c) == [k \in 1 .. c |-> ImageByte((w - a) - k)]

LEMMA FedMore ==
    ASSUME NEW w \in Nat, NEW a \in Nat, NEW c \in Nat, a + c <= w
    PROVE  /\ Fed(w, a) \in Seq(Nat) /\ FedNext(w, a, c) \in Seq(Nat)
           /\ Fed(w, a) \o FedNext(w, a, c) = Fed(w, a + c)
<1>. DEFINE x == Fed(w, a)
            y == FedNext(w, a, c)
            z == Fed(w, a + c)
<1>1. Byte \in Nat
  BY SignatureAssumption DEF SignatureAssumption
<1>2. x \in Seq(Nat) /\ Len(x) = a /\ \A k \in 1 .. a : x[k] = ImageByte(w - k)
  <2>1. \A k \in 1 .. a : ImageByte(w - k) \in Nat
    BY <1>1 DEF ImageByte
  <2>. QED
    BY <2>1 DEF Fed
<1>3. y \in Seq(Nat) /\ Len(y) = c /\ \A k \in 1 .. c : y[k] = ImageByte((w - a) - k)
  <2>1. \A k \in 1 .. c : ImageByte((w - a) - k) \in Nat
    BY <1>1 DEF ImageByte
  <2>. QED
    BY <2>1 DEF FedNext
<1>4. z \in Seq(Nat) /\ Len(z) = a + c /\ \A k \in 1 .. (a + c) : z[k] = ImageByte(w - k)
  <2>1. \A k \in 1 .. (a + c) : ImageByte(w - k) \in Nat
    BY <1>1 DEF ImageByte
  <2>. QED
    BY <2>1 DEF Fed
<1>. HIDE DEF x, y, z
<1>5. /\ x \o y \in Seq(Nat) /\ Len(x \o y) = a + c
      /\ \A k \in 1 .. (a + c) : (x \o y)[k] = IF k <= a THEN x[k] ELSE y[k - a]
  <2>1. /\ x \o y \in Seq(Nat) /\ Len(x \o y) = Len(x) + Len(y)
        /\ \A k \in 1 .. (Len(x) + Len(y)) : (x \o y)[k] = IF k <= Len(x) THEN x[k] ELSE y[k - Len(x)]
    BY <1>2, <1>3, ConcatProperties
  <2>. QED
    BY <2>1, <1>2, <1>3
<1>6. ASSUME NEW k \in 1 .. (a + c)
      PROVE  (x \o y)[k] = z[k]
  <2>1. CASE k <= a
    <3>1. k \in 1 .. a
      BY <2>1
    <3>. QED
      BY <2>1, <3>1, <1>2, <1>4, <1>5
  <2>2. CASE k > a
    <3>1. k - a \in 1 .. c /\ (w - a) - (k - a) = w - k /\ ~ (k <= a)
      BY <2>2
    <3>. QED
      BY <3>1, <1>3, <1>4, <1>5
  <2>3. k <= a \/ k > a
    OBVIOUS
  <2>. QED
    BY <2>1, <2>2, <2>3
<1>7. x \o y = z
  BY <1>4, <1>5, <1>6, SeqEqual
<1>. QED
  BY <1>2, <1>3, <1>7, Zenon DEF x, y, z

(* What has been taken of the image is in the blocks and the buffer.       *)
Feeding ==
    /\ size \in Nat /\ left \in 0 .. size
    /\ hashed \in Seq(Seq(Nat)) /\ \A k \in 1 .. Len(hashed) : Len(hashed[k]) = Block
    /\ buffer \in Seq(Nat) /\ Len(buffer) < Block
    /\ Len(hashed) * Block + Len(buffer) = size - left
    /\ FlattenSeq(hashed) \o buffer = Fed(size, size - left)

LEMMA UpdateFeeds == ASSUME Feeding, Update PROVE Feeding'
<1>. DEFINE copy == Min({Block - Len(buffer), left})
            piece == [k \in 1 .. copy |-> ImageByte(left - k)]
            b == buffer \o piece
            text == FlattenSeq(hashed)
<1>1. /\ left > 0 /\ left' = left - copy /\ size' = size
      /\ IF Len(b) = Block THEN hashed' = Append(hashed, b) /\ buffer' = <<>>
                           ELSE hashed' = hashed /\ buffer' = b
  BY DEF Update
<1>2. /\ size \in Nat /\ left \in Nat /\ left <= size
      /\ Len(buffer) \in Nat /\ Len(buffer) < Block /\ Block \in Nat
      /\ hashed \in Seq(Seq(Nat)) /\ buffer \in Seq(Nat)
  BY SignatureAssumption DEF Feeding, SignatureAssumption
<1>3. copy \in Nat /\ copy > 0 /\ copy <= left /\ copy <= Block - Len(buffer)
  <2>. DEFINE T == {Block - Len(buffer), left}
  <2>1. T \subseteq Nat /\ T # {}
    BY <1>2
  <2>2. Min(T) \in T /\ \A y \in T : Min(T) <= y
    <3>. HIDE DEF T
    <3>. QED
      BY <2>1, MinIs
  <2>. QED
    BY <2>1, <2>2, <1>1, <1>2
<1>. HIDE DEF copy
<1>4. piece \in Seq(Nat) /\ Len(piece) = copy /\ Fed(size, size - left) \o piece = Fed(size, size - left')
  <2>1. size - left \in Nat /\ (size - left) + copy <= size /\ size - (size - left) = left
        /\ (size - left) + copy = size - left'
    BY <1>1, <1>2, <1>3
  <2>2. piece = FedNext(size, size - left, copy)
    BY <2>1 DEF FedNext
  <2>3. piece \in Seq(Nat) /\ Fed(size, size - left) \o piece = Fed(size, (size - left) + copy)
    <3>1. size \in Nat /\ size - left \in Nat /\ copy \in Nat /\ (size - left) + copy <= size
      BY <2>1, <1>2, <1>3
    <3>. DEFINE a == size - left
                c == copy
    <3>. HIDE DEF a
    <3>2. Fed(size, a) \o FedNext(size, a, c) = Fed(size, a + c) /\ FedNext(size, a, c) \in Seq(Nat)
      BY <3>1, FedMore DEF a
    <3>. QED
      BY <2>2, <3>2, Zenon DEF a
  <2>4. Len(piece) = copy
    BY <1>3
  <2>. QED
    BY <2>1, <2>3, <2>4
<1>5. text \in Seq(Nat)
  BY <1>2, FlattenType
<1>. HIDE DEF piece, text
<1>6. b \in Seq(Nat) /\ Len(b) = Len(buffer) + copy
  BY <1>2, <1>4, ConcatProperties
<1>7. text \o b = Fed(size, size - left')
  <2>1. (text \o buffer) \o piece = text \o b
    <3>1. text \in Seq(Nat) /\ buffer \in Seq(Nat) /\ piece \in Seq(Nat)
      BY <1>2, <1>4, <1>5
    <3>. QED
      <4>1. Regroups(text, buffer, piece)
        BY <3>1, Regrouped
      <4>. QED
        BY <4>1, Zenon DEF Regroups, b
  <2>2. text \o buffer = Fed(size, size - left)
    BY DEF Feeding, text
  <2>. QED
    BY <2>1, <2>2, <1>4
<1>. HIDE DEF b
<1>8. size' \in Nat /\ left' \in 0 .. size' /\ Fed(size', size' - left') = Fed(size, size - left')
  <2>1. size' = size
    BY <1>1
  <2>2. size \in Nat /\ left' \in 0 .. size
    BY <1>1, <1>2, <1>3
  <2>. QED
    BY <2>1, <2>2
<1>9. Len(hashed) \in Nat /\ Len(hashed) * Block \in Nat
  BY <1>2
<1>10. Len(hashed) * Block + Len(b) = size' - left'
  <2>. DEFINE h == Len(hashed) * Block
              l == Len(buffer)
              m == Len(b)
  <2>1. h + l = size - left /\ h \in Nat /\ l \in Nat /\ m = l + copy
    BY <1>2, <1>6, <1>9 DEF Feeding
  <2>. HIDE DEF h, l, m
  <2>2. h + m = size' - left'
    BY <2>1, <1>1, <1>2, <1>3
  <2>. QED
    BY <2>2 DEF h, m
<1>11. CASE Len(b) = Block
  <2>1. hashed' = Append(hashed, b) /\ buffer' = <<>>
    BY <1>1, <1>11
  <2>2. hashed' \in Seq(Seq(Nat)) /\ Len(hashed') = Len(hashed) + 1
        /\ \A k \in 1 .. (Len(hashed) + 1) : hashed'[k] = IF k = Len(hashed) + 1 THEN b ELSE hashed[k]
    BY <2>1, <1>2, <1>6
  <2>3. \A k \in 1 .. Len(hashed) : Len(hashed[k]) = Block
    BY DEF Feeding
  <2>4. \A k \in 1 .. Len(hashed') : Len(hashed'[k]) = Block
    <3>. SUFFICES ASSUME NEW k \in 1 .. (Len(hashed) + 1)
                  PROVE  Len(hashed'[k]) = Block
      BY <2>2, Zenon
    <3>1. CASE k = Len(hashed) + 1
      BY <3>1, <2>2, <1>11, Zenon
    <3>2. CASE k # Len(hashed) + 1
      <4>1. k \in 1 .. Len(hashed)
        BY <3>2, <1>9
      <4>. QED
        BY <3>2, <4>1, <2>2, <2>3, Zenon
    <3>. QED
      BY <3>1, <3>2, Zenon
  <2>5. FlattenSeq(hashed') = text \o b
    BY <2>1, <1>2, <1>6, FlattenAppend DEF text
  <2>6. text \o b \in Seq(Nat)
    BY <1>5, <1>6
  <2>7. FlattenSeq(hashed') \o buffer' = Fed(size', size' - left')
    BY <2>1, <2>5, <2>6, <1>7, <1>8
  <2>8. Len(hashed') * Block + Len(buffer') = size' - left'
    <3>1. (Len(hashed) + 1) * Block = Len(hashed) * Block + Block
      BY <1>2, <1>9
    <3>2. Len(buffer') = 0
      BY <2>1
    <3>. QED
      BY <3>1, <3>2, <2>2, <1>2, <1>9, <1>10, <1>11
  <2>9. buffer' \in Seq(Nat) /\ Len(buffer') < Block
    <3>1. buffer' \in Seq(Nat) /\ Len(buffer') = 0
      BY <2>1
    <3>. QED
      BY <3>1, <1>2
  <2>. QED
    BY <2>2, <2>4, <2>7, <2>8, <2>9, <1>8, Zenon DEF Feeding
<1>12. CASE Len(b) # Block
  <2>1. hashed' = hashed /\ buffer' = b
    BY <1>1, <1>12
  <2>2. buffer' \in Seq(Nat) /\ Len(buffer') < Block
    <3>1. b \in Seq(Nat) /\ Len(b) < Block
      <4>. DEFINE m == Len(b)
                  l == Len(buffer)
      <4>1. m = l + copy /\ m # Block /\ l \in Nat /\ l < Block
        BY <1>2, <1>6, <1>12
      <4>. HIDE DEF m, l
      <4>2. copy <= Block - l
        BY <1>3 DEF l
      <4>3. m < Block
        BY <4>1, <4>2, <1>2, <1>3
      <4>. QED
        BY <4>3, <1>6 DEF m
    <3>. QED
      BY <3>1, <2>1, Zenon
  <2>3. FlattenSeq(hashed') \o buffer' = Fed(size', size' - left')
    BY <2>1, <1>7, <1>8 DEF text
  <2>4. hashed' \in Seq(Seq(Nat)) /\ \A k \in 1 .. Len(hashed') : Len(hashed'[k]) = Block
    BY <2>1 DEF Feeding
  <2>5. Len(hashed') * Block + Len(buffer') = size' - left'
    BY <2>1, <1>10
  <2>. QED
    BY <2>2, <2>3, <2>4, <2>5, <1>8, Zenon DEF Feeding
<1>. QED
  BY <1>11, <1>12

(* The padding of a message, by the number of its zeros.                   *)
Ending(z, t) == (<<Byte \div 2>> \o Zeros(z)) \o LengthBytes(t)

LEMMA ZerosAre ==
    ASSUME NEW m \in Nat
    PROVE  Zeros(m) \in Seq(Nat) /\ Len(Zeros(m)) = m /\ \A k \in 1 .. m : Zeros(m)[k] = 0
  BY DEF Zeros

LEMMA ZerosAdd ==
    ASSUME NEW a \in Nat, NEW c \in Nat
    PROVE  Zeros(a) \o Zeros(c) = Zeros(a + c)
<1>. DEFINE x == Zeros(a)
            y == Zeros(c)
            z == Zeros(a + c)
<1>1. x \in Seq(Nat) /\ Len(x) = a /\ \A k \in 1 .. a : x[k] = 0
  BY ZerosAre
<1>2. y \in Seq(Nat) /\ Len(y) = c /\ \A k \in 1 .. c : y[k] = 0
  BY ZerosAre
<1>3. z \in Seq(Nat) /\ Len(z) = a + c /\ \A k \in 1 .. (a + c) : z[k] = 0
  <2>1. a + c \in Nat
    OBVIOUS
  <2>. QED
    BY <2>1, ZerosAre
<1>. HIDE DEF x, y, z
<1>4. /\ x \o y \in Seq(Nat) /\ Len(x \o y) = a + c
      /\ \A k \in 1 .. (a + c) : (x \o y)[k] = IF k <= a THEN x[k] ELSE y[k - a]
  <2>1. /\ x \o y \in Seq(Nat) /\ Len(x \o y) = Len(x) + Len(y)
        /\ \A k \in 1 .. (Len(x) + Len(y)) : (x \o y)[k] = IF k <= Len(x) THEN x[k] ELSE y[k - Len(x)]
    BY <1>1, <1>2, ConcatProperties
  <2>. QED
    BY <2>1, <1>1, <1>2
<1>5. ASSUME NEW k \in 1 .. (a + c)
      PROVE  (x \o y)[k] = z[k]
  <2>1. CASE k <= a
    <3>1. k \in 1 .. a
      BY <2>1
    <3>. QED
      BY <2>1, <3>1, <1>1, <1>3, <1>4
  <2>2. CASE k > a
    <3>1. k - a \in 1 .. c /\ ~ (k <= a)
      BY <2>2
    <3>. QED
      BY <3>1, <1>2, <1>3, <1>4
  <2>3. k <= a \/ k > a
    OBVIOUS
  <2>. QED
    BY <2>1, <2>2, <2>3
<1>6. x \o y = z
  BY <1>3, <1>4, <1>5, SeqEqual
<1>. QED
  BY <1>6, Zenon DEF x, y, z

(* The blocks that end a message are its rest and its padding, which is as *)
(* long as makes the last of them whole.                                   *)
Ends(X, b, t, z) ==
    /\ Ending(z, t) \in Seq(X)
    /\ \/ \E u \in Seq(X) :
            /\ Pad(b, t) = <<u>> /\ Len(u) = Block /\ u = b \o Ending(z, t)
            /\ Len(b) + 1 + z + LenBytes = Block
       \/ \E u, v \in Seq(X) :
            /\ Pad(b, t) = <<u, v>> /\ Len(u) = Block /\ Len(v) = Block
            /\ u \o v = b \o Ending(z, t)
            /\ Len(b) + 1 + z + LenBytes = Block + Block

LEMMA PadIs ==
    ASSUME NEW X, Nat \subseteq X, NEW b \in Seq(X), Len(b) < Block,
           NEW t, LengthBytes(t) \in Seq(X), Len(LengthBytes(t)) = LenBytes
    PROVE  \E z \in 0 .. (Block - 1) : Ends(X, b, t, z)
<1>. DEFINE mark == <<Byte \div 2>>
            marked == Append(b, Byte \div 2)
            room == Block - LenBytes
            lb == LengthBytes(t)
            m == Len(b)
<1>1. Byte \in Nat /\ Block \in Nat /\ LenBytes \in Nat \ {0} /\ LenBytes < Block
  BY SignatureAssumption DEF SignatureAssumption
<1>2. mark \in Seq(X) /\ Len(mark) = 1 /\ marked = b \o mark /\ marked \in Seq(X) /\ Len(marked) = m + 1
  <2>1. Byte \div 2 \in X
    BY <1>1
  <2>. QED
    BY <2>1
<1>3. m \in Nat /\ m < Block /\ lb \in Seq(X) /\ Len(lb) = LenBytes
  OBVIOUS
<1>4. \A n1 \in Nat : Zeros(n1) \in Seq(X) /\ Len(Zeros(n1)) = n1
  <2>. SUFFICES ASSUME NEW n1 \in Nat
                PROVE  Zeros(n1) \in Seq(X) /\ Len(Zeros(n1)) = n1
    OBVIOUS
  <2>1. 0 \in X
    OBVIOUS
  <2>. QED
    BY <2>1 DEF Zeros
<1>5. Pad(b, t) = IF Len(marked) > room
                    THEN <<marked \o Zeros(Block - Len(marked)), Zeros(room) \o lb>>
                    ELSE <<marked \o Zeros(room - Len(marked)) \o lb>>
  BY Zenon DEF Pad
<1>. HIDE DEF mark, marked, lb, m
<1>6. ASSUME NEW z \in Nat
      PROVE  /\ Ending(z, t) \in Seq(X) /\ (marked \o Zeros(z)) \o lb = b \o Ending(z, t)
             /\ marked \o Zeros(z) \in Seq(X) /\ Len(marked \o Zeros(z)) = m + 1 + z
             /\ (marked \o Zeros(z)) \o lb \in Seq(X)
             /\ Len((marked \o Zeros(z)) \o lb) = m + 1 + z + LenBytes
  <2>. DEFINE zs == Zeros(z)
  <2>1. zs \in Seq(X) /\ Len(zs) = z
    BY <1>4
  <2>2. Ending(z, t) = (mark \o zs) \o lb
    BY Zenon DEF Ending, mark, lb
  <2>. HIDE DEF zs
  <2>3. mark \o zs \in Seq(X) /\ (mark \o zs) \o lb \in Seq(X)
    BY <1>2, <1>3, <2>1
  <2>4. (b \o mark) \o zs = b \o (mark \o zs)
    <3>1. Regroups(b, mark, zs)
      BY <1>2, <2>1, Regrouped
    <3>. QED
      BY <3>1, Zenon DEF Regroups
  <2>5. (b \o (mark \o zs)) \o lb = b \o ((mark \o zs) \o lb)
    <3>. DEFINE w == mark \o zs
    <3>1. w \in Seq(X) /\ b \in Seq(X) /\ lb \in Seq(X)
      BY <1>3, <2>3
    <3>. HIDE DEF w
    <3>2. (b \o w) \o lb = b \o (w \o lb)
      <4>1. Regroups(b, w, lb)
        BY <3>1, Regrouped
      <4>. QED
        BY <4>1, Zenon DEF Regroups
    <3>. QED
      BY <3>2 DEF w
  <2>6. marked \o zs \in Seq(X) /\ Len(marked \o zs) = m + 1 + z
    <3>1. marked \o zs \in Seq(X) /\ Len(marked \o zs) = Len(marked) + Len(zs)
      BY <1>2, <2>1, ConcatProperties
    <3>. QED
      BY <3>1, <1>2, <1>3, <2>1
  <2>7. (marked \o zs) \o lb \in Seq(X) /\ Len((marked \o zs) \o lb) = m + 1 + z + LenBytes
    <3>1. \A w \in Seq(X) : w \o lb \in Seq(X) /\ Len(w \o lb) = Len(w) + LenBytes
      BY <1>3, ConcatProperties
    <3>. QED
      BY <2>6, <3>1
  <2>. QED
    BY <1>2, <2>2, <2>3, <2>4, <2>5, <2>6, <2>7, Zenon DEF zs
<1>7. CASE m + 1 <= room
  <2>. DEFINE z == room - (m + 1)
  <2>1. z \in 0 .. (Block - 1) /\ z \in Nat /\ m + 1 + z + LenBytes = Block /\ ~ (m + 1 > room)
    BY <1>1, <1>3, <1>7
  <2>2. Pad(b, t) = <<(marked \o Zeros(z)) \o lb>>
    BY <2>1, <1>2, <1>5, Zenon
  <2>. HIDE DEF z
  <2>. QED
    BY <2>1, <2>2, <1>6, Zenon DEF m, Ends
<1>8. CASE m + 1 > room
  <2>. DEFINE y == Block - (m + 1)
              z == y + room
              u == marked \o Zeros(y)
              v == Zeros(room) \o lb
  <2>1. y \in Nat /\ room \in Nat /\ z \in Nat /\ z \in 0 .. (Block - 1)
        /\ m + 1 + z + LenBytes = Block + Block /\ m + 1 + y = Block /\ room + LenBytes = Block
    BY <1>1, <1>3, <1>8
  <2>2. Pad(b, t) = <<u, v>>
    BY <1>2, <1>5, <1>8, Zenon
  <2>3. Zeros(y) \o Zeros(room) = Zeros(z)
    BY <2>1, ZerosAdd
  <2>. HIDE DEF y, z
  <2>4. u \in Seq(X) /\ Len(u) = Block
    BY <2>1, <1>6
  <2>5. Zeros(room) \in Seq(X) /\ Len(Zeros(room)) = room
    BY <2>1, <1>4
  <2>. HIDE DEF room
  <2>6. v \in Seq(X) /\ Len(v) = Block
    <3>1. v \in Seq(X) /\ Len(v) = Len(Zeros(room)) + Len(lb)
      BY <2>5, <1>3, ConcatProperties
    <3>. QED
      BY <3>1, <2>1, <2>5, <1>3
  <2>7. u \o v = b \o Ending(z, t)
    <3>. DEFINE zy == Zeros(y)
                zr == Zeros(room)
    <3>1. zy \in Seq(X)
      BY <2>1, <1>4
    <3>2. zr \in Seq(X)
      BY <2>5
    <3>3. zy \o zr = Zeros(z)
      BY <2>3
    <3>. HIDE DEF zy, zr
    <3>4. marked \o zy \in Seq(X) /\ zy \o zr \in Seq(X)
      BY <3>1, <3>2, <1>2
    <3>5. (marked \o zy) \o (zr \o lb) = ((marked \o zy) \o zr) \o lb
      <4>. DEFINE w == marked \o zy
      <4>1. w \in Seq(X) /\ zr \in Seq(X) /\ lb \in Seq(X)
        BY <3>2, <3>4, <1>3
      <4>. HIDE DEF w
      <4>2. w \o (zr \o lb) = (w \o zr) \o lb
        <5>1. Regroups(w, zr, lb)
          BY <4>1, Regrouped
        <5>. QED
          BY <5>1, Zenon DEF Regroups
      <4>. QED
        BY <4>2 DEF w
    <3>6. (marked \o zy) \o zr = marked \o (zy \o zr)
      <4>1. Regroups(marked, zy, zr)
        BY <3>1, <3>2, <1>2, Regrouped
      <4>. QED
        BY <4>1, Zenon DEF Regroups
    <3>. QED
      BY <3>3, <3>5, <3>6, <2>1, <1>6, Zenon DEF zy, zr
  <2>. HIDE DEF u, v
  <2>8. Ending(z, t) \in Seq(X)
    BY <2>1, <1>6
  <2>9. Len(b) + 1 + z + LenBytes = Block + Block
    BY <2>1 DEF m
  <2>. QED
    BY <2>1, <2>2, <2>4, <2>6, <2>7, <2>8, <2>9, Zenon DEF Ends
<1>9. m + 1 <= room \/ m + 1 > room
  BY <1>1, <1>3
<1>. QED
  BY <1>7, <1>8, <1>9, Zenon

LEMMA Multiple == ASSUME NEW d \in Nat \ {0}, NEW q \in Nat PROVE (q * d) % d = 0
OBVIOUS

LEMMA OneRemainder ==
    ASSUME NEW d \in Nat \ {0}, NEW w \in Nat, NEW z \in 0 .. (d - 1), NEW q \in Nat, w + z = q * d
    PROVE  /\ (w + z) % d = 0
           /\ \A y \in 0 .. (d - 1) : (w + y) % d = 0 => y = z
<1>1. (q * d) % d = 0
  BY Multiple
<1>2. ASSUME NEW y \in 0 .. (d - 1), (w + y) % d = 0
      PROVE  y = z
  <2>1. PICK p \in Nat : w + y = p * d
    <3>1. w + y \in Nat /\ (w + y) \div d \in Nat
      OBVIOUS
    <3>2. w + y = ((w + y) \div d) * d + ((w + y) % d)
      OBVIOUS
    <3>. DEFINE p0 == (w + y) \div d
    <3>3. (w + y) % d = 0
      BY <1>2
    <3>. HIDE DEF p0
    <3>4. p0 * d \in Nat
      BY <3>1 DEF p0
    <3>5. w + y = p0 * d
      BY <3>1, <3>2, <3>3, <3>4 DEF p0
    <3>. QED
      BY <3>1, <3>5 DEF p0
  <2>2. ~ (p > q)
    <3>. SUFFICES ASSUME p > q
                  PROVE  FALSE
      OBVIOUS
    <3>1. p * d >= (q + 1) * d /\ (q + 1) * d = q * d + d
      OBVIOUS
    <3>2. p * d \in Nat /\ q * d \in Nat
      OBVIOUS
    <3>. QED
      BY <3>1, <3>2, <2>1
  <2>3. ~ (q > p)
    <3>. SUFFICES ASSUME q > p
                  PROVE  FALSE
      OBVIOUS
    <3>1. q * d >= (p + 1) * d /\ (p + 1) * d = p * d + d
      OBVIOUS
    <3>2. p * d \in Nat /\ q * d \in Nat
      OBVIOUS
    <3>. QED
      BY <3>1, <3>2, <2>1
  <2>4. p = q
    BY <2>2, <2>3
  <2>. QED
    BY <2>1, <2>4
<1>. QED
  BY <1>1, <1>2

LEMMA FinalPads == ASSUME Feeding, Final PROVE HashesThePaddedImage'
<1>. DEFINE t == size * BitsPerByte
            lb == LengthBytes(t)
            X == Nat \cup {lb[k] : k \in 1 .. LenBytes}
            image == Fed(size, size)
            text == FlattenSeq(hashed)
            count == Len(hashed) * Block
<1>1. /\ size \in Nat /\ Block \in Nat \ {0} /\ LenBytes \in Nat \ {0}
      /\ hashed \in Seq(Seq(Nat)) /\ buffer \in Seq(Nat)
      /\ Len(buffer) < Block /\ Len(buffer) \in Nat /\ Len(hashed) \in Nat /\ count \in Nat
  <2>1. /\ size \in Nat /\ Block \in Nat \ {0} /\ LenBytes \in Nat \ {0}
        /\ hashed \in Seq(Seq(Nat)) /\ buffer \in Seq(Nat) /\ Len(buffer) < Block
    BY SignatureAssumption DEF Feeding, SignatureAssumption
  <2>2. Len(buffer) \in Nat /\ Len(hashed) \in Nat
    BY <2>1
  <2>3. count \in Nat
    BY <2>1, <2>2
  <2>. QED
    BY <2>1, <2>2, <2>3, Zenon
<1>2. left = 0 /\ size' = size /\ hashed' = hashed \o Pad(buffer, (count + Len(buffer)) * BitsPerByte)
  BY DEF Final
<1>3. size - left = size
  BY <1>1, <1>2
<1>4. text \o buffer = image /\ count + Len(buffer) = size
  BY <1>3 DEF Feeding
<1>5. Nat \subseteq X /\ lb \in Seq(X) /\ Len(lb) = LenBytes
  <2>1. lb = [k \in 1 .. LenBytes |-> lb[k]]
    BY DEF LengthBytes
  <2>. HIDE DEF lb
  <2>2. lb \in [1 .. LenBytes -> X]
    BY <2>1
  <2>. HIDE DEF X
  <2>3. lb \in Seq(X) /\ Len(lb) = LenBytes
    BY <2>2, <1>1
  <2>4. Nat \subseteq X
    BY DEF X
  <2>. QED
    BY <2>3, <2>4
<1>. HIDE DEF lb, X, t
<1>6. buffer \in Seq(X) /\ hashed \in Seq(Seq(X))
  <2>1. \A w \in Seq(Nat) : w \in Seq(X)
    BY <1>5
  <2>2. hashed \in [1 .. Len(hashed) -> Seq(Nat)]
    BY <1>1
  <2>3. hashed \in [1 .. Len(hashed) -> Seq(X)]
    BY <2>1, <2>2
  <2>. QED
    BY <1>1, <2>1, <2>3
<1>7. text \in Seq(X) /\ image \in Seq(X)
  <2>1. text \in Seq(X)
    BY <1>6, FlattenType
  <2>. HIDE DEF text, image
  <2>2. text \o buffer \in Seq(X)
    BY <2>1, <1>6
  <2>. QED
    BY <2>1, <2>2, <1>4, Zenon
<1>8. PICK z \in 0 .. (Block - 1) : Ends(X, buffer, t, z)
  <2>1. LengthBytes(t) \in Seq(X) /\ Len(LengthBytes(t)) = LenBytes
    BY <1>5 DEF lb
  <2>. QED
    <3>1. Nat \subseteq X /\ buffer \in Seq(X) /\ Len(buffer) < Block
      BY <1>1, <1>5, <1>6, Zenon
    <3>. QED
      BY <2>1, <3>1, PadIs, Zenon
<1>9. hashed' = hashed \o Pad(buffer, t)
  BY <1>2, <1>4 DEF t
<1>. HIDE DEF count
<1>10. \A k \in 1 .. Len(hashed) : Len(hashed[k]) = Block
  BY DEF Feeding
<1>11. /\ FlattenSeq(hashed') = text \o (buffer \o Ending(z, t))
       /\ \A k \in DOMAIN hashed' : Len(hashed'[k]) = Block
       /\ \E q \in Nat : size + 1 + z + LenBytes = q * Block
  <2>1. CASE \E u \in Seq(X) :
                     /\ Pad(buffer, t) = <<u>> /\ Len(u) = Block /\ u = buffer \o Ending(z, t)
                     /\ Len(buffer) + 1 + z + LenBytes = Block
    <3>1. PICK u \in Seq(X) :
                     /\ Pad(buffer, t) = <<u>> /\ Len(u) = Block /\ u = buffer \o Ending(z, t)
                     /\ Len(buffer) + 1 + z + LenBytes = Block
      BY <2>1, Zenon
    <3>2. hashed' = Append(hashed, u)
      <4>1. hashed' = hashed \o <<u>>
        BY <1>9, <3>1, Zenon
      <4>2. hashed \o <<u>> = Append(hashed, u)
        BY <1>6
      <4>. QED
        BY <4>1, <4>2, Zenon
    <3>3. FlattenSeq(hashed') = text \o u
      BY <3>2, <1>6, FlattenAppend, Zenon DEF text
    <3>4. \A k \in DOMAIN hashed' : Len(hashed'[k]) = Block
      <4>1. DOMAIN hashed' = 1 .. (Len(hashed) + 1)
            /\ \A k \in 1 .. (Len(hashed) + 1) : hashed'[k] = IF k <= Len(hashed) THEN hashed[k] ELSE u
        BY <3>2, <1>6
      <4>2. \A k \in 1 .. (Len(hashed) + 1) : k <= Len(hashed) => k \in 1 .. Len(hashed)
        BY <1>1
      <4>. QED
        BY <4>1, <4>2, <1>10, <3>1, Zenon
    <3>5. size + 1 + z + LenBytes = (Len(hashed) + 1) * Block
      <4>1. count + Block = (Len(hashed) + 1) * Block
        BY <1>1 DEF count
      <4>2. Len(buffer) + 1 + z + LenBytes = Block
        BY <3>1, Zenon
      <4>3. size + 1 + z + LenBytes = count + Block
        BY <4>2, <1>1, <1>4
      <4>. QED
        BY <4>1, <4>3, Zenon
    <3>6. Len(hashed) + 1 \in Nat
      BY <1>1
    <3>. QED
      BY <3>1, <3>3, <3>4, <3>5, <3>6, Zenon
  <2>2. CASE \E u, v \in Seq(X) :
                     /\ Pad(buffer, t) = <<u, v>> /\ Len(u) = Block /\ Len(v) = Block
                     /\ u \o v = buffer \o Ending(z, t)
                     /\ Len(buffer) + 1 + z + LenBytes = Block + Block
    <3>1. PICK u \in Seq(X), v \in Seq(X) :
                     /\ Pad(buffer, t) = <<u, v>> /\ Len(u) = Block /\ Len(v) = Block
                     /\ u \o v = buffer \o Ending(z, t)
                     /\ Len(buffer) + 1 + z + LenBytes = Block + Block
      BY <2>2, Zenon
    <3>. DEFINE one == Append(hashed, u)
    <3>2. hashed' = Append(one, v)
      <4>1. hashed' = hashed \o <<u, v>>
        BY <1>9, <3>1, Zenon
      <4>2. hashed \o <<u, v>> = Append(Append(hashed, u), v)
        BY <1>6
      <4>. QED
        BY <4>1, <4>2, Zenon
    <3>3. one \in Seq(Seq(X)) /\ Len(one) = Len(hashed) + 1
          /\ \A k \in 1 .. (Len(hashed) + 1) : one[k] = IF k <= Len(hashed) THEN hashed[k] ELSE u
      BY <1>6
    <3>. HIDE DEF one
    <3>4. FlattenSeq(hashed') = text \o (u \o v)
      <4>1. FlattenSeq(hashed') = FlattenSeq(one) \o v
        BY <3>2, <3>3, FlattenAppend, Zenon
      <4>2. FlattenSeq(one) = text \o u
        BY <1>6, FlattenAppend, Zenon DEF text, one
      <4>3. (text \o u) \o v = text \o (u \o v)
        <5>. HIDE DEF text
        <5>. QED
          <6>1. Regroups(text, u, v)
            BY <1>7, Regrouped
          <6>. QED
            BY <6>1, Zenon DEF Regroups
      <4>. QED
        BY <4>1, <4>2, <4>3, Zenon
    <3>5. \A k \in DOMAIN hashed' : Len(hashed'[k]) = Block
      <4>1. DOMAIN hashed' = 1 .. (Len(hashed) + 2)
            /\ \A k \in 1 .. (Len(hashed) + 2) : hashed'[k] = IF k <= Len(hashed) + 1 THEN one[k] ELSE v
        BY <3>2, <3>3
      <4>2. \A k \in 1 .. (Len(hashed) + 2) : k <= Len(hashed) + 1 => k \in 1 .. (Len(hashed) + 1)
        BY <1>1
      <4>3. \A k \in 1 .. (Len(hashed) + 1) : k <= Len(hashed) => k \in 1 .. Len(hashed)
        BY <1>1
      <4>. QED
        BY <4>1, <4>2, <4>3, <1>10, <3>1, <3>3, Zenon
    <3>6. size + 1 + z + LenBytes = (Len(hashed) + 2) * Block
      <4>1. count + (Block + Block) = (Len(hashed) + 2) * Block
        BY <1>1 DEF count
      <4>2. Len(buffer) + 1 + z + LenBytes = Block + Block
        BY <3>1, Zenon
      <4>3. size + 1 + z + LenBytes = count + (Block + Block)
        BY <4>2, <1>1, <1>4
      <4>. QED
        BY <4>1, <4>3, Zenon
    <3>7. Len(hashed) + 2 \in Nat
      BY <1>1
    <3>. QED
      BY <3>1, <3>4, <3>5, <3>6, <3>7, Zenon
  <2>. QED
    BY <1>8, <2>1, <2>2, Zenon DEF Ends
<1>12. (CHOOSE y \in 0 .. (Block - 1) : (size' + 1 + y + LenBytes) % Block = 0) = z
  <2>1. PICK q \in Nat : size + 1 + z + LenBytes = q * Block
    BY <1>11, Zenon
  <2>. DEFINE w == size + 1 + LenBytes
  <2>2. w \in Nat /\ \A y \in 0 .. (Block - 1) : size + 1 + y + LenBytes = w + y
    BY <1>1
  <2>. HIDE DEF w
  <2>3. w + z = q * Block
    BY <2>1, <2>2
  <2>4. (w + z) % Block = 0 /\ \A y \in 0 .. (Block - 1) : (w + y) % Block = 0 => y = z
    <3>1. Block \in Nat \ {0} /\ w \in Nat
      BY <1>1, <2>2, Zenon
    <3>. QED
      BY <2>3, <3>1, OneRemainder, ZenonT(30)
  <2>5. \A y \in 0 .. (Block - 1) : (size' + 1 + y + LenBytes) % Block = 0 <=> y = z
    BY <2>2, <2>4, <1>2
  <2>. QED
    BY <2>5, Zenon
<1>13. ((image \o <<Byte \div 2>>) \o Zeros(z)) \o lb = image \o Ending(z, t)
  <2>. DEFINE mark == <<Byte \div 2>>
              zs == Zeros(z)
  <2>1. mark \in Seq(X) /\ zs \in Seq(X)
    <3>1. Byte \div 2 \in Nat
      <4>1. Byte \in Nat
        BY SignatureAssumption DEF SignatureAssumption
      <4>. QED
        BY <4>1
    <3>2. zs \in Seq(Nat)
      BY <1>1, ZerosAre
    <3>. QED
      BY <3>1, <3>2, <1>5
  <2>2. Ending(z, t) = (mark \o zs) \o lb
    BY Zenon DEF Ending, lb
  <2>. HIDE DEF mark, zs, image
  <2>3. mark \o zs \in Seq(X)
    BY <2>1
  <2>4. (image \o mark) \o zs = image \o (mark \o zs)
    <3>1. Regroups(image, mark, zs)
      BY <2>1, <1>7, Regrouped
    <3>. QED
      BY <3>1, Zenon DEF Regroups
  <2>5. (image \o (mark \o zs)) \o lb = image \o ((mark \o zs) \o lb)
    <3>. DEFINE w == mark \o zs
    <3>1. w \in Seq(X) /\ image \in Seq(X) /\ lb \in Seq(X)
      BY <2>3, <1>5, <1>7
    <3>. HIDE DEF w
    <3>2. (image \o w) \o lb = image \o (w \o lb)
      <4>1. Regroups(image, w, lb)
        BY <3>1, Regrouped
      <4>. QED
        BY <4>1, Zenon DEF Regroups
    <3>. QED
      BY <3>2 DEF w
  <2>. QED
    BY <2>2, <2>4, <2>5, Zenon DEF mark, zs
<1>14. text \o (buffer \o Ending(z, t)) = image \o Ending(z, t)
  <2>. DEFINE e == Ending(z, t)
  <2>1. text \in Seq(X) /\ buffer \in Seq(X) /\ e \in Seq(X)
    BY <1>6, <1>7, <1>8, Zenon DEF Ends
  <2>. HIDE DEF e, text
  <2>2. text \o (buffer \o e) = (text \o buffer) \o e
    <3>1. Regroups(text, buffer, e)
      BY <2>1, Regrouped
    <3>. QED
      BY <3>1, Zenon DEF Regroups
  <2>. QED
    BY <2>2, <1>4, Zenon DEF e
<1>15. [k \in 1 .. size' |-> ImageByte(size' - k)] = image
  BY <1>2, Zenon DEF Fed
<1>16. lb = LengthBytes(size' * BitsPerByte)
  BY <1>2, Zenon DEF lb, t
<1>. QED
  BY <1>11, <1>12, <1>13, <1>14, <1>15, <1>16, Zenon DEF HashesThePaddedImage

(* Only the steps of sha256 touch what it has taken.                       *)
Hashing == (pc = "update" => Feeding) /\ HashesThePaddedImage

LEMMA HashingHolds == ASSUME Hashing, [Next]_vars PROVE Hashing'
<1>1. CASE Update
  <2>1. pc = "update" /\ pc' = pc
    BY <1>1 DEF Update
  <2>2. Feeding'
    BY <1>1, <2>1, UpdateFeeds DEF Hashing
  <2>3. HashesThePaddedImage'
    BY <2>1 DEF HashesThePaddedImage
  <2>. QED
    BY <2>2, <2>3, Zenon DEF Hashing
<1>2. CASE Final
  <2>1. pc = "update" /\ pc' = "digest"
    BY <1>2 DEF Final
  <2>2. HashesThePaddedImage'
    BY <1>2, <2>1, FinalPads DEF Hashing
  <2>. QED
    BY <2>1, <2>2 DEF Hashing
<1>3. CASE UNCHANGED vars
  BY <1>3 DEF vars, sha, Hashing, Feeding, HashesThePaddedImage
<1>4. CASE Digested \/ BadKey \/ MontInit \/ R2Step \/ ReadSignature \/ ModexpStep \/ CheckPadding
  <2>1. pc' # "update" /\ pc' # "digest"
    BY <1>4 DEF Digested, BadKey, Return, MontInit, R2Step, ReadSignature, ModexpStep, CheckPadding
  <2>. QED
    BY <2>1 DEF Hashing, HashesThePaddedImage
<1>. QED
  BY <1>1, <1>2, <1>3, <1>4 DEF Next

LEMMA HashingBegins == ASSUME Init PROVE Hashing
<1>1. /\ pc = "update" /\ size \in Nat /\ left = size /\ hashed = <<>> /\ buffer = <<>>
      /\ Block \in Nat \ {0}
  BY SignatureAssumption DEF Init, SignatureAssumption
<1>2. FlattenSeq(hashed) \o buffer = Fed(size, size - left)
  <2>1. FlattenSeq(<<>>) = <<>>
    BY DEF FlattenSeq
  <2>2. size - left = 0
    BY <1>1
  <2>3. Fed(size, 0) = <<>> /\ <<>> \o <<>> = <<>>
    BY DEF Fed
  <2>. QED
    BY <1>1, <2>1, <2>2, <2>3
<1>3. Len(hashed) * Block + Len(buffer) = size - left
  BY <1>1
<1>. QED
  BY <1>1, <1>2, <1>3 DEF Hashing, Feeding, HashesThePaddedImage

(* For images of every length, what is compressed is the image padded as   *)
(* FIPS 180-4 says (sha256.c:135-203).                                     *)
THEOREM HashTakesTheImage == Spec => []HashesThePaddedImage
<1>1. Init => Hashing
  BY HashingBegins
<1>2. Hashing /\ [Next]_vars => Hashing'
  BY HashingHolds
<1>3. Hashing => HashesThePaddedImage
  BY DEF Hashing
<1>. QED
  BY <1>1, <1>2, <1>3, PTL DEF Spec

-----------------------------------------------------------------------------
(* Congruence.                                                             *)
Cong(x, y, m) == \E z \in Int : x = y + m * z

LEMMA CongSame == ASSUME NEW x \in Int, NEW m \in Nat \ {0} PROVE Cong(x, x, m)
<1>1. 0 \in Int /\ x = x + m * 0
  OBVIOUS
<1>. QED
  BY <1>1 DEF Cong

LEMMA CongBack ==
    ASSUME NEW x \in Int, NEW y \in Int, NEW m \in Nat \ {0}, Cong(x, y, m)
    PROVE  Cong(y, x, m)
<1>1. PICK z \in Int : x = y + m * z
  BY DEF Cong
<1>2. 0 - z \in Int /\ m * (0 - z) = 0 - m * z /\ m * z \in Int
  OBVIOUS
<1>3. y = x + m * (0 - z)
  BY <1>1, <1>2
<1>. QED
  BY <1>2, <1>3 DEF Cong

LEMMA CongOn ==
    ASSUME NEW x \in Int, NEW y \in Int, NEW w \in Int, NEW m \in Nat \ {0},
           Cong(x, y, m), Cong(y, w, m)
    PROVE  Cong(x, w, m)
<1>1. PICK z \in Int : x = y + m * z
  BY DEF Cong
<1>2. PICK u \in Int : y = w + m * u
  BY DEF Cong
<1>3. u + z \in Int /\ m * (u + z) = m * u + m * z /\ m * z \in Int /\ m * u \in Int
  OBVIOUS
<1>4. x = w + m * (u + z)
  BY <1>1, <1>2, <1>3
<1>. QED
  BY <1>3, <1>4 DEF Cong

LEMMA CongAdds ==
    ASSUME NEW x \in Int, NEW y \in Int, NEW u \in Int, NEW v \in Int, NEW m \in Nat \ {0},
           Cong(x, y, m), Cong(u, v, m)
    PROVE  Cong(x + u, y + v, m)
<1>1. PICK z \in Int : x = y + m * z
  BY DEF Cong
<1>2. PICK w \in Int : u = v + m * w
  BY DEF Cong
<1>3. z + w \in Int /\ m * (z + w) = m * z + m * w /\ m * z \in Int /\ m * w \in Int
  OBVIOUS
<1>4. x + u = (y + v) + m * (z + w)
  BY <1>1, <1>2, <1>3
<1>. QED
  BY <1>3, <1>4 DEF Cong

LEMMA CongScales ==
    ASSUME NEW x \in Int, NEW y \in Int, NEW c \in Int, NEW m \in Nat \ {0}, Cong(x, y, m)
    PROVE  Cong(x * c, y * c, m) /\ Cong(c * x, c * y, m)
<1>1. PICK z \in Int : x = y + m * z
  BY DEF Cong
<1>2. z * c \in Int /\ m * z \in Int /\ (y + m * z) * c = y * c + (m * z) * c
  OBVIOUS
<1>3. (m * z) * c = m * (z * c)
  BY Associates
<1>4. x * c = y * c + m * (z * c)
  BY <1>1, <1>2, <1>3
<1>5. Cong(x * c, y * c, m)
  BY <1>2, <1>4 DEF Cong
<1>6. x * c = c * x /\ y * c = c * y
  BY Commutes
<1>. QED
  BY <1>5, <1>6

LEMMA CongTimes ==
    ASSUME NEW x \in Int, NEW y \in Int, NEW u \in Int, NEW v \in Int, NEW m \in Nat \ {0},
           Cong(x, y, m), Cong(u, v, m)
    PROVE  Cong(x * u, y * v, m)
<1>1. Cong(x * u, y * u, m) /\ Cong(y * u, y * v, m)
  BY CongScales
<1>2. x * u \in Int /\ y * u \in Int /\ y * v \in Int
  BY Commutes
<1>. QED
  BY <1>1, <1>2, CongOn

LEMMA CongRest ==
    ASSUME NEW x \in Int, NEW m \in Nat \ {0}
    PROVE  Cong(x, x % m, m) /\ Cong(x % m, x, m) /\ x % m \in 0 .. (m - 1) /\ x % m \in Int
<1>. DEFINE y == x % m
            z == x \div m
<1>1. y \in 0 .. (m - 1) /\ z \in Int /\ x = m * z + y
  BY DivideBy
<1>. HIDE DEF y, z
<1>2. y \in Int /\ m * z \in Int /\ m * z + y = y + m * z
  BY <1>1
<1>3. x = y + m * z
  BY <1>1, <1>2
<1>4. Cong(x, y, m)
  BY <1>1, <1>3 DEF Cong
<1>5. Cong(y, x, m)
  BY <1>2, <1>4, CongBack
<1>. QED
  BY <1>1, <1>2, <1>4, <1>5 DEF y

LEMMA CongSmall ==
    ASSUME NEW m \in Nat \ {0}, NEW x \in 0 .. (m - 1), NEW y \in 0 .. (m - 1), Cong(x, y, m)
    PROVE  x = y
<1>1. PICK z \in Int : x = y + m * z
  BY DEF Cong
<1>2. m * z \in Int /\ m * 0 = 0
  OBVIOUS
<1>3. m * 0 + x = m * z + y
  BY <1>1, <1>2
<1>. QED
  BY <1>3, OneRest

LEMMA CongRests ==
    ASSUME NEW x \in Int, NEW y \in Int, NEW m \in Nat \ {0}
    PROVE  Cong(x, y, m) <=> (x % m) = (y % m)
<1>. DEFINE p == x % m
            q == y % m
<1>1. /\ p \in 0 .. (m - 1) /\ q \in 0 .. (m - 1) /\ p \in Int /\ q \in Int
      /\ Cong(x, p, m) /\ Cong(p, x, m) /\ Cong(y, q, m) /\ Cong(q, y, m)
  BY CongRest
<1>. HIDE DEF p, q
<1>2. ASSUME Cong(x, y, m) PROVE p = q
  <2>1. Cong(p, y, m)
    BY <1>1, <1>2, CongOn
  <2>2. Cong(p, q, m)
    BY <1>1, <2>1, CongOn
  <2>. QED
    BY <1>1, <2>2, CongSmall
<1>3. ASSUME p = q PROVE Cong(x, y, m)
  BY <1>1, <1>3, CongOn
<1>. QED
  BY <1>2, <1>3 DEF p, q

LEMMA RestSmall == ASSUME NEW m \in Nat \ {0}, NEW x \in 0 .. (m - 1) PROVE x % m = x
<1>1. m * 0 = 0 /\ m * 0 + x = x
  OBVIOUS
<1>2. (m * 0 + x) % m = x
  BY RestIs
<1>. QED
  BY <1>1, <1>2

(* What is added to a multiple of m leaves the rest as it was.             *)
LEMMA CongDrops ==
    ASSUME NEW x \in Int, NEW q \in Int, NEW m \in Nat \ {0}
    PROVE  Cong(x + q * m, x, m) /\ Cong(x - q * m, x, m)
<1>1. q * m = m * q /\ q * m \in Int
  BY Commutes
<1>2. 0 - q \in Int /\ m * (0 - q) = 0 - m * q
  OBVIOUS
<1>3. x - q * m = x + m * (0 - q)
  BY <1>1, <1>2
<1>. QED
  BY <1>1, <1>2, <1>3 DEF Cong

(* A multiple of 2 times m divides as m does.                              *)
LEMMA CongLess ==
    ASSUME NEW x \in Int, NEW y \in Int, NEW m \in Nat \ {0}, NEW c \in Nat \ {0}, Cong(x, y, m * c)
    PROVE  Cong(x, y, m)
<1>1. PICK z \in Int : x = y + (m * c) * z
  BY DEF Cong
<1>2. (m * c) * z = m * (c * z) /\ c * z \in Int
  BY Associates
<1>. QED
  BY <1>1, <1>2 DEF Cong

LEMMA CongDropsOne ==
    ASSUME NEW x \in Int, NEW m \in Nat \ {0}
    PROVE  Cong(x + m, x, m) /\ Cong(x - m, x, m)
<1>1. 1 \in Int /\ 0 - 1 \in Int /\ x + m = x + m * 1 /\ x - m = x + m * (0 - 1)
  OBVIOUS
<1>. QED
  BY <1>1 DEF Cong

-----------------------------------------------------------------------------
(* Comparison and subtraction.                                             *)
(* The words and the borrow of a subtraction, word by word.                *)
Borrowed(y, a, b, k) ==
    LET owed == b[k] + y.borrow
    IN  [words |-> Append(y.words, (a[k] + (Word - owed)) % Word),
         borrow |-> IF a[k] >= owed THEN 0 ELSE 1]

Borrows(f, a, b, m) ==
    f = [k \in 0 .. m |-> IF k = 0 THEN [words |-> <<>>, borrow |-> 0] ELSE Borrowed(f[k - 1], a, b, k)]

LEMMA BorrowsAre ==
    ASSUME NEW f, NEW a, NEW b, NEW m \in Nat, Borrows(f, a, b, m)
    PROVE  /\ f[0] = [words |-> <<>>, borrow |-> 0]
           /\ \A k \in 0 .. (m - 1) : f[k + 1] = Borrowed(f[k], a, b, k + 1)
<1>. DEFINE G(k, y) == Borrowed(y, a, b, k)
<1>1. \A k \in 0 .. m : f[k] = IF k = 0 THEN [words |-> <<>>, borrow |-> 0] ELSE G(k, f[k - 1])
  BY DEF Borrows
<1>. HIDE DEF G
<1>2. 0 \in 0 .. m /\ \A k \in 0 .. (m - 1) : k + 1 \in 0 .. m /\ k + 1 # 0 /\ (k + 1) - 1 = k
  OBVIOUS
<1>3. f[0] = [words |-> <<>>, borrow |-> 0] /\ \A k \in 0 .. (m - 1) : f[k + 1] = G(k + 1, f[k])
  BY <1>1, <1>2
<1>. QED
  BY <1>3, Zenon DEF G

LEMMA SomeBorrows == ASSUME NEW a, NEW b PROVE \A m \in Nat : \E f : Borrows(f, a, b, m)
<1>. DEFINE T == {m \in Nat : \E f : Borrows(f, a, b, m)}
            G(k, y) == Borrowed(y, a, b, k)
            z == [words |-> <<>>, borrow |-> 0]
<1>1. 0 \in T
  <2>. DEFINE g == [k \in 0 .. 0 |-> z]
  <2>1. g = [k \in 0 .. 0 |-> IF k = 0 THEN z ELSE G(k, g[k - 1])]
    <3>. HIDE DEF G, z
    <3>. QED
      OBVIOUS
  <2>2. Borrows(g, a, b, 0)
    <3>. HIDE DEF g
    <3>. QED
      BY <2>1, Zenon DEF Borrows, G, z
  <2>3. 0 \in Nat
    OBVIOUS
  <2>. QED
    BY <2>2, <2>3
<1>2. ASSUME NEW m \in Nat, m \in T PROVE m + 1 \in T
  <2>1. PICK f : Borrows(f, a, b, m)
    BY <1>2
  <2>2. f[0] = z /\ \A k \in 1 .. m : f[k] = G(k, f[k - 1])
    <3>1. \A k \in 0 .. m : f[k] = IF k = 0 THEN z ELSE G(k, f[k - 1])
      <4>1. f = [k \in 0 .. m |-> IF k = 0 THEN z ELSE G(k, f[k - 1])]
        BY <2>1, Zenon DEF Borrows, G, z
      <4>. HIDE DEF G, z
      <4>. QED
        BY <4>1
    <3>. HIDE DEF G, z
    <3>2. 0 \in 0 .. m /\ \A k \in 1 .. m : k \in 0 .. m /\ k # 0
      OBVIOUS
    <3>. QED
      BY <3>1, <3>2
  <2>. HIDE DEF G, z
  <2>. DEFINE g == [k \in 0 .. (m + 1) |-> IF k = m + 1 THEN G(m + 1, f[m]) ELSE f[k]]
  <2>3. ASSUME NEW k \in 0 .. (m + 1)
        PROVE  g[k] = IF k = 0 THEN z ELSE G(k, g[k - 1])
    <3>1. CASE k = 0
      BY <2>2, <3>1
    <3>2. CASE k = m + 1
      <4>1. g[k] = G(k, f[m]) /\ k - 1 = m /\ m \in 0 .. (m + 1) /\ m # m + 1 /\ k # 0
        BY <3>2
      <4>2. g[m] = f[m]
        BY <4>1
      <4>. QED
        BY <4>1, <4>2
    <3>3. CASE k \in 1 .. m
      <4>1. k # m + 1 /\ k - 1 # m + 1 /\ k # 0 /\ k - 1 \in 0 .. (m + 1)
        BY <3>3
      <4>2. g[k] = f[k] /\ g[k - 1] = f[k - 1]
        BY <4>1
      <4>. HIDE DEF g
      <4>. QED
        BY <4>1, <4>2, <2>2, <3>3
    <3>. QED
      BY <3>1, <3>2, <3>3
  <2>4. g = [k \in 0 .. (m + 1) |-> g[k]]
    OBVIOUS
  <2>. HIDE DEF g
  <2>5. g = [k \in 0 .. (m + 1) |-> IF k = 0 THEN z ELSE G(k, g[k - 1])]
    BY <2>3, <2>4
  <2>6. Borrows(g, a, b, m + 1)
    BY <2>5, Zenon DEF Borrows, G, z
  <2>7. m + 1 \in Nat
    OBVIOUS
  <2>. QED
    BY <2>6, <2>7
<1>. HIDE DEF T
<1>3. Nat \subseteq T
  BY <1>1, <1>2, Inductive
<1>. QED
  BY <1>3, Zenon DEF T

LEMMA SubIs ==
    ASSUME NEW a, NEW b
    PROVE  \E f : Borrows(f, a, b, Limbs) /\ Sub(a, b) = f[Limbs].words
<1>. DEFINE h == CHOOSE f : Borrows(f, a, b, Limbs)
<1>1. Sub(a, b) = h[Limbs].words
  BY DEF Sub, Borrows, Borrowed
<1>2. Borrows(h, a, b, Limbs)
  <2>1. \E f : Borrows(f, a, b, Limbs)
    BY SomeBorrows, Widths
  <2>. QED
    BY <2>1
<1>. HIDE DEF h
<1>. QED
  BY <1>1, <1>2

(* A number of words, the value of one that gets a further word.           *)
BigOf(a, m) == a \in Seq(0 .. (Word - 1)) /\ Len(a) = m

LEMMA BigIs ==
    ASSUME NEW m \in Nat, NEW a
    PROVE  BigOf(a, m) <=> a \in [1 .. m -> 0 .. (Word - 1)]
<1>1. ASSUME BigOf(a, m) PROVE a \in [1 .. m -> 0 .. (Word - 1)]
  <2>1. a \in Seq(0 .. (Word - 1)) /\ Len(a) = m
    BY <1>1 DEF BigOf
  <2>2. \A S : \A q \in Seq(S) : q \in [1 .. Len(q) -> S]
    BY LenProperties
  <2>. QED
    BY <2>1, <2>2, Zenon
<1>2. ASSUME a \in [1 .. m -> 0 .. (Word - 1)] PROVE BigOf(a, m)
  <2>1. a \in Seq(0 .. (Word - 1))
    BY <1>2, SeqDef
  <2>. QED
    BY <1>2, <2>1 DEF BigOf
<1>. QED
  BY <1>1, <1>2

LEMMA BigWords == ASSUME NEW m \in Nat, NEW a, BigOf(a, m) PROVE IsBig(a, m)
<1>1. a \in [1 .. m -> 0 .. (Word - 1)]
  BY BigIs
<1>. QED
  BY <1>1, Zenon DEF IsBig

LEMMA BigAppends ==
    ASSUME NEW m \in Nat, NEW a, BigOf(a, m), NEW w \in 0 .. (Word - 1)
    PROVE  /\ BigOf(Append(a, w), m + 1)
           /\ \A k \in 1 .. m : Append(a, w)[k] = a[k]
           /\ ValueOf(Append(a, w), m) = ValueOf(a, m)
           /\ ValueOf(Append(a, w), m + 1) = ValueOf(a, m) + w * Pow(Word, m)
<1>. DEFINE b == Append(a, w)
<1>1. a \in Seq(0 .. (Word - 1)) /\ Len(a) = m
  BY DEF BigOf
<1>2. b \in Seq(0 .. (Word - 1)) /\ Len(b) = m + 1 /\ b[m + 1] = w /\ \A k \in 1 .. m : b[k] = a[k]
  BY <1>1
<1>. HIDE DEF b
<1>3. ValueOf(b, m) = ValueOf(a, m)
  <2>1. m \in 0 .. m
    OBVIOUS
  <2>2. \A k \in 1 .. m : b[k] = a[k]
    BY <1>2
  <2>3. \A k \in 0 .. m : ValueOf(b, k) = ValueOf(a, k)
    BY <2>2, ValueSame
  <2>. QED
    BY <2>1, <2>3
<1>4. ValueOf(b, m + 1) = ValueOf(a, m) + w * Pow(Word, m)
  BY <1>2, <1>3, ValueIs
<1>5. BigOf(b, m + 1)
  BY <1>2 DEF BigOf
<1>. QED
  BY <1>2, <1>3, <1>4, <1>5 DEF b

LEMMA SubWords ==
    ASSUME NEW a, NEW b, IsBig(a, Limbs), IsBig(b, Limbs)
    PROVE  \E c \in {0, 1} :
              /\ BigOf(Sub(a, b), Limbs)
              /\ ValueOf(Sub(a, b), Limbs) + ValueOf(b, Limbs) = ValueOf(a, Limbs) + c * Pow(Word, Limbs)
<1>. DEFINE Holds(r, k) ==
              /\ r.borrow \in {0, 1} /\ BigOf(r.words, k)
              /\ ValueOf(r.words, k) + ValueOf(b, k) = ValueOf(a, k) + r.borrow * Pow(Word, k)
<1>1. PICK f : Borrows(f, a, b, Limbs) /\ Sub(a, b) = f[Limbs].words
  BY SubIs
<1>2. Limbs \in Nat /\ Word \in Nat /\ Word >= 4
  BY Widths, WordIs
<1>3. /\ f[0] = [words |-> <<>>, borrow |-> 0]
      /\ \A k \in 0 .. (Limbs - 1) :
            f[k + 1] = LET owed == b[k + 1] + f[k].borrow
                       IN  [words |-> Append(f[k].words, (a[k + 1] + (Word - owed)) % Word),
                            borrow |-> IF a[k + 1] >= owed THEN 0 ELSE 1]
  <2>1. f[0] = [words |-> <<>>, borrow |-> 0] /\ \A k \in 0 .. (Limbs - 1) : f[k + 1] = Borrowed(f[k], a, b, k + 1)
    BY <1>1, <1>2, BorrowsAre
  <2>. QED
    BY <2>1, Zenon DEF Borrowed
<1>. DEFINE T == {k \in 0 .. Limbs : Holds(f[k], k)}
<1>4. 0 \in T
  <2>1. ValueOf(<<>>, 0) = 0 /\ ValueOf(a, 0) = 0 /\ ValueOf(b, 0) = 0 /\ Pow(Word, 0) = 1
    BY ValueIs, PowIs
  <2>2. BigOf(<<>>, 0)
    BY DEF BigOf
  <2>3. f[0].words = <<>> /\ f[0].borrow = 0
    <3>1. f[0] = [words |-> <<>>, borrow |-> 0]
      BY <1>1, <1>2, BorrowsAre
    <3>. QED
      BY <3>1
  <2>4. 0 \in 0 .. Limbs /\ 0 \in {0, 1}
    BY <1>2
  <2>5. 0 + 0 = 0 + 0 * 1
    OBVIOUS
  <2>. QED
    BY <2>1, <2>2, <2>3, <2>4, <2>5
<1>5. ASSUME NEW k \in 0 .. (Limbs - 1), k \in T PROVE k + 1 \in T
  <2>. DEFINE x == a[k + 1]
              y == b[k + 1]
              c == f[k].borrow
              d == f[k + 1].borrow
              w == (x + (Word - (y + c))) % Word
              q == f[k].words
              p == Pow(Word, k)
  <2>1. k \in Nat /\ k + 1 \in 1 .. Limbs /\ k + 1 \in 0 .. Limbs
    BY <1>2
  <2>2. x \in 0 .. (Word - 1) /\ y \in 0 .. (Word - 1)
    BY <2>1 DEF IsBig
  <2>3. c \in {0, 1} /\ BigOf(q, k)
    BY <1>5
  <2>4. f[k + 1].words = Append(q, w) /\ d = IF x >= y + c THEN 0 ELSE 1
    <3>. DEFINE e == IF x >= y + c THEN 0 ELSE 1
    <3>1. f[k + 1] = [words |-> Append(q, w), borrow |-> e]
      BY <1>3, Zenon
    <3>. HIDE DEF e, q, w
    <3>2. f[k + 1].words = Append(q, w) /\ f[k + 1].borrow = e
      BY <3>1
    <3>. QED
      BY <3>2 DEF e
  <2>5. w \in 0 .. (Word - 1) /\ w + y + c = x + d * Word /\ d \in {0, 1}
    <3>. HIDE DEF q, p
    <3>1. CASE x >= y + c
      <4>1. d = 0
        BY <2>4, <3>1
      <4>. DEFINE z == x - (y + c)
      <4>2. z \in 0 .. (Word - 1)
        BY <1>2, <2>2, <2>3, <3>1
      <4>3. x + (Word - (y + c)) = Word * 1 + z
        BY <1>2, <2>2, <2>3
      <4>4. w = z
        <5>. HIDE DEF z
        <5>1. (Word * 1 + z) % Word = z
          BY <1>2, <4>2, RestIs
        <5>. QED
          BY <4>3, <5>1
      <4>. HIDE DEF w, x, y, c, d
      <4>. QED
        BY <1>2, <2>2, <2>3, <4>1, <4>2, <4>4
    <3>2. CASE ~ (x >= y + c)
      <4>1. d = 1
        BY <2>4, <3>2
      <4>. DEFINE z == x + (Word - (y + c))
      <4>2. z \in 0 .. (Word - 1)
        BY <1>2, <2>2, <2>3, <3>2
      <4>3. w = z
        <5>. HIDE DEF z
        <5>1. z % Word = z
          BY <1>2, <4>2, RestSmall
        <5>. QED
          BY <5>1 DEF z
      <4>. HIDE DEF w, x, y, c, d
      <4>. QED
        BY <1>2, <2>2, <2>3, <4>1, <4>2, <4>3
    <3>. QED
      BY <3>1, <3>2
  <2>. HIDE DEF x, y, c, d, w, q
  <2>6. BigOf(Append(q, w), k + 1) /\ ValueOf(Append(q, w), k + 1) = ValueOf(q, k) + w * p
    BY <2>1, <2>3, <2>5, BigAppends
  <2>7. ValueOf(a, k + 1) = ValueOf(a, k) + x * p /\ ValueOf(b, k + 1) = ValueOf(b, k) + y * p
    BY <2>1, ValueIs DEF x, y
  <2>8. p \in Nat /\ Pow(Word, k + 1) = p * Word
    BY <2>1, WordPow
  <2>. DEFINE u == ValueOf(q, k)
              s1 == ValueOf(a, k)
              s2 == ValueOf(b, k)
  <2>9. u + s2 = s1 + c * p
    BY <1>5 DEF q, c
  <2>10. u \in Int /\ s1 \in Int /\ s2 \in Int
    <3>1. IsBig(a, k) /\ IsBig(b, k) /\ IsBig(q, k)
      <4>1. IsBig(a, k) /\ IsBig(b, k)
        <5>1. \A j \in 1 .. k : j \in 1 .. Limbs
          BY <1>2, <2>1
        <5>. QED
          BY <5>1 DEF IsBig
      <4>. QED
        BY <2>1, <2>3, <4>1, BigWords
    <3>2. k \in 0 .. k
      BY <2>1
    <3>3. u \in 0 .. (p - 1) /\ s1 \in 0 .. (p - 1) /\ s2 \in 0 .. (p - 1)
      BY <2>1, <3>1, <3>2, ValueBelow
    <3>. QED
      BY <3>3
  <2>. HIDE DEF u, s1, s2, p
  <2>11. (u + w * p) + (s2 + y * p) = (s1 + x * p) + d * (p * Word)
    <3>1. (w + y + c) * p = w * p + y * p + c * p
      BY <2>2, <2>3, <2>5, <2>8
    <3>2. (x + d * Word) * p = x * p + d * (p * Word)
      BY <1>2, <2>2, <2>5, <2>8
    <3>3. w * p \in Int /\ y * p \in Int /\ c * p \in Int /\ x * p \in Int /\ d * (p * Word) \in Int
      BY <1>2, <2>2, <2>3, <2>5, <2>8
    <3>. QED
      BY <2>5, <2>9, <2>10, <3>1, <3>2, <3>3
  <2>12. f[k + 1].borrow \in {0, 1} /\ f[k + 1].words = Append(q, w)
    BY <2>4, <2>5 DEF d
  <2>13. Holds(f[k + 1], k + 1)
    BY <2>6, <2>7, <2>8, <2>11, <2>12 DEF d, u, s1, s2, p
  <2>. HIDE DEF Holds
  <2>. QED
    BY <2>1, <2>13
<1>. HIDE DEF T
<1>6. Limbs \in T
  <2>1. \A k \in 0 .. Limbs : k \in T
    BY <1>2, <1>4, <1>5, InductiveTo
  <2>. QED
    BY <1>2, <2>1
<1>7. Holds(f[Limbs], Limbs)
  BY <1>6 DEF T
<1>. QED
  BY <1>1, <1>7

(* The value of a number of all the words.                                 *)
LEMMA ValueIn ==
    ASSUME NEW a, IsBig(a, Limbs)
    PROVE  Value(a) = ValueOf(a, Limbs) /\ Value(a) \in 0 .. (R - 1)
<1>1. Limbs \in Nat /\ Limbs \in 0 .. Limbs
  BY Widths
<1>2. ValueOf(a, Limbs) \in 0 .. (Pow(Word, Limbs) - 1)
  BY <1>1, ValueBelow
<1>. QED
  BY <1>2 DEF Value, R

LEMMA SubValue ==
    ASSUME NEW a, NEW b, IsBig(a, Limbs), IsBig(b, Limbs)
    PROVE  /\ BigOf(Sub(a, b), Limbs)
           /\ Value(Sub(a, b)) = IF Value(a) >= Value(b) THEN Value(a) - Value(b)
                                 ELSE Value(a) - Value(b) + R
<1>1. PICK c \in {0, 1} :
              /\ BigOf(Sub(a, b), Limbs)
              /\ ValueOf(Sub(a, b), Limbs) + ValueOf(b, Limbs) = ValueOf(a, Limbs) + c * Pow(Word, Limbs)
  BY SubWords
<1>2. IsBig(Sub(a, b), Limbs)
  BY <1>1, BigWords, Widths
<1>. DEFINE x == Value(a)
            y == Value(b)
            z == Value(Sub(a, b))
<1>3. x \in 0 .. (R - 1) /\ y \in 0 .. (R - 1) /\ z \in 0 .. (R - 1) /\ R \in Nat
  BY <1>2, ValueIn, RIs
<1>4. z + y = x + c * R
  BY <1>1 DEF Value, R
<1>. HIDE DEF x, y, z
<1>5. z = IF x >= y THEN x - y ELSE x - y + R
  <2>1. CASE c = 0
    BY <1>3, <1>4, <2>1
  <2>2. CASE c = 1
    BY <1>3, <1>4, <2>2
  <2>. QED
    BY <2>1, <2>2
<1>. QED
  BY <1>1, <1>5 DEF x, y, z

LEMMA MaxIs ==
    ASSUME NEW m \in Nat, NEW T, T \subseteq 0 .. m, T # {}
    PROVE  Max(T) \in T /\ \A y \in T : Max(T) >= y
<1>. DEFINE U == {m - t : t \in T}
<1>1. U \subseteq Nat /\ U # {}
  <2>1. \A t \in T : m - t \in Nat
    OBVIOUS
  <2>2. PICK t \in T : TRUE
    OBVIOUS
  <2>3. m - t \in U
    OBVIOUS
  <2>. QED
    BY <2>1, <2>3
<1>2. Min(U) \in U /\ \A u \in U : Min(U) <= u
  <2>. HIDE DEF U
  <2>. QED
    BY <1>1, MinIs
<1>3. PICK x \in T : Min(U) = m - x
  BY <1>2
<1>4. \A y \in T : m - x <= m - y
  BY <1>2, <1>3
<1>5. \A y \in T : x >= y
  BY <1>4
<1>. QED
  BY <1>5, Zenon DEF Max

(* The highest word that differs decides.                                  *)
LEMMA GreaterAt ==
    ASSUME NEW m \in Nat, NEW a, NEW b, IsBig(a, m), IsBig(b, m),
           NEW d \in 1 .. m, a[d] > b[d], \A k \in (d + 1) .. m : a[k] = b[k]
    PROVE  ValueOf(a, m) > ValueOf(b, m)
<1>. DEFINE T == {j \in 0 .. (m - d) : ValueOf(a, d + j) > ValueOf(b, d + j)}
<1>1. \A k \in 0 .. m : ValueOf(a, k) \in Nat /\ ValueOf(b, k) \in Nat /\ ValueOf(b, k) < Pow(Word, k)
  <2>1. \A k \in 0 .. m : Pow(Word, k) \in Nat
    BY WordPow
  <2>2. \A k \in 0 .. m : ValueOf(a, k) \in 0 .. (Pow(Word, k) - 1) /\ ValueOf(b, k) \in 0 .. (Pow(Word, k) - 1)
    BY ValueBelow
  <2>. QED
    BY <2>1, <2>2
<1>2. 0 \in T
  <2>. DEFINE e == d - 1
              p == Pow(Word, e)
              x == a[d]
              y == b[d]
              u == ValueOf(a, e)
              v == ValueOf(b, e)
  <2>1. e \in 0 .. m /\ e \in Nat /\ e + 1 = d /\ d + 0 = d /\ 0 \in 0 .. (m - d)
    OBVIOUS
  <2>2. ValueOf(a, d) = u + x * p /\ ValueOf(b, d) = v + y * p
    <3>. HIDE DEF e
    <3>1. ValueOf(a, e + 1) = u + a[e + 1] * p /\ ValueOf(b, e + 1) = v + b[e + 1] * p
      BY <2>1, ValueIs
    <3>. QED
      BY <2>1, <3>1
  <2>3. u \in Nat /\ v \in Nat /\ v < p
    BY <1>1, <2>1
  <2>4. p \in Nat \ {0}
    BY <2>1, WordPow
  <2>5. x \in Nat /\ y \in Nat /\ y < x
    BY WordIs DEF IsBig
  <2>. HIDE DEF e, p, x, y, u, v
  <2>6. y * p + p <= x * p
    BY <2>4, <2>5, GrowsMore
  <2>7. y * p \in Nat /\ x * p \in Nat
    BY <2>4, <2>5
  <2>8. u + x * p > v + y * p
    BY <2>3, <2>4, <2>6, <2>7
  <2>. QED
    BY <2>1, <2>2, <2>8
<1>3. ASSUME NEW j \in 0 .. ((m - d) - 1), j \in T PROVE j + 1 \in T
  <2>. DEFINE k == d + j
  <2>1. k \in Nat /\ k \in 0 .. m /\ k + 1 = d + (j + 1) /\ k + 1 \in (d + 1) .. m /\ j + 1 \in 0 .. (m - d)
    OBVIOUS
  <2>. DEFINE p == Pow(Word, k)
              x == a[k + 1]
              u == ValueOf(a, k)
              v == ValueOf(b, k)
  <2>2. ValueOf(a, k + 1) = u + x * p /\ ValueOf(b, k + 1) = v + x * p
    <3>1. a[k + 1] = b[k + 1]
      BY <2>1
    <3>2. ValueOf(a, k + 1) = u + a[k + 1] * p /\ ValueOf(b, k + 1) = v + b[k + 1] * p
      <4>. HIDE DEF k
      <4>. QED
        BY <2>1, ValueIs
    <3>. QED
      BY <3>1, <3>2
  <2>3. u > v
    BY <1>3
  <2>4. u \in Nat /\ v \in Nat
    BY <1>1, <2>1
  <2>5. x * p \in Nat
    <3>1. k + 1 \in 1 .. m
      BY <2>1
    <3>2. x \in Nat
      BY <3>1, WordIs DEF IsBig
    <3>3. p \in Nat
      BY <2>1, WordPow
    <3>. HIDE DEF x, p
    <3>. QED
      BY <3>2, <3>3
  <2>6. ValueOf(a, k + 1) > ValueOf(b, k + 1)
    <3>. HIDE DEF u, v, p, x, k
    <3>. QED
      BY <2>2, <2>3, <2>4, <2>5
  <2>. QED
    BY <2>1, <2>6
<1>. HIDE DEF T
<1>4. m - d \in T
  <2>1. m - d \in Nat /\ m - d \in 0 .. (m - d)
    OBVIOUS
  <2>2. \A j \in 0 .. (m - d) : j \in T
    BY <1>2, <1>3, <2>1, InductiveTo
  <2>. QED
    BY <2>1, <2>2
<1>5. d + (m - d) = m
  OBVIOUS
<1>. QED
  BY <1>4, <1>5 DEF T

LEMMA AtLeastIs ==
    ASSUME NEW a, NEW b, IsBig(a, Limbs), IsBig(b, Limbs)
    PROVE  AtLeast(a, b) <=> Value(a) >= Value(b)
<1>. DEFINE D == {k \in 1 .. Limbs : a[k] # b[k]}
            d == Max(D)
<1>1. Limbs \in Nat /\ Limbs \in 0 .. Limbs
  BY Widths
<1>2. AtLeast(a, b) <=> (D = {} \/ a[d] > b[d])
  BY DEF AtLeast
<1>3. Value(a) \in Nat /\ Value(b) \in Nat /\ Value(a) = ValueOf(a, Limbs) /\ Value(b) = ValueOf(b, Limbs)
  BY ValueIn, RIs
<1>4. CASE D = {}
  <2>1. \A k \in 1 .. Limbs : a[k] = b[k]
    BY <1>4
  <2>2. Value(a) = Value(b)
    BY <1>1, <1>3, <2>1, ValueSame
  <2>3. Value(a) >= Value(b)
    BY <1>3, <2>2
  <2>. QED
    BY <1>2, <1>4, <2>3
<1>5. CASE D # {}
  <2>1. d \in D /\ \A y \in D : d >= y
    <3>1. D \subseteq 0 .. Limbs
      OBVIOUS
    <3>. HIDE DEF D
    <3>. QED
      BY <1>1, <1>5, <3>1, MaxIs
  <2>. HIDE DEF d
  <2>2. d \in 1 .. Limbs /\ a[d] # b[d]
    BY <2>1
  <2>3. \A k \in (d + 1) .. Limbs : a[k] = b[k]
    <3>1. \A k \in (d + 1) .. Limbs : k \in 1 .. Limbs /\ ~ (d >= k)
      BY <1>1, <2>2
    <3>. QED
      BY <2>1, <3>1
  <2>4. a[d] \in Nat /\ b[d] \in Nat
    BY <2>2, WordIs DEF IsBig
  <2>5. CASE a[d] > b[d]
    <3>1. Value(a) > Value(b)
      BY <1>1, <1>3, <2>2, <2>3, <2>5, GreaterAt
    <3>. QED
      BY <1>2, <1>3, <2>5, <3>1
  <2>6. CASE b[d] > a[d]
    <3>1. \A k \in (d + 1) .. Limbs : b[k] = a[k]
      BY <2>3
    <3>2. Value(b) > Value(a)
      BY <1>1, <1>3, <2>2, <3>1, <2>6, GreaterAt
    <3>3. ~ (a[d] > b[d])
      BY <2>4, <2>6
    <3>. QED
      BY <1>2, <1>3, <1>5, <3>2, <3>3
  <2>. QED
    BY <2>2, <2>4, <2>5, <2>6
<1>. QED
  BY <1>4, <1>5

LEMMA SubIfGeIs ==
    ASSUME NEW a, NEW b, BigOf(a, Limbs), IsBig(b, Limbs)
    PROVE  /\ BigOf(SubIfGe(a, b), Limbs)
           /\ Value(SubIfGe(a, b)) = IF Value(a) >= Value(b) THEN Value(a) - Value(b) ELSE Value(a)
<1>1. IsBig(a, Limbs)
  BY BigWords, Widths
<1>2. CASE AtLeast(a, b)
  <2>1. SubIfGe(a, b) = Sub(a, b) /\ Value(a) >= Value(b)
    BY <1>1, <1>2, AtLeastIs DEF SubIfGe
  <2>2. BigOf(Sub(a, b), Limbs) /\ Value(Sub(a, b)) = Value(a) - Value(b)
    BY <1>1, <2>1, SubValue
  <2>. QED
    BY <2>1, <2>2
<1>3. CASE ~ AtLeast(a, b)
  <2>1. SubIfGe(a, b) = a /\ ~ (Value(a) >= Value(b))
    BY <1>1, <1>3, AtLeastIs DEF SubIfGe
  <2>. QED
    BY <2>1
<1>. QED
  BY <1>2, <1>3

-----------------------------------------------------------------------------
(* Numbers that are written down.                                          *)
LEMMA BigFun ==
    ASSUME NEW f, f = [k \in 1 .. Limbs |-> f[k]], IsBig(f, Limbs)
    PROVE  BigOf(f, Limbs)
<1>1. f \in [1 .. Limbs -> 0 .. (Word - 1)]
  BY DEF IsBig
<1>. QED
  BY <1>1, BigIs, Widths

LEMMA ZeroIs == BigOf(Zero, Limbs) /\ Value(Zero) = 0
<1>1. Limbs \in Nat /\ Limbs \in 0 .. Limbs /\ 0 \in 0 .. (Word - 1)
  BY Widths, WordIs
<1>2. Zero = [k \in 1 .. Limbs |-> Zero[k]] /\ \A k \in 1 .. Limbs : Zero[k] = 0
  BY DEF Zero
<1>3. BigOf(Zero, Limbs)
  BY <1>1, <1>2, BigFun DEF IsBig
<1>. DEFINE T == {k \in 0 .. Limbs : ValueOf(Zero, k) = 0}
<1>4. 0 \in T
  BY <1>1, ValueIs
<1>5. ASSUME NEW k \in 0 .. (Limbs - 1), k \in T PROVE k + 1 \in T
  <2>1. k \in Nat /\ k + 1 \in 0 .. Limbs /\ Zero[k + 1] = 0 /\ Pow(Word, k) \in Nat
    BY <1>1, <1>2, WordPow
  <2>2. ValueOf(Zero, k + 1) = ValueOf(Zero, k) + 0 * Pow(Word, k)
    BY <2>1, ValueIs
  <2>3. 0 * Pow(Word, k) = 0
    BY <2>1
  <2>. QED
    BY <1>5, <2>1, <2>2, <2>3
<1>. HIDE DEF T
<1>6. Limbs \in T
  BY <1>1, <1>4, <1>5, InductiveTo
<1>. QED
  BY <1>3, <1>6 DEF T, Value

LEMMA OneIs == BigOf(One, Limbs) /\ Value(One) = 1
<1>1. Limbs \in Nat \ {0} /\ 1 \in 1 .. Limbs /\ 0 \in 0 .. (Word - 1) /\ 1 \in 0 .. (Word - 1)
  BY Widths, WordIs
<1>2. One[1] = 1 /\ \A k \in 2 .. Limbs : One[k] = 0
  BY <1>1 DEF Zero, One
<1>3. One = [k \in 1 .. Limbs |-> One[k]]
  BY DEF Zero, One
<1>4. \A k \in 1 .. Limbs : One[k] \in 0 .. (Word - 1)
  <2>1. \A k \in 1 .. Limbs : k = 1 \/ k \in 2 .. Limbs
    BY <1>1
  <2>. QED
    BY <1>1, <1>2, <2>1
<1>5. BigOf(One, Limbs)
  BY <1>3, <1>4, BigFun DEF IsBig
<1>. DEFINE T == {j \in 0 .. (Limbs - 1) : ValueOf(One, 1 + j) = 1}
<1>6. 0 \in T
  <2>1. 0 \in Nat /\ 0 + 1 = 1 /\ 1 + 0 = 1 /\ 0 \in 0 .. (Limbs - 1) /\ 0 + 1 * 1 = 1
    BY <1>1
  <2>2. ValueOf(One, 0 + 1) = ValueOf(One, 0) + One[0 + 1] * Pow(Word, 0)
    BY <2>1, ValueIs
  <2>3. ValueOf(One, 1) = 0 + 1 * 1
    BY <1>2, <2>1, <2>2, ValueIs, PowIs
  <2>. QED
    BY <2>1, <2>3
<1>7. ASSUME NEW j \in 0 .. ((Limbs - 1) - 1), j \in T PROVE j + 1 \in T
  <2>. DEFINE k == 1 + j
  <2>1. k \in Nat /\ j + 1 \in 0 .. (Limbs - 1) /\ k + 1 = 1 + (j + 1) /\ k + 1 \in 2 .. Limbs
    BY <1>1
  <2>2. One[k + 1] = 0 /\ Pow(Word, k) \in Nat /\ ValueOf(One, k) = 1
    BY <1>2, <1>7, <2>1, WordPow
  <2>. HIDE DEF k
  <2>3. ValueOf(One, k + 1) = 1 + 0 * Pow(Word, k)
    BY <2>1, <2>2, ValueIs
  <2>4. 1 + 0 * Pow(Word, k) = 1
    BY <2>2
  <2>. QED
    BY <2>1, <2>3, <2>4
<1>. HIDE DEF T
<1>8. Limbs - 1 \in T
  <2>1. Limbs - 1 \in Nat /\ Limbs - 1 \in 0 .. (Limbs - 1)
    BY <1>1
  <2>2. \A j \in 0 .. (Limbs - 1) : j \in T
    BY <1>6, <1>7, <2>1, InductiveTo
  <2>. QED
    BY <2>1, <2>2
<1>9. 1 + (Limbs - 1) = Limbs
  BY <1>1
<1>. QED
  BY <1>5, <1>8, <1>9 DEF T, Value

LEMMA ToBigIs ==
    ASSUME NEW x \in 0 .. (R - 1)
    PROVE  BigOf(ToBig(x), Limbs) /\ Value(ToBig(x)) = x
<1>. DEFINE a == ToBig(x)
            digit(k) == (x \div Pow(Word, k)) % Word
            T == {k \in 0 .. Limbs : ValueOf(a, k) = x % Pow(Word, k)}
<1>1. Limbs \in Nat /\ Limbs \in 0 .. Limbs /\ Word \in Nat \ {0} /\ x \in Int /\ x \in Nat
  BY Widths, WordIs, RIs
<1>2. \A k \in Nat : digit(k) \in 0 .. (Word - 1) /\ x \div Pow(Word, k) \in Int
  <2>1. \A k \in Nat : Pow(Word, k) \in Nat \ {0}
    BY WordPow
  <2>2. \A k \in Nat : x \div Pow(Word, k) \in Int
    BY <1>1, <2>1, DivideBy
  <2>3. \A y \in Int : y % Word \in 0 .. (Word - 1)
    BY <1>1, DivideBy
  <2>. QED
    BY <2>2, <2>3
<1>3. a = [k \in 1 .. Limbs |-> a[k]] /\ \A k \in 0 .. (Limbs - 1) : a[k + 1] = digit(k)
  <2>. HIDE DEF digit
  <2>1. a = [k \in 1 .. Limbs |-> digit(k - 1)]
    BY DEF ToBig, digit
  <2>. HIDE DEF a
  <2>2. \A k \in 0 .. (Limbs - 1) : k + 1 \in 1 .. Limbs /\ (k + 1) - 1 = k
    BY <1>1
  <2>. QED
    BY <2>1, <2>2
<1>. HIDE DEF a, digit
<1>4. BigOf(a, Limbs)
  <2>1. \A k \in 1 .. Limbs : k - 1 \in Nat /\ k - 1 \in 0 .. (Limbs - 1) /\ (k - 1) + 1 = k
    BY <1>1
  <2>2. \A k \in 1 .. Limbs : a[k] \in 0 .. (Word - 1)
    BY <1>2, <1>3, <2>1
  <2>. QED
    BY <1>3, <2>2, BigFun DEF IsBig
<1>5. 0 \in T
  <2>1. ValueOf(a, 0) = 0 /\ Pow(Word, 0) = 1
    BY ValueIs, PowIs
  <2>2. x % 1 = 0
    BY <1>1
  <2>. QED
    BY <1>1, <2>1, <2>2
<1>6. ASSUME NEW k \in 0 .. (Limbs - 1), k \in T PROVE k + 1 \in T
  <2>. DEFINE p == Pow(Word, k)
              q == x \div p
              r == x % p
              h == q \div Word
              d == q % Word
  <2>1. k \in Nat /\ k + 1 \in 0 .. Limbs
    BY <1>1
  <2>2. p \in Nat \ {0} /\ Pow(Word, k + 1) = p * Word
    BY <2>1, WordPow
  <2>3. ValueOf(a, k + 1) = r + d * p
    BY <1>3, <1>6, <2>1, ValueIs DEF digit
  <2>. HIDE DEF p
  <2>4. q \in Int /\ r \in 0 .. (p - 1) /\ x = p * q + r
    BY <1>1, <2>2, DivideBy
  <2>. HIDE DEF q, r
  <2>5. h \in Int /\ d \in 0 .. (Word - 1) /\ q = Word * h + d
    BY <1>1, <2>4, DivideBy
  <2>. HIDE DEF h, d
  <2>6. p * q = (p * Word) * h + d * p
    <3>1. p * (Word * h + d) = p * (Word * h) + p * d
      <4>1. Word * h \in Int
        BY <1>1, <2>5
      <4>. QED
        BY <2>2, <2>5, <4>1, Distributes
    <3>2. p * (Word * h) = (p * Word) * h /\ p * d = d * p
      BY <1>1, <2>2, <2>5, Associates, Commutes
    <3>. QED
      BY <2>5, <3>1, <3>2
  <2>7. d * p + p <= Word * p
    BY <1>1, <2>2, <2>5, GrowsMore
  <2>8. Word * p = p * Word /\ d * p \in Nat /\ p * Word \in Nat \ {0} /\ (p * Word) * h \in Int
    BY <1>1, <2>2, <2>5
  <2>9. r + d * p \in 0 .. (p * Word - 1) /\ x = (p * Word) * h + (r + d * p)
    BY <2>2, <2>4, <2>6, <2>7, <2>8
  <2>. DEFINE c == p * Word
              y == r + d * p
  <2>10. x % c = y
    <3>1. c \in Nat \ {0} /\ y \in 0 .. (c - 1) /\ x = c * h + y
      BY <2>8, <2>9
    <3>. HIDE DEF c, y
    <3>. QED
      BY <2>5, <3>1, RestIs
  <2>. QED
    BY <2>1, <2>2, <2>3, <2>10 DEF p
<1>. HIDE DEF T
<1>7. Limbs \in T
  BY <1>1, <1>5, <1>6, InductiveTo
<1>8. Value(a) = x % R
  BY <1>7 DEF T, Value, R
<1>9. x % R = x
  <2>1. R \in Nat \ {0}
    BY RIs
  <2>. QED
    BY <2>1, RestSmall
<1>. QED
  BY <1>4, <1>8, <1>9 DEF a

-----------------------------------------------------------------------------
(* Doubling.                                                               *)
LEMMA DoubleIs ==
    ASSUME NEW a, NEW m, BigOf(a, Limbs), IsBig(m, Limbs), Value(a) < Value(m)
    PROVE  /\ BigOf(Double(a, m), Limbs) /\ Value(Double(a, m)) < Value(m)
           /\ Cong(Value(Double(a, m)), 2 * Value(a), Value(m))
<1>. DEFINE h == Word \div 2
            out(k) == IF k = 0 THEN 0 ELSE a[k] \div h
            b == [k \in 1 .. Limbs |-> ((2 * a[k]) % Word) + out(k - 1)]
<1>1. Limbs \in Nat \ {0} /\ Limbs \in 0 .. Limbs /\ Word \in Nat \ {0} /\ h \in Nat \ {0} /\ Word = 2 * h
  BY Widths, WordIs
<1>2. IsBig(a, Limbs)
  BY BigWords, Widths
<1>3. Double(a, m) = IF out(Limbs) = 1 THEN Sub(b, m) ELSE SubIfGe(b, m)
  BY DEF Double
<1>4. \A k \in 1 .. Limbs :
         /\ out(k) \in {0, 1}
         /\ ((2 * a[k]) % Word) \in 0 .. (Word - 2)
         /\ ((2 * a[k]) % Word) + out(k) * Word = 2 * a[k]
  <2>1. TAKE k \in 1 .. Limbs
  <2>. DEFINE x == a[k]
              q == x \div h
              r == x % h
  <2>2. x \in 0 .. (Word - 1) /\ x \in Int
    BY <1>2, <1>1 DEF IsBig
  <2>. HIDE DEF x, h
  <2>3. q \in Int /\ r \in 0 .. (h - 1) /\ x = h * q + r
    BY <1>1, <2>2, DivideBy
  <2>. HIDE DEF q, r
  <2>4. q \in {0, 1}
    <3>1. CASE q >= 2
      <4>1. 2 * h <= q * h /\ q * h = h * q
        BY <1>1, <2>3, <3>1, Grows, Commutes
      <4>. QED
        BY <1>1, <2>2, <2>3, <4>1
    <3>2. CASE q <= 0 - 1
      <4>1. 0 - q \in Nat /\ 1 <= 0 - q
        BY <2>3, <3>2
      <4>2. 1 * h <= (0 - q) * h
        BY <1>1, <4>1, Grows
      <4>3. (0 - q) * h = 0 - h * q /\ h * q \in Int
        BY <1>1, <2>3
      <4>. QED
        BY <1>1, <2>2, <2>3, <4>2, <4>3
    <3>. QED
      BY <2>3, <3>1, <3>2
  <2>5. 2 * x = Word * q + 2 * r /\ 2 * r \in 0 .. (Word - 2) /\ 2 * r \in 0 .. (Word - 1)
    <3>1. CASE q = 0
      BY <1>1, <2>3, <3>1
    <3>2. CASE q = 1
      BY <1>1, <2>3, <3>2
    <3>. QED
      BY <2>4, <3>1, <3>2
  <2>6. (2 * x) % Word = 2 * r
    <3>. DEFINE y == 2 * r
    <3>1. y \in 0 .. (Word - 1)
      BY <2>5
    <3>. HIDE DEF y
    <3>2. (Word * q + y) % Word = y
      BY <1>1, <2>3, <3>1, RestIs
    <3>. QED
      BY <2>5, <3>2 DEF y
  <2>7. out(k) = q /\ k # 0
    BY <1>1 DEF q, x
  <2>8. 2 * r + q * Word = 2 * x
    BY <1>1, <2>3, <2>4, <2>5
  <2>. QED
    BY <2>4, <2>5, <2>6, <2>7, <2>8 DEF x
<1>. DEFINE low(k) == (2 * a[k]) % Word
<1>. HIDE DEF h
<1>5. /\ \A k \in 1 .. Limbs : out(k) \in {0, 1} /\ low(k) \in 0 .. (Word - 2) /\ low(k) + out(k) * Word = 2 * a[k]
      /\ out(0) = 0
  BY <1>4
<1>6. b = [k \in 1 .. Limbs |-> low(k) + out(k - 1)]
  OBVIOUS
<1>. HIDE DEF out, b, low
<1>7. \A k \in 1 .. Limbs : b[k] = low(k) + out(k - 1) /\ b[k] \in 0 .. (Word - 1)
  <2>1. \A k \in 1 .. Limbs : out(k - 1) \in {0, 1}
    <3>1. \A k \in 1 .. Limbs : k - 1 = 0 \/ k - 1 \in 1 .. Limbs
      BY <1>1
    <3>. QED
      BY <1>5, <3>1
  <2>2. \A l \in 0 .. (Word - 2) : \A o \in {0, 1} : l + o \in 0 .. (Word - 1)
    BY <1>1
  <2>3. \A k \in 1 .. Limbs : b[k] = low(k) + out(k - 1)
    BY <1>6
  <2>4. \A k \in 1 .. Limbs : low(k) \in 0 .. (Word - 2)
    BY <1>5
  <2>. QED
    BY <2>1, <2>2, <2>3, <2>4
<1>8. BigOf(b, Limbs)
  <2>1. b = [k \in 1 .. Limbs |-> b[k]]
    BY <1>6
  <2>. QED
    BY <1>7, <2>1, BigFun DEF IsBig
<1>. DEFINE T == {k \in 0 .. Limbs : ValueOf(b, k) + out(k) * Pow(Word, k) = 2 * ValueOf(a, k)}
<1>9. 0 \in T
  BY <1>1, <1>5, ValueIs, PowIs
<1>10. ASSUME NEW k \in 0 .. (Limbs - 1), k \in T PROVE k + 1 \in T
  <2>. DEFINE p == Pow(Word, k)
              u == ValueOf(b, k)
              v == ValueOf(a, k)
              x == a[k + 1]
              l == low(k + 1)
              o == out(k)
              e == out(k + 1)
  <2>1. k \in Nat /\ k + 1 \in 0 .. Limbs /\ k + 1 \in 1 .. Limbs /\ (k + 1) - 1 = k
    BY <1>1
  <2>2. p \in Nat /\ Pow(Word, k + 1) = p * Word
    BY <2>1, WordPow
  <2>3. ValueOf(b, k + 1) = u + (l + o) * p /\ ValueOf(a, k + 1) = v + x * p
    <3>1. b[k + 1] = l + o
      BY <1>7, <2>1
    <3>. QED
      BY <2>1, <3>1, ValueIs
  <2>4. u \in Nat /\ v \in Nat
    <3>1. IsBig(b, Limbs) /\ k \in 0 .. Limbs
      BY <1>1, <1>8, BigWords
    <3>2. u \in 0 .. (p - 1) /\ v \in 0 .. (p - 1)
      BY <1>1, <1>2, <3>1, ValueBelow
    <3>. HIDE DEF p, u, v
    <3>. QED
      BY <2>2, <3>2
  <2>5. o \in {0, 1} /\ e \in {0, 1} /\ l \in Nat /\ l + e * Word = 2 * x
    <3>1. k = 0 \/ k \in 1 .. Limbs
      BY <1>1
    <3>2. o \in {0, 1}
      BY <1>5, <3>1
    <3>3. e \in {0, 1} /\ l \in 0 .. (Word - 2) /\ l + e * Word = 2 * x
      BY <1>5, <2>1
    <3>. HIDE DEF e, l, x
    <3>. QED
      BY <1>1, <3>2, <3>3
  <2>6. x \in Nat
    BY <1>1, <1>2, <2>1 DEF IsBig
  <2>7. u + o * p = 2 * v
    BY <1>10
  <2>. HIDE DEF p, u, v, x, l, o, e
  <2>8. (u + (l + o) * p) + e * (p * Word) = 2 * (v + x * p)
    <3>1. (l + e * Word) * p = l * p + e * (p * Word) /\ (2 * x) * p = 2 * (x * p)
      BY <1>1, <2>2, <2>5, <2>6
    <3>2. (l + o) * p = l * p + o * p
      BY <2>2, <2>5
    <3>3. l * p \in Nat /\ o * p \in Nat /\ e * (p * Word) \in Nat /\ x * p \in Nat
      BY <1>1, <2>2, <2>5, <2>6
    <3>. QED
      BY <2>4, <2>5, <2>7, <3>1, <3>2, <3>3
  <2>. QED
    BY <2>1, <2>2, <2>3, <2>8 DEF e
<1>. HIDE DEF T
<1>11. Limbs \in T
  BY <1>1, <1>9, <1>10, InductiveTo
<1>. DEFINE x == Value(a)
            y == Value(m)
            z == Value(b)
            o == out(Limbs)
            d == Value(Double(a, m))
<1>12. x \in 0 .. (R - 1) /\ y \in 0 .. (R - 1) /\ z \in 0 .. (R - 1) /\ R \in Nat /\ IsBig(b, Limbs)
  BY <1>1, <1>2, <1>8, BigWords, ValueIn, RIs
<1>13. z + o * R = 2 * x /\ o \in {0, 1}
  <2>1. z + o * R = 2 * x
    BY <1>11 DEF T, Value, R
  <2>2. o \in {0, 1}
    BY <1>1, <1>5
  <2>. QED
    BY <2>1, <2>2
<1>14. x < y
  OBVIOUS
<1>. HIDE DEF x, y, z, d, o
<1>15. CASE o = 1
  <2>1. Double(a, m) = Sub(b, m)
    BY <1>3, <1>15 DEF o, out
  <2>2. z < y
    BY <1>12, <1>13, <1>14, <1>15
  <2>3. d = z - y + R /\ BigOf(Double(a, m), Limbs)
    <3>1. ~ (z >= y)
      BY <1>12, <2>2
    <3>. QED
      BY <1>12, <2>1, <3>1, SubValue DEF d, z, y
  <2>4. d = 2 * x - y /\ d < y
    BY <1>12, <1>13, <1>14, <1>15, <2>3
  <2>5. Cong(d, 2 * x, y)
    <3>1. y \in Nat \ {0} /\ 2 * x \in Int
      BY <1>12, <1>14
    <3>2. Cong(2 * x - y, 2 * x, y)
      BY <3>1, CongDropsOne
    <3>. QED
      BY <2>4, <3>1, <3>2
  <2>. QED
    BY <2>3, <2>4, <2>5 DEF d, x, y
<1>16. CASE o = 0
  <2>1. Double(a, m) = SubIfGe(b, m)
    BY <1>3, <1>16 DEF o, out
  <2>2. z = 2 * x
    BY <1>12, <1>13, <1>16
  <2>3. BigOf(Double(a, m), Limbs) /\ d = IF z >= y THEN z - y ELSE z
    BY <1>8, <2>1, SubIfGeIs DEF d, z, y
  <2>4. y \in Nat \ {0} /\ 2 * x \in Int /\ d < y
    BY <1>12, <1>14, <2>2, <2>3
  <2>5. Cong(2 * x - y, 2 * x, y) /\ Cong(2 * x, 2 * x, y)
    BY <2>4, CongDropsOne, CongSame
  <2>6. Cong(d, 2 * x, y)
    <3>1. d = 2 * x - y \/ d = 2 * x
      BY <2>2, <2>3, <2>4
    <3>. QED
      BY <2>5, <3>1
  <2>. QED
    BY <2>3, <2>4, <2>6 DEF d, x, y
<1>. QED
  BY <1>13, <1>15, <1>16

-----------------------------------------------------------------------------
(* The inverse of the lowest word.                                         *)
(* Newton's iteration for 1/c modulo Word.                                 *)
Inverts(f, c, m) == f = [k \in 0 .. m |-> IF k = 0 THEN c ELSE LET y == f[k - 1] IN (y * (2 - c * y)) % Word]

LEMMA InvertsAre ==
    ASSUME NEW f, NEW c, NEW m \in Nat, Inverts(f, c, m)
    PROVE  f[0] = c /\ \A k \in 0 .. (m - 1) : f[k + 1] = LET y == f[k] IN (y * (2 - c * y)) % Word
<1>. DEFINE G(k, y) == (y * (2 - c * y)) % Word
<1>1. \A k \in 0 .. m : f[k] = IF k = 0 THEN c ELSE G(k, f[k - 1])
  BY DEF Inverts
<1>. HIDE DEF G
<1>2. 0 \in 0 .. m /\ \A k \in 0 .. (m - 1) : k + 1 \in 0 .. m /\ k + 1 # 0 /\ (k + 1) - 1 = k
  OBVIOUS
<1>3. f[0] = c /\ \A k \in 0 .. (m - 1) : f[k + 1] = G(k + 1, f[k])
  BY <1>1, <1>2
<1>. QED
  BY <1>3, Zenon DEF G

LEMMA SomeInverts == ASSUME NEW c PROVE \A m \in Nat : \E f : Inverts(f, c, m)
<1>. DEFINE T == {m \in Nat : \E f : Inverts(f, c, m)}
            G(k, y) == (y * (2 - c * y)) % Word
            z == c
<1>1. 0 \in T
  <2>. DEFINE g == [k \in 0 .. 0 |-> z]
  <2>1. g = [k \in 0 .. 0 |-> IF k = 0 THEN z ELSE G(k, g[k - 1])]
    <3>. HIDE DEF G, z
    <3>. QED
      OBVIOUS
  <2>2. Inverts(g, c, 0)
    <3>. HIDE DEF g
    <3>. QED
      BY <2>1, Zenon DEF Inverts, G, z
  <2>3. 0 \in Nat
    OBVIOUS
  <2>. QED
    BY <2>2, <2>3
<1>2. ASSUME NEW m \in Nat, m \in T PROVE m + 1 \in T
  <2>1. PICK f : Inverts(f, c, m)
    BY <1>2
  <2>2. f[0] = z /\ \A k \in 1 .. m : f[k] = G(k, f[k - 1])
    <3>1. \A k \in 0 .. m : f[k] = IF k = 0 THEN z ELSE G(k, f[k - 1])
      <4>1. f = [k \in 0 .. m |-> IF k = 0 THEN z ELSE G(k, f[k - 1])]
        BY <2>1, Zenon DEF Inverts, G, z
      <4>. HIDE DEF G, z
      <4>. QED
        BY <4>1
    <3>. HIDE DEF G, z
    <3>2. 0 \in 0 .. m /\ \A k \in 1 .. m : k \in 0 .. m /\ k # 0
      OBVIOUS
    <3>. QED
      BY <3>1, <3>2
  <2>. HIDE DEF G, z
  <2>. DEFINE g == [k \in 0 .. (m + 1) |-> IF k = m + 1 THEN G(m + 1, f[m]) ELSE f[k]]
  <2>3. ASSUME NEW k \in 0 .. (m + 1)
        PROVE  g[k] = IF k = 0 THEN z ELSE G(k, g[k - 1])
    <3>1. CASE k = 0
      BY <2>2, <3>1
    <3>2. CASE k = m + 1
      <4>1. g[k] = G(k, f[m]) /\ k - 1 = m /\ m \in 0 .. (m + 1) /\ m # m + 1 /\ k # 0
        BY <3>2
      <4>2. g[m] = f[m]
        BY <4>1
      <4>. QED
        BY <4>1, <4>2
    <3>3. CASE k \in 1 .. m
      <4>1. k # m + 1 /\ k - 1 # m + 1 /\ k # 0 /\ k - 1 \in 0 .. (m + 1)
        BY <3>3
      <4>2. g[k] = f[k] /\ g[k - 1] = f[k - 1]
        BY <4>1
      <4>. HIDE DEF g
      <4>. QED
        BY <4>1, <4>2, <2>2, <3>3
    <3>. QED
      BY <3>1, <3>2, <3>3
  <2>4. g = [k \in 0 .. (m + 1) |-> g[k]]
    OBVIOUS
  <2>. HIDE DEF g
  <2>5. g = [k \in 0 .. (m + 1) |-> IF k = 0 THEN z ELSE G(k, g[k - 1])]
    BY <2>3, <2>4
  <2>6. Inverts(g, c, m + 1)
    BY <2>5, Zenon DEF Inverts, G, z
  <2>7. m + 1 \in Nat
    OBVIOUS
  <2>. QED
    BY <2>6, <2>7
<1>. HIDE DEF T
<1>3. Nat \subseteq T
  BY <1>1, <1>2, Inductive
<1>. QED
  BY <1>3, Zenon DEF T

(* c * y is 1 but for multiples of e and of w.                             *)
Near(c, y, e, w) == \E a \in Int : \E b \in Int : c * y = 1 + (e * a + w * b)

LEMMA NearSquares ==
    ASSUME NEW c \in Int, NEW y \in Int, NEW e \in Int, NEW w \in Nat \ {0}, Near(c, y, e, w)
    PROVE  Near(c, (y * (2 - c * y)) % w, e * e, w)
<1>. DEFINE cy == c * y
            v == y * (2 - cy)
            z == v \div w
            r == v % w
<1>1. PICK a \in Int : \E b \in Int : cy = 1 + (e * a + w * b)
  BY DEF Near
<1>2. PICK b \in Int : cy = 1 + (e * a + w * b)
  BY <1>1
<1>3. cy \in Int
  OBVIOUS
<1>4. v \in Int /\ c * v = cy * (2 - cy)
  <2>1. 2 - cy \in Int /\ c * (y * (2 - cy)) = (c * y) * (2 - cy)
    BY <1>3, Associates
  <2>2. v \in Int
    BY <2>1, Commutes
  <2>. QED
    BY <2>1, <2>2
<1>. HIDE DEF v, cy
<1>5. z \in Int /\ r \in Int /\ v = w * z + r
  <2>1. z \in Int /\ r \in 0 .. (w - 1) /\ v = w * z + r
    BY <1>4, DivideBy
  <2>. QED
    BY <2>1
<1>. HIDE DEF z, r
<1>. DEFINE p == e * a
            q == w * b
            t == p + q
            ia == 0 - a * a
            j == 0 - ((2 * (p * b) + w * (b * b)) + c * z)
<1>6. p \in Int /\ q \in Int /\ t \in Int /\ ia \in Int /\ j \in Int
  <2>1. p \in Int /\ q \in Int /\ t \in Int
    OBVIOUS
  <2>2. a * a \in Int /\ b * b \in Int /\ p * b \in Int /\ c * z \in Int
    <3>. HIDE DEF p
    <3>. QED
      BY <2>1, <1>5
  <2>3. w * (b * b) \in Int
    BY <2>2, Commutes
  <2>. HIDE DEF p, q
  <2>. QED
    BY <2>1, <2>2, <2>3
<1>7. cy * (2 - cy) = 1 - t * t
  <2>1. cy = 1 + t
    BY <1>2
  <2>. HIDE DEF t
  <2>. QED
    BY <1>6, <2>1
<1>8. t * t = p * p + 2 * (p * q) + q * q
  <2>1. \A x, u \in Int : (x + u) * (x + u) = x * x + 2 * (x * u) + u * u
    OBVIOUS
  <2>. HIDE DEF p, q
  <2>. QED
    BY <1>6, <2>1
<1>9. p * p = (e * e) * (a * a)
  <2>1. \A x, u \in Int : (x * u) * (x * u) = (x * x) * (u * u)
    OBVIOUS
  <2>. QED
    BY <2>1
<1>10. p * q = w * (p * b) /\ q * q = w * (w * (b * b))
  <2>1. \A x, u \in Int : x * (w * u) = w * (x * u)
    OBVIOUS
  <2>2. (w * b) * (w * b) = w * (w * (b * b))
    <3>1. \A x, u \in Int : (x * u) * (x * u) = x * (x * (u * u))
      OBVIOUS
    <3>. QED
      BY <3>1
  <2>. HIDE DEF p
  <2>. QED
    BY <1>6, <2>1, <2>2
<1>11. c * r = cy * (2 - cy) - w * (c * z)
  <2>1. c * (w * z + r) = c * (w * z) + c * r
    <3>1. w * z \in Int
      BY <1>5
    <3>. QED
      BY <1>5, <3>1, Distributes
  <2>2. c * (w * z) = w * (c * z) /\ c * z \in Int /\ w * (c * z) \in Int /\ c * r \in Int
    BY <1>5
  <2>. QED
    BY <1>4, <1>5, <2>1, <2>2
<1>12. w * j = 0 - ((2 * (w * (p * b)) + w * (w * (b * b))) + w * (c * z))
  <2>. DEFINE x == p * b
              y2 == w * (b * b)
              y3 == c * z
  <2>1. x \in Int /\ y2 \in Int /\ y3 \in Int
    <3>1. b * b \in Int
      OBVIOUS
    <3>. HIDE DEF p
    <3>. QED
      BY <1>5, <1>6, <3>1, Commutes
  <2>. HIDE DEF x, y2, y3
  <2>2. w * (0 - ((2 * x + y2) + y3)) = 0 - ((2 * (w * x) + w * y2) + w * y3)
    BY <2>1
  <2>. QED
    BY <2>2 DEF x, y2, y3
<1>13. (e * e) * ia = 0 - (e * e) * (a * a)
  <2>1. \A x, u \in Int : x * (0 - u) = 0 - x * u
    OBVIOUS
  <2>2. e * e \in Int /\ a * a \in Int
    OBVIOUS
  <2>. QED
    BY <2>1, <2>2
<1>14. c * r = 1 + ((e * e) * ia + w * j)
  <2>. DEFINE k1 == (e * e) * (a * a)
              k2 == w * (p * b)
              k3 == w * (w * (b * b))
              k4 == w * (c * z)
  <2>1. k1 \in Int /\ k2 \in Int /\ k3 \in Int /\ k4 \in Int
    <3>1. \A x, u \in Int : x * u \in Int
      OBVIOUS
    <3>2. e * e \in Int /\ a * a \in Int /\ b * b \in Int /\ c * z \in Int /\ p * b \in Int /\ w \in Int
      <4>. HIDE DEF p
      <4>. QED
        BY <1>5, <1>6, <3>1
    <3>. HIDE DEF p
    <3>. QED
      BY <3>1, <3>2
  <2>2. t * t = k1 + 2 * k2 + k3
    BY <1>8, <1>9, <1>10
  <2>3. c * r = (1 - t * t) - k4
    BY <1>7, <1>11
  <2>4. (e * e) * ia = 0 - k1 /\ w * j = 0 - ((2 * k2 + k3) + k4)
    BY <1>12, <1>13
  <2>. HIDE DEF k1, k2, k3, k4, t, ia, j
  <2>5. c * r = (1 - (k1 + 2 * k2 + k3)) - k4
    BY <2>2, <2>3
  <2>. QED
    BY <2>1, <2>4, <2>5
<1>. HIDE DEF ia, j
<1>15. Near(c, r, e * e, w)
  BY <1>6, <1>14 DEF Near
<1>. QED
  BY <1>15 DEF r, v, cy

LEMMA OddSquare == ASSUME NEW c \in Int, c % 2 = 1 PROVE \E a \in Int : c * c = 1 + 8 * a
<1>. DEFINE j == c \div 2
            q == j \div 2
<1>1. j \in Int /\ c = 2 * j + 1
  OBVIOUS
<1>. HIDE DEF j
<1>2. q \in Int /\ (j = 2 * q \/ j = 2 * q + 1)
  BY <1>1
<1>. HIDE DEF q
<1>3. c * c = 1 + 4 * (j * (j + 1))
  BY <1>1
<1>4. \E a \in Int : j * (j + 1) = 2 * a
  <2>1. CASE j = 2 * q
    <3>1. j * (j + 1) = 2 * (q * (2 * q + 1)) /\ q * (2 * q + 1) \in Int
      BY <1>2, <2>1
    <3>. QED
      BY <3>1
  <2>2. CASE j = 2 * q + 1
    <3>1. j * (j + 1) = 2 * ((2 * q + 1) * (q + 1)) /\ (2 * q + 1) * (q + 1) \in Int
      BY <1>2, <2>2
    <3>. QED
      BY <3>1
  <2>. QED
    BY <1>2, <2>1, <2>2
<1>5. PICK a \in Int : j * (j + 1) = 2 * a
  BY <1>4
<1>6. c * c = 1 + 8 * a
  BY <1>3, <1>5
<1>. QED
  BY <1>6

LEMMA N0InvIs ==
    ASSUME NEW c \in 0 .. (Word - 1), c % 2 = 1
    PROVE  N0Inv(c) \in 0 .. (Word - 1) /\ Cong(c * N0Inv(c), 0 - 1, Word)
<1>. DEFINE h == CHOOSE f : Inverts(f, c, NewtonSteps)
            N == NewtonSteps
<1>1. N \in Nat /\ LimbBytes * BitsPerByte <= 3 * Pow(2, N)
  BY SignatureAssumption DEF SignatureAssumption
<1>2. N0Inv(c) = (0 - h[N]) % Word
  BY DEF N0Inv, Inverts
<1>3. Inverts(h, c, N)
  <2>1. \E f : Inverts(f, c, N)
    BY <1>1, SomeInverts
  <2>. QED
    BY <2>1
<1>. HIDE DEF h, N
<1>4. h[0] = c /\ \A k \in 0 .. (N - 1) : h[k + 1] = (h[k] * (2 - c * h[k])) % Word
  BY <1>1, <1>3, InvertsAre
<1>5. Word \in Nat \ {0} /\ c \in Int
  BY WordIs
<1>6. 2 \in Nat \ {0}
  OBVIOUS
<1>. DEFINE E(k) == Pow(2, 3 * Pow(2, k))
            T == {k \in 0 .. N : h[k] \in Int /\ Near(c, h[k], E(k), Word)}
<1>7. \A k \in Nat : 3 * Pow(2, k) \in Nat /\ E(k) \in Nat \ {0} /\ E(k + 1) = E(k) * E(k)
  <2>1. TAKE k \in Nat
  <2>. DEFINE x == Pow(2, k)
  <2>2. x \in Nat /\ Pow(2, k + 1) = x * 2
    BY <1>6, PowNat, PowIs
  <2>. HIDE DEF x
  <2>3. 3 * x \in Nat /\ 3 * (x * 2) = 3 * x + 3 * x
    BY <2>2
  <2>4. Pow(2, 3 * x + 3 * x) = Pow(2, 3 * x) * Pow(2, 3 * x) /\ Pow(2, 3 * x) \in Nat \ {0}
    BY <1>6, <2>3, PowAdds, PowNat
  <2>5. E(k + 1) = Pow(2, 3 * (x * 2))
    BY <2>2
  <2>. QED
    BY <2>3, <2>4, <2>5 DEF x
<1>8. E(0) = 8
  <2>1. Pow(2, 0) = 1 /\ 3 * 1 = 3
    BY PowIs
  <2>2. Pow(2, 0 + 1) = Pow(2, 0) * 2 /\ Pow(2, 1 + 1) = Pow(2, 1) * 2 /\ Pow(2, 2 + 1) = Pow(2, 2) * 2
    <3>1. 0 \in Nat /\ 1 \in Nat /\ 2 \in Nat
      OBVIOUS
    <3>. QED
      BY <3>1, PowIs
  <2>3. Pow(2, 1) = 2 /\ Pow(2, 2) = 4 /\ Pow(2, 3) = 8
    BY <2>1, <2>2
  <2>. QED
    BY <2>1, <2>3
<1>. HIDE DEF E
<1>9. 0 \in T
  <2>1. PICK a \in Int : c * c = 1 + 8 * a
    BY <1>5, OddSquare
  <2>2. 0 \in Int /\ c * c = 1 + (8 * a + Word * 0)
    BY <1>5, <2>1
  <2>3. Near(c, c, 8, Word)
    BY <2>2 DEF Near
  <2>4. 0 \in 0 .. N
    BY <1>1
  <2>. QED
    BY <1>4, <1>5, <1>8, <2>3, <2>4
<1>10. ASSUME NEW k \in 0 .. (N - 1), k \in T PROVE k + 1 \in T
  <2>. DEFINE y == h[k]
              e == E(k)
  <2>1. k \in Nat /\ k + 1 \in 0 .. N
    BY <1>1
  <2>2. y \in Int /\ Near(c, y, e, Word)
    BY <1>10
  <2>3. e \in Int /\ E(k + 1) = e * e
    BY <1>7, <2>1
  <2>4. h[k + 1] = (y * (2 - c * y)) % Word
    BY <1>4
  <2>. HIDE DEF y, e
  <2>5. Near(c, h[k + 1], E(k + 1), Word)
    BY <1>5, <2>2, <2>3, <2>4, NearSquares
  <2>6. h[k + 1] \in Int
    <3>1. c * y \in Int
      BY <1>5, <2>2
    <3>2. y * (2 - c * y) \in Int
      BY <2>2, <3>1
    <3>. QED
      BY <1>5, <2>4, <3>2, CongRest
  <2>. QED
    BY <2>1, <2>5, <2>6
<1>. HIDE DEF T
<1>11. N \in T
  <2>1. N \in 0 .. N
    BY <1>1
  <2>. QED
    BY <1>1, <1>9, <1>10, <2>1, InductiveTo
<1>. DEFINE y == h[N]
<1>12. y \in Int /\ Near(c, y, E(N), Word)
  BY <1>11 DEF T
<1>13. \E d \in Int : E(N) = Word * d
  <2>. DEFINE l == LimbBytes * BitsPerByte
              m == 3 * Pow(2, N)
  <2>1. l \in Nat /\ m \in Nat /\ m - l \in Nat /\ l + (m - l) = m
    <3>1. l \in Nat
      BY Widths
    <3>2. m \in Nat
      BY <1>1, <1>7
    <3>. HIDE DEF l, m
    <3>3. l <= m
      BY <1>1 DEF l, m
    <3>. QED
      BY <3>1, <3>2, <3>3
  <2>. HIDE DEF m, l
  <2>2. Pow(2, l + (m - l)) = Pow(2, l) * Pow(2, m - l) /\ Pow(2, m - l) \in Nat \ {0}
    BY <1>6, <2>1, PowAdds, PowNat
  <2>3. Word = Pow(2, l)
    BY WordIs DEF l
  <2>4. E(N) = Word * Pow(2, m - l)
    BY <2>1, <2>2, <2>3 DEF E, m
  <2>5. Pow(2, m - l) \in Int
    BY <2>2
  <2>. QED
    BY <2>4, <2>5
<1>14. PICK d \in Int : E(N) = Word * d
  BY <1>13
<1>. HIDE DEF y
<1>15. PICK a \in Int : \E b \in Int : c * y = 1 + ((Word * d) * a + Word * b)
  BY <1>12, <1>14 DEF Near
<1>16. PICK b \in Int : c * y = 1 + ((Word * d) * a + Word * b)
  BY <1>15
<1>17. Cong(c * y, 1, Word)
  <2>1. d * a + b \in Int
    OBVIOUS
  <2>2. Word * (d * a + b) = (Word * d) * a + Word * b
    <3>1. d * a \in Int
      OBVIOUS
    <3>2. Word * (d * a + b) = Word * (d * a) + Word * b
      BY <1>5, <3>1, Distributes
    <3>3. Word * (d * a) = (Word * d) * a
      BY <1>5, Associates
    <3>. QED
      BY <3>2, <3>3
  <2>3. c * y = 1 + Word * (d * a + b)
    BY <1>16, <2>2
  <2>. QED
    BY <2>1, <2>3 DEF Cong
<1>. DEFINE z == (0 - y) % Word
<1>18. z \in 0 .. (Word - 1) /\ Cong(z, 0 - y, Word)
  <2>. DEFINE x == 0 - y
  <2>1. x \in Int
    BY <1>12
  <2>. HIDE DEF x
  <2>2. (x % Word) \in 0 .. (Word - 1) /\ Cong(x % Word, x, Word)
    BY <1>5, <2>1, CongRest
  <2>. QED
    BY <2>2 DEF x
<1>. HIDE DEF z
<1>19. c * z \in Int /\ c * y \in Int /\ c * (0 - y) = (c * y) * (0 - 1) /\ 1 * (0 - 1) = 0 - 1 /\ z \in Int
       /\ c * (0 - y) \in Int
  BY <1>5, <1>12, <1>18
<1>20. Cong(c * z, c * (0 - y), Word)
  <2>1. 0 - y \in Int
    BY <1>12
  <2>. QED
    BY <1>5, <1>18, <1>19, <2>1, CongScales
<1>21. Cong((c * y) * (0 - 1), 1 * (0 - 1), Word)
  <2>1. 0 - 1 \in Int /\ 1 \in Int
    OBVIOUS
  <2>. QED
    BY <1>5, <1>17, <1>19, <2>1, CongScales
<1>22. Cong(c * z, 0 - 1, Word)
  <2>1. 0 - 1 \in Int
    OBVIOUS
  <2>2. Cong(c * (0 - y), 0 - 1, Word)
    BY <1>19, <1>21
  <2>. QED
    BY <1>5, <1>19, <1>20, <2>1, <2>2, CongOn
<1>. QED
  BY <1>2, <1>18, <1>22 DEF y, z

-----------------------------------------------------------------------------
(* A row of a product.                                                     *)
(* The words and the carry of t + x * b, shifted by row words.             *)
Added(y, t, row, x, b, k) ==
    LET term == IF k \in (row + 1) .. (row + Limbs) THEN x * b[k - row] ELSE 0
        sum == term + t[k] + y.carry
    IN  [words |-> Append(y.words, sum % Word), carry |-> sum \div Word]

Adds(f, t, row, x, b, m) ==
    f = [k \in 0 .. m |-> IF k = 0 THEN [words |-> <<>>, carry |-> 0] ELSE Added(f[k - 1], t, row, x, b, k)]

LEMMA AddsAre ==
    ASSUME NEW f, NEW t, NEW row, NEW x, NEW b, NEW m \in Nat, Adds(f, t, row, x, b, m)
    PROVE  /\ f[0] = [words |-> <<>>, carry |-> 0]
           /\ \A k \in 0 .. (m - 1) : f[k + 1] = Added(f[k], t, row, x, b, k + 1)
<1>. DEFINE G(k, y) == Added(y, t, row, x, b, k)
<1>1. \A k \in 0 .. m : f[k] = IF k = 0 THEN [words |-> <<>>, carry |-> 0] ELSE G(k, f[k - 1])
  BY DEF Adds
<1>. HIDE DEF G
<1>2. 0 \in 0 .. m /\ \A k \in 0 .. (m - 1) : k + 1 \in 0 .. m /\ k + 1 # 0 /\ (k + 1) - 1 = k
  OBVIOUS
<1>3. f[0] = [words |-> <<>>, carry |-> 0] /\ \A k \in 0 .. (m - 1) : f[k + 1] = G(k + 1, f[k])
  BY <1>1, <1>2
<1>. QED
  BY <1>3, Zenon DEF G

LEMMA SomeAdds ==
    ASSUME NEW t, NEW row, NEW x, NEW b
    PROVE  \A m \in Nat : \E f : Adds(f, t, row, x, b, m)
<1>. DEFINE T == {m \in Nat : \E f : Adds(f, t, row, x, b, m)}
            G(k, y) == Added(y, t, row, x, b, k)
            z == [words |-> <<>>, carry |-> 0]
<1>1. 0 \in T
  <2>. DEFINE g == [k \in 0 .. 0 |-> z]
  <2>1. g = [k \in 0 .. 0 |-> IF k = 0 THEN z ELSE G(k, g[k - 1])]
    <3>. HIDE DEF G, z
    <3>. QED
      OBVIOUS
  <2>2. Adds(g, t, row, x, b, 0)
    <3>. HIDE DEF g
    <3>. QED
      BY <2>1, Zenon DEF Adds, G, z
  <2>3. 0 \in Nat
    OBVIOUS
  <2>. QED
    BY <2>2, <2>3
<1>2. ASSUME NEW m \in Nat, m \in T PROVE m + 1 \in T
  <2>1. PICK f : Adds(f, t, row, x, b, m)
    BY <1>2
  <2>2. f[0] = z /\ \A k \in 1 .. m : f[k] = G(k, f[k - 1])
    <3>1. \A k \in 0 .. m : f[k] = IF k = 0 THEN z ELSE G(k, f[k - 1])
      <4>1. f = [k \in 0 .. m |-> IF k = 0 THEN z ELSE G(k, f[k - 1])]
        BY <2>1, Zenon DEF Adds, G, z
      <4>. HIDE DEF G, z
      <4>. QED
        BY <4>1
    <3>. HIDE DEF G, z
    <3>2. 0 \in 0 .. m /\ \A k \in 1 .. m : k \in 0 .. m /\ k # 0
      OBVIOUS
    <3>. QED
      BY <3>1, <3>2
  <2>. HIDE DEF G, z
  <2>. DEFINE g == [k \in 0 .. (m + 1) |-> IF k = m + 1 THEN G(m + 1, f[m]) ELSE f[k]]
  <2>3. ASSUME NEW k \in 0 .. (m + 1)
        PROVE  g[k] = IF k = 0 THEN z ELSE G(k, g[k - 1])
    <3>1. CASE k = 0
      BY <2>2, <3>1
    <3>2. CASE k = m + 1
      <4>1. g[k] = G(k, f[m]) /\ k - 1 = m /\ m \in 0 .. (m + 1) /\ m # m + 1 /\ k # 0
        BY <3>2
      <4>2. g[m] = f[m]
        BY <4>1
      <4>. QED
        BY <4>1, <4>2
    <3>3. CASE k \in 1 .. m
      <4>1. k # m + 1 /\ k - 1 # m + 1 /\ k # 0 /\ k - 1 \in 0 .. (m + 1)
        BY <3>3
      <4>2. g[k] = f[k] /\ g[k - 1] = f[k - 1]
        BY <4>1
      <4>. HIDE DEF g
      <4>. QED
        BY <4>1, <4>2, <2>2, <3>3
    <3>. QED
      BY <3>1, <3>2, <3>3
  <2>4. g = [k \in 0 .. (m + 1) |-> g[k]]
    OBVIOUS
  <2>. HIDE DEF g
  <2>5. g = [k \in 0 .. (m + 1) |-> IF k = 0 THEN z ELSE G(k, g[k - 1])]
    BY <2>3, <2>4
  <2>6. Adds(g, t, row, x, b, m + 1)
    BY <2>5, Zenon DEF Adds, G, z
  <2>7. m + 1 \in Nat
    OBVIOUS
  <2>. QED
    BY <2>6, <2>7
<1>. HIDE DEF T
<1>3. Nat \subseteq T
  BY <1>1, <1>2, Inductive
<1>. QED
  BY <1>3, Zenon DEF T

LEMMA TopIs == Top + 1 \in Nat /\ Top + 1 = 2 * Limbs + 2 /\ Top \in Nat
<1>1. Limbs \in Nat
  BY Widths
<1>. QED
  BY <1>1 DEF Top

LEMMA AddMulIs ==
    ASSUME NEW t, NEW row, NEW x, NEW b
    PROVE  \E f : Adds(f, t, row, x, b, Top + 1) /\ AddMul(t, row, x, b) = f[Top + 1].words
<1>. DEFINE h == CHOOSE f : Adds(f, t, row, x, b, Top + 1)
<1>1. AddMul(t, row, x, b) = h[Top + 1].words
  BY DEF AddMul, Adds, Added
<1>2. Adds(h, t, row, x, b, Top + 1)
  <2>1. \E f : Adds(f, t, row, x, b, Top + 1)
    BY SomeAdds, TopIs
  <2>. QED
    BY <2>1
<1>. HIDE DEF h
<1>. QED
  BY <1>1, <1>2

(* The word of b that is multiplied for the k-th word.                     *)
Digit(b, row, k) == IF k \in (row + 1) .. (row + Limbs) THEN b[k - row] ELSE 0

(* What the k-th step splits into a word and the carry.                    *)
Total(f, t, row, x, b, k) == x * Digit(b, row, k + 1) + t[k + 1] + f[k].carry

(* A sequence with one word more.                                          *)
Put(q, w) == Append(q, w)

LEMMA AddsStep ==
    ASSUME NEW f, NEW t, NEW row \in Nat, NEW x \in 0 .. (Word - 1), NEW b, IsBig(b, Limbs),
           NEW m \in Nat, Adds(f, t, row, x, b, m), NEW k \in 0 .. (m - 1)
    PROVE  /\ f[k + 1].words = Put(f[k].words, Total(f, t, row, x, b, k) % Word)
           /\ f[k + 1].carry = Total(f, t, row, x, b, k) \div Word
<1>. DEFINE term == IF (k + 1) \in (row + 1) .. (row + Limbs) THEN x * b[(k + 1) - row] ELSE 0
            sum == term + t[(k + 1)] + f[k].carry
<1>1. f[k + 1] = Added(f[k], t, row, x, b, k + 1)
  BY AddsAre
<1>2. f[k + 1] = [words |-> Append(f[k].words, sum % Word), carry |-> sum \div Word]
  BY <1>1, Zenon DEF Added
<1>3. sum = term + t[k + 1] + f[k].carry
  OBVIOUS
<1>4. term = x * Digit(b, row, k + 1)
  <2>1. x * 0 = 0
    BY WordIs
  <2>. QED
    BY <2>1 DEF Digit
<1>. HIDE DEF sum, term
<1>5. f[k + 1].words = Append(f[k].words, sum % Word) /\ f[k + 1].carry = sum \div Word
  BY <1>2
<1>6. sum = Total(f, t, row, x, b, k)
  BY <1>3, <1>4 DEF Total
<1>. QED
  BY <1>5, <1>6 DEF Put

LEMMA DigitIs ==
    ASSUME NEW b, IsBig(b, Limbs), NEW row \in Nat, NEW k \in Nat
    PROVE  Digit(b, row, k) \in 0 .. (Word - 1)
<1>1. CASE k \in (row + 1) .. (row + Limbs)
  <2>1. k - row \in 1 .. Limbs
    BY <1>1, Widths
  <2>. QED
    BY <1>1, <2>1 DEF Digit, IsBig
<1>2. CASE k \notin (row + 1) .. (row + Limbs)
  BY <1>2, WordIs DEF Digit
<1>. QED
  BY <1>1, <1>2

(* The part of b that the words up to the k-th have taken.                 *)
Taken(b, row, k) ==
    IF k <= row THEN 0 ELSE IF k <= row + Limbs THEN ValueOf(b, k - row) ELSE ValueOf(b, Limbs)

(* One word times a word, and what is carried.                             *)
LEMMA Carries ==
    ASSUME NEW w \in Nat \ {0}, NEW x \in 0 .. (w - 1), NEW y \in 0 .. (w - 1), NEW z \in 0 .. (w - 1),
           NEW c \in 0 .. (w - 1)
    PROVE  /\ x * y + z + c \in Nat
           /\ (x * y + z + c) % w \in 0 .. (w - 1)
           /\ (x * y + z + c) \div w \in 0 .. (w - 1)
           /\ ((x * y + z + c) % w) + w * ((x * y + z + c) \div w) = x * y + z + c
<1>. DEFINE sm == x * y + z + c
            q == sm \div w
            r == sm % w
<1>1. x * y \in Nat /\ sm \in Nat
  BY Naturals
<1>2. x * y <= (w - 1) * (w - 1)
  <2>1. x * y <= (w - 1) * y /\ (w - 1) * y <= (w - 1) * (w - 1)
    BY Grows
  <2>. QED
    BY <1>1, <2>1
<1>3. (w - 1) * (w - 1) = w * w - 2 * w + 1
  OBVIOUS
<1>. DEFINE ww == w * w
<1>4. sm < ww /\ ww \in Nat
  <2>1. ww \in Nat
    BY Naturals
  <2>. DEFINE p == x * y
  <2>2. p \in Nat /\ p <= ww - 2 * w + 1
    BY <1>1, <1>2, <1>3
  <2>. HIDE DEF p, ww
  <2>3. p + z + c < ww
    BY <2>1, <2>2
  <2>. QED
    BY <2>1, <2>3 DEF p
<1>. HIDE DEF sm
<1>5. q \in Nat /\ r \in 0 .. (w - 1) /\ sm = w * q + r
  <2>1. sm \in Int
    BY <1>1
  <2>2. r \in 0 .. (w - 1) /\ sm = w * q + r
    BY <2>1, DivideBy
  <2>3. q \in Nat
    BY <1>1, <2>1, DivideBy
  <2>. QED
    BY <2>2, <2>3
<1>. HIDE DEF q, r
<1>6. q \in 0 .. (w - 1)
  <2>1. CASE q >= w
    <3>1. w * w <= w * q
      BY <1>5, <2>1, Grows
    <3>. QED
      BY <1>4, <1>5, <3>1
  <2>. QED
    BY <1>5, <2>1
<1>7. r + w * q = sm
  BY <1>5
<1>. QED
  BY <1>1, <1>5, <1>6, <1>7 DEF sm, q, r

LEMMA TakenIs ==
    ASSUME NEW b, IsBig(b, Limbs), NEW row \in Nat, NEW k \in Nat
    PROVE  /\ Taken(b, row, k) \in Nat
           /\ Taken(b, row, k + 1) * Pow(Word, row) =
                Taken(b, row, k) * Pow(Word, row)
                + Digit(b, row, k + 1) * Pow(Word, k)
<1>. DEFINE p == Pow(Word, row)
            u == Taken(b, row, k)
            v == Taken(b, row, k + 1)
<1>1. Limbs \in Nat \ {0} /\ Limbs \in 0 .. Limbs /\ Limbs \in Nat
  BY Widths
<1>2. p \in Nat /\ Pow(Word, k) \in Nat
  BY WordPow
<1>3. \A j \in 0 .. Limbs : ValueOf(b, j) \in Nat
  <2>1. \A j \in 0 .. Limbs : Pow(Word, j) \in Nat /\ ValueOf(b, j) \in 0 .. (Pow(Word, j) - 1)
    BY <1>1, WordPow, ValueBelow
  <2>. QED
    BY <2>1
<1>4. u \in Nat
  <2>1. CASE k <= row
    BY <2>1 DEF Taken
  <2>2. CASE ~ (k <= row) /\ k <= row + Limbs
    <3>1. u = ValueOf(b, k - row) /\ k - row \in 0 .. Limbs
      BY <1>1, <2>2 DEF Taken
    <3>. QED
      BY <1>3, <3>1
  <2>3. CASE ~ (k <= row) /\ ~ (k <= row + Limbs)
    <3>1. u = ValueOf(b, Limbs)
      BY <2>3 DEF Taken
    <3>. QED
      BY <1>1, <1>3, <3>1
  <2>. QED
    BY <2>1, <2>2, <2>3
<1>5. CASE k + 1 \in (row + 1) .. (row + Limbs)
  <2>. DEFINE j == k - row
              w == b[k + 1 - row]
              q == Pow(Word, j)
  <2>1. j \in Nat /\ j \in 0 .. Limbs /\ j + 1 = k + 1 - row /\ j + 1 \in 1 .. Limbs /\ k = row + j
    BY <1>1, <1>5
  <2>2. v = ValueOf(b, j + 1)
    <3>1. ~ (k + 1 <= row) /\ k + 1 <= row + Limbs /\ k + 1 - row = j + 1
      BY <1>1, <1>5
    <3>. QED
      BY <3>1 DEF Taken
  <2>3. u = ValueOf(b, j)
    <3>1. CASE k <= row
      <4>1. j = 0 /\ u = 0
        BY <2>1, <3>1 DEF Taken
      <4>. QED
        BY <4>1, ValueIs
    <3>2. CASE ~ (k <= row)
      <4>1. k <= row + Limbs
        BY <1>1, <1>5
      <4>. QED
        BY <3>2, <4>1 DEF Taken
    <3>. QED
      BY <3>1, <3>2
  <2>4. v = u + w * q
    <3>1. ValueOf(b, j + 1) = ValueOf(b, j) + b[j + 1] * q
      <4>. HIDE DEF j
      <4>. QED
        BY <2>1, ValueIs
    <3>. QED
      BY <2>1, <2>2, <2>3, <3>1
  <2>5. Pow(Word, k) = p * q /\ q \in Nat
    <3>1. Word \in Nat \ {0}
      BY WordIs
    <3>. HIDE DEF j
    <3>2. Pow(Word, row + j) = Pow(Word, row) * Pow(Word, j) /\ Pow(Word, j) \in Nat
      BY <2>1, <3>1, PowAdds, PowNat
    <3>. QED
      BY <2>1, <3>2
  <2>6. w \in Nat
    <3>1. w \in 0 .. (Word - 1)
      BY <2>1 DEF IsBig
    <3>. HIDE DEF w
    <3>. QED
      BY <3>1, WordIs
  <2>. HIDE DEF u, v, p, q, w, j
  <2>7. (u + w * q) * p = u * p + w * (p * q)
    <3>1. w * q \in Nat /\ (u + w * q) * p = u * p + (w * q) * p
      BY <1>2, <1>4, <2>5, <2>6, Naturals, Distributes
    <3>2. (w * q) * p = w * (p * q)
      BY <1>2, <2>5, <2>6
    <3>. QED
      BY <3>1, <3>2
  <2>8. Digit(b, row, k + 1) = w
    BY <1>5 DEF Digit, w
  <2>. QED
    BY <1>4, <2>4, <2>5, <2>7, <2>8 DEF u, v, p
<1>6. CASE k + 1 \notin (row + 1) .. (row + Limbs)
  <2>1. v = u
    <3>1. CASE k + 1 <= row
      <4>1. k <= row
        BY <3>1
      <4>. QED
        BY <3>1, <4>1 DEF Taken
    <3>2. CASE ~ (k + 1 <= row)
      <4>1. ~ (k + 1 <= row + Limbs)
        BY <1>1, <1>6, <3>2
      <4>2. v = ValueOf(b, Limbs)
        BY <3>2, <4>1 DEF Taken
      <4>3. CASE k <= row + Limbs
        <5>1. k = row + Limbs /\ ~ (k <= row) /\ k - row = Limbs
          BY <1>1, <4>1, <4>3
        <5>. QED
          BY <4>2, <4>3, <5>1 DEF Taken
      <4>4. CASE ~ (k <= row + Limbs)
        <5>1. ~ (k <= row)
          BY <1>1, <4>4
        <5>. QED
          BY <4>2, <4>4, <5>1 DEF Taken
      <4>. QED
        BY <4>3, <4>4
    <3>. QED
      BY <3>1, <3>2
  <2>. HIDE DEF u, v, p
  <2>2. u * p = u * p + 0 * Pow(Word, k)
    <3>1. u * p \in Nat /\ 0 * Pow(Word, k) = 0
      BY <1>2, <1>4
    <3>. QED
      BY <3>1
  <2>3. Digit(b, row, k + 1) = 0
    BY <1>6 DEF Digit
  <2>. QED
    BY <1>4, <2>1, <2>2, <2>3 DEF u, v, p
<1>. QED
  BY <1>5, <1>6

LEMMA AddMulCarries ==
    ASSUME NEW t, IsBig(t, Top + 1), NEW row \in Nat, NEW x \in 0 .. (Word - 1), NEW b, IsBig(b, Limbs)
    PROVE  \E c \in Nat :
              /\ BigOf(AddMul(t, row, x, b), Top + 1)
              /\ ValueOf(AddMul(t, row, x, b), Top + 1) + c * Pow(Word, Top + 1)
                   = ValueOf(t, Top + 1) + x * (Taken(b, row, Top + 1) * Pow(Word, row))
<1>. DEFINE M == Top + 1
            P == Pow(Word, row)
            Holds(r, k) ==
              /\ r.carry \in 0 .. (Word - 1) /\ BigOf(r.words, k)
              /\ ValueOf(r.words, k) + r.carry * Pow(Word, k) = ValueOf(t, k) + x * (Taken(b, row, k) * P)
            digit(k) == Digit(b, row, k)
<1>1. PICK f : Adds(f, t, row, x, b, M) /\ AddMul(t, row, x, b) = f[M].words
  BY AddMulIs
<1>2. M \in Nat /\ Limbs \in Nat /\ Word \in Nat \ {0} /\ Word >= 4 /\ x \in Nat /\ P \in Nat
  <2>1. M \in Nat /\ Limbs \in Nat
    BY TopIs, Widths
  <2>2. Word \in Nat \ {0} /\ Word >= 4
    BY WordIs
  <2>3. P \in Nat
    BY WordPow
  <2>4. x \in Nat
    BY <2>2
  <2>. QED
    BY <2>1, <2>2, <2>3, <2>4
<1>. HIDE DEF M
<1>3. \A k \in 0 .. (M - 1) :
         /\ f[k + 1].words = Put(f[k].words, Total(f, t, row, x, b, k) % Word)
         /\ f[k + 1].carry = Total(f, t, row, x, b, k) \div Word
  BY <1>1, <1>2, AddsStep
<1>4. \A k \in Nat : digit(k) \in 0 .. (Word - 1)
  BY DigitIs
<1>5. \A k \in Nat : /\ Taken(b, row, k) \in Nat
                     /\ Taken(b, row, k + 1) * P = Taken(b, row, k) * P + digit(k + 1) * Pow(Word, k)
  BY TakenIs
<1>. HIDE DEF digit, P
<1>. DEFINE T == {k \in 0 .. M : Holds(f[k], k)}
<1>6. 0 \in T
  <2>1. f[0].words = <<>> /\ f[0].carry = 0
    <3>1. f[0] = [words |-> <<>>, carry |-> 0]
      BY <1>1, <1>2, AddsAre
    <3>. QED
      BY <3>1
  <2>2. BigOf(<<>>, 0) /\ ValueOf(<<>>, 0) = 0 /\ ValueOf(t, 0) = 0 /\ Pow(Word, 0) = 1
    BY ValueIs, PowIs DEF BigOf
  <2>3. Taken(b, row, 0) = 0
    <3>1. 0 <= row
      OBVIOUS
    <3>. QED
      BY <3>1 DEF Taken
  <2>4. 0 + 0 * 1 = 0 + x * (0 * P)
    BY <1>2
  <2>5. 0 \in 0 .. M /\ 0 \in 0 .. (Word - 1)
    BY <1>2
  <2>. QED
    BY <2>1, <2>2, <2>3, <2>4, <2>5
<1>7. ASSUME NEW k \in 0 .. (M - 1), k \in T PROVE k + 1 \in T
  <2>. DEFINE y == digit(k + 1)
              z == t[k + 1]
              c == f[k].carry
              q == f[k].words
              sm == x * y + z + c
              w == sm % Word
              d == sm \div Word
              p == Pow(Word, k)
  <2>1. k \in Nat /\ k + 1 \in 1 .. M /\ k + 1 \in 0 .. M /\ k + 1 \in Nat
    BY <1>2
  <2>2. y \in 0 .. (Word - 1) /\ z \in 0 .. (Word - 1)
    <3>1. z \in 0 .. (Word - 1)
      BY <2>1 DEF IsBig, M
    <3>. QED
      BY <1>4, <2>1, <3>1
  <2>3. c \in 0 .. (Word - 1) /\ BigOf(q, k)
    BY <1>7
  <2>4. f[k + 1].words = Append(q, w) /\ f[k + 1].carry = d
    <3>1. Total(f, t, row, x, b, k) = sm
      BY DEF Total, digit
    <3>2. f[k + 1].words = Put(q, w) /\ f[k + 1].carry = d
      BY <1>3, <3>1
    <3>. QED
      BY <3>2 DEF Put
  <2>5. w \in 0 .. (Word - 1) /\ d \in 0 .. (Word - 1) /\ w + Word * d = sm
    <3>. HIDE DEF y, z, c
    <3>. QED
      BY <1>2, <2>2, <2>3, Carries
  <2>. HIDE DEF q, w, d
  <2>6. BigOf(Append(q, w), k + 1) /\ ValueOf(Append(q, w), k + 1) = ValueOf(q, k) + w * p
    BY <2>1, <2>3, <2>5, BigAppends
  <2>7. ValueOf(t, k + 1) = ValueOf(t, k) + z * p
    BY <2>1, ValueIs
  <2>8. p \in Nat /\ Pow(Word, k + 1) = p * Word
    BY <2>1, WordPow
  <2>. DEFINE u == ValueOf(q, k)
              v == ValueOf(t, k)
              g == Taken(b, row, k) * P
  <2>9. u + c * p = v + x * g
    BY <1>7 DEF q
  <2>10. Taken(b, row, k + 1) * P = g + y * p /\ g \in Nat
    <3>1. Taken(b, row, k) \in Nat
      BY <1>5, <2>1
    <3>2. g \in Nat
      BY <1>2, <3>1, Naturals
    <3>. QED
      BY <1>5, <2>1, <3>2
  <2>11. u \in Nat /\ v \in Nat
    <3>1. IsBig(q, k)
      BY <2>1, <2>3, BigWords
    <3>2. k \in 0 .. k /\ k \in 0 .. M
      BY <1>2, <2>1
    <3>3. u \in 0 .. (p - 1) /\ v \in 0 .. (p - 1)
      BY <1>2, <2>1, <3>1, <3>2, ValueBelow DEF M
    <3>. HIDE DEF u, v, p
    <3>. QED
      BY <2>8, <3>3
  <2>. HIDE DEF u, v, g, y, z, c, p
  <2>12. (u + w * p) + d * (p * Word) = (v + z * p) + x * (g + y * p)
    <3>1. (w + Word * d) * p = w * p + d * (p * Word)
      BY <1>2, <2>5, <2>8
    <3>2. (x * y + z + c) * p = x * (y * p) + z * p + c * p
      BY <1>2, <2>2, <2>3, <2>8
    <3>3. x * (g + y * p) = x * g + x * (y * p)
      BY <1>2, <2>2, <2>8, <2>10, Naturals, Distributes
    <3>4. w * p \in Nat /\ d * (p * Word) \in Nat /\ x * (y * p) \in Nat /\ z * p \in Nat /\ c * p \in Nat /\ x * g \in Nat
      BY <1>2, <2>2, <2>3, <2>5, <2>8, <2>10
    <3>5. w * p + d * (p * Word) = x * (y * p) + z * p + c * p
      BY <2>5, <3>1, <3>2
    <3>. QED
      BY <2>9, <2>11, <3>3, <3>4, <3>5
  <2>13. Holds(f[k + 1], k + 1)
    BY <2>4, <2>5, <2>6, <2>7, <2>8, <2>10, <2>12 DEF u, v, p
  <2>. HIDE DEF Holds
  <2>. QED
    BY <2>1, <2>13
<1>. HIDE DEF T
<1>8. M \in T
  <2>1. M \in 0 .. M
    BY <1>2
  <2>. QED
    BY <1>2, <1>6, <1>7, <2>1, InductiveTo
<1>9. Holds(f[M], M)
  BY <1>8 DEF T
<1>10. f[M].carry \in Nat
  <2>1. f[M].carry \in 0 .. (Word - 1)
    BY <1>9
  <2>. QED
    BY <1>2, <2>1
<1>. QED
  BY <1>1, <1>9, <1>10 DEF M, P

(* Where the carry ends.                                                   *)
LEMMA AddMulValue ==
    ASSUME NEW t, IsBig(t, Top + 1), NEW row \in 0 .. (Limbs - 1), NEW x \in 0 .. (Word - 1),
           NEW b, IsBig(b, Limbs),
           ValueOf(t, Top + 1) + x * (Value(b) * Pow(Word, row)) < Pow(Word, Top + 1)
    PROVE  /\ BigOf(AddMul(t, row, x, b), Top + 1)
           /\ ValueOf(AddMul(t, row, x, b), Top + 1) = ValueOf(t, Top + 1) + x * (Value(b) * Pow(Word, row))
<1>. DEFINE M == Top + 1
            r == AddMul(t, row, x, b)
            W == Pow(Word, M)
            v == ValueOf(t, M) + x * (Value(b) * Pow(Word, row))
<1>1. M \in Nat /\ M = 2 * Limbs + 2 /\ Limbs \in Nat \ {0} /\ row \in Nat
  BY TopIs, Widths
<1>2. Taken(b, row, M) = Value(b)
  <2>1. ~ (M <= row) /\ (M <= row + Limbs => FALSE)
    BY <1>1
  <2>. HIDE DEF M
  <2>. QED
    BY <2>1 DEF Taken, Value
<1>3. PICK c \in Nat : BigOf(r, M) /\ ValueOf(r, M) + c * W = v
  BY <1>1, <1>2, AddMulCarries
<1>4. ValueOf(r, M) \in Nat /\ W \in Nat \ {0}
  <2>1. W \in Nat \ {0} /\ IsBig(r, M) /\ M \in 0 .. M
    BY <1>1, <1>3, WordPow, BigWords
  <2>2. ValueOf(r, M) \in 0 .. (W - 1)
    BY <1>1, <2>1, ValueBelow
  <2>. HIDE DEF W, r
  <2>. QED
    BY <2>1, <2>2
<1>5. v < W
  OBVIOUS
<1>6. c = 0 /\ ValueOf(r, M) = v
  <2>. DEFINE e == ValueOf(r, M)
  <2>1. e \in Nat /\ e + c * W = v
    BY <1>3, <1>4
  <2>. HIDE DEF e, W, v
  <2>2. c = 0
    <3>1. CASE c >= 1
      <4>1. 1 * W <= c * W /\ c * W \in Nat
        BY <1>4, <3>1, Grows, Naturals
      <4>. QED
        BY <1>4, <1>5, <2>1, <4>1
    <3>. QED
      BY <3>1
  <2>. QED
    BY <1>4, <2>1, <2>2 DEF e
<1>. QED
  BY <1>3, <1>6

LEMMA PowGrows ==
    ASSUME NEW j \in Nat, NEW k \in Nat, j <= k
    PROVE  Pow(Word, j) <= Pow(Word, k)
<1>. DEFINE d == k - j
<1>1. d \in Nat /\ j + d = k /\ Word \in Nat \ {0}
  BY WordIs
<1>. HIDE DEF d
<1>2. Pow(Word, j + d) = Pow(Word, j) * Pow(Word, d) /\ Pow(Word, j) \in Nat /\ Pow(Word, d) \in Nat \ {0}
  BY <1>1, PowAdds, PowNat
<1>. DEFINE p == Pow(Word, j)
            q == Pow(Word, d)
<1>3. p * 1 <= p * q
  <2>1. p \in Nat /\ q \in Nat /\ 1 <= q
    BY <1>2
  <2>. HIDE DEF p, q
  <2>. QED
    BY <2>1, Grows
<1>4. p * 1 = p
  BY <1>2
<1>. QED
  BY <1>1, <1>2, <1>3, <1>4

(* Two products of numbers below R have room in t, and in one word less.   *)
LEMMA TwoFit ==
    ASSUME NEW x \in 0 .. (R - 1), NEW y \in 0 .. (R - 1), NEW u \in 0 .. (R - 1), NEW v \in 0 .. (R - 1)
    PROVE  x * y + u * v < Pow(Word, Top) /\ x * y + u * v < Pow(Word, Top + 1)
<1>1. R \in Nat /\ R >= 4 /\ Word \in Nat /\ Word >= 4 /\ Limbs \in Nat
  BY RIs, WordIs, Widths
<1>2. Pow(Word, Top) = (R * R) * Word
  <2>1. Top = (Limbs + Limbs) + 1 /\ Limbs + Limbs \in Nat /\ Word \in Nat \ {0}
    BY <1>1 DEF Top
  <2>2. Pow(Word, Limbs + Limbs) = R * R
    BY <1>1, <2>1, PowAdds DEF R
  <2>. QED
    BY <2>1, <2>2, PowIs
<1>3. Pow(Word, Top) <= Pow(Word, Top + 1)
  <2>1. Top \in Nat /\ Top + 1 \in Nat /\ Top <= Top + 1
    BY TopIs
  <2>. QED
    BY <2>1, PowGrows
<1>. DEFINE s2 == R * R
<1>4. s2 \in Nat \ {0}
  BY <1>1
<1>5. \A g, h \in 0 .. (R - 1) : g * h \in Nat /\ g * h < s2
  <2>1. TAKE g, h \in 0 .. (R - 1)
  <2>2. g \in Nat /\ h \in Nat /\ g < R /\ h <= R /\ R \in Nat \ {0}
    BY <1>1
  <2>3. g * h <= g * R /\ g * R < R * R /\ g * h \in Nat /\ g * R \in Nat
    BY <2>2, Grows, GrowsMore, Naturals
  <2>. QED
    BY <1>4, <2>3
<1>6. x * y \in Nat /\ x * y < s2 /\ u * v \in Nat /\ u * v < s2
  BY <1>5
<1>. HIDE DEF s2
<1>7. s2 * 4 <= s2 * Word
  BY <1>1, <1>4, Grows
<1>8. Pow(Word, Top) \in Nat /\ Pow(Word, Top + 1) \in Nat /\ Pow(Word, Top) = s2 * Word
  BY <1>2, TopIs, WordPow DEF s2
<1>. DEFINE xy == x * y
            uv == u * v
<1>. HIDE DEF xy, uv
<1>9. xy + uv < Pow(Word, Top)
  <2>1. xy \in Nat /\ uv \in Nat /\ xy < s2 /\ uv < s2
    BY <1>6 DEF xy, uv
  <2>. QED
    BY <1>4, <1>7, <1>8, <2>1
<1>10. xy + uv < Pow(Word, Top + 1)
  <2>1. xy \in Nat /\ uv \in Nat
    BY <1>6 DEF xy, uv
  <2>. QED
    BY <1>3, <1>8, <1>9, <2>1
<1>. QED
  BY <1>9, <1>10 DEF xy, uv

(* Modulo a word, a number is its lowest word.                             *)
LEMMA LowestWord ==
    ASSUME NEW m \in Nat \ {0}, NEW a, IsBig(a, m)
    PROVE  Cong(ValueOf(a, m), a[1], Word) /\ ValueOf(a, m) \in Nat /\ a[1] \in 0 .. (Word - 1)
<1>. DEFINE b == [k \in 1 .. (m - 1) |-> a[1 + k]]
            j == m - 1
            v == ValueOf(b, j)
<1>1. j \in Nat /\ 1 + j = m /\ 1 \in 1 .. m /\ j \in 0 .. j /\ 1 \in Nat /\ 0 + 1 = 1 /\ 0 \in Nat /\ m \in 0 .. m
  OBVIOUS
<1>2. a[1] \in 0 .. (Word - 1) /\ Word \in Nat \ {0}
  <2>1. a[1] \in 0 .. (Word - 1)
    BY <1>1 DEF IsBig
  <2>. QED
    BY <2>1, WordIs
<1>3. \A k \in 1 .. j : b[k] = a[1 + k]
  OBVIOUS
<1>4. IsBig(b, j)
  <2>1. \A k \in 1 .. j : 1 + k \in 1 .. m
    OBVIOUS
  <2>. QED
    BY <2>1, <1>3 DEF IsBig
<1>. HIDE DEF b, j
<1>5. ValueOf(a, 1 + j) = ValueOf(a, 1) + Pow(Word, 1) * v
  <2>1. IsBig(a, 1 + j)
    BY <1>1
  <2>. QED
    BY <1>1, <1>3, <2>1, ValueSplits
<1>6. Pow(Word, 1) = Word
  <2>1. Pow(Word, 0 + 1) = 1 * Word
    BY <1>1, PowIs
  <2>. QED
    BY <1>1, <1>2, <2>1
<1>7. ValueOf(a, 1) = a[1]
  <2>1. ValueOf(a, 0 + 1) = 0 + a[0 + 1] * 1
    BY <1>1, ValueIs, PowIs
  <2>2. 0 + a[1] * 1 = a[1]
    BY <1>2
  <2>. QED
    BY <1>1, <2>1, <2>2
<1>8. v \in Int
  <2>1. v \in 0 .. (Pow(Word, j) - 1)
    BY <1>1, <1>4, ValueBelow
  <2>. QED
    BY <2>1
<1>9. ValueOf(a, m) = a[1] + Word * v
  BY <1>1, <1>5, <1>6, <1>7
<1>10. ValueOf(a, m) \in Nat
  <2>1. Pow(Word, m) \in Nat /\ ValueOf(a, m) \in 0 .. (Pow(Word, m) - 1)
    BY <1>1, WordPow, ValueBelow
  <2>. QED
    BY <2>1
<1>. QED
  BY <1>2, <1>8, <1>9, <1>10 DEF Cong

-----------------------------------------------------------------------------
(* The rows of a Montgomery product.                                       *)
(* The words of t after each row.                                          *)
NextRow(y, a, b, md, inv, k) ==
    LET u == AddMul(y, k - 1, a[k], b)
    IN  AddMul(u, k - 1, (u[k] * inv) % Word, md)

Rowed(f, a, b, md, inv, m) ==
    f = [k \in 0 .. m |-> IF k = 0 THEN [j \in 1 .. (Top + 1) |-> 0] ELSE NextRow(f[k - 1], a, b, md, inv, k)]

LEMMA RowedAre ==
    ASSUME NEW f, NEW a, NEW b, NEW md, NEW inv, NEW m \in Nat, Rowed(f, a, b, md, inv, m)
    PROVE  /\ f[0] = [j \in 1 .. (Top + 1) |-> 0]
           /\ \A k \in 0 .. (m - 1) : f[k + 1] = NextRow(f[k], a, b, md, inv, k + 1)
<1>. DEFINE G(k, y) == NextRow(y, a, b, md, inv, k)
<1>1. \A k \in 0 .. m : f[k] = IF k = 0 THEN [j \in 1 .. (Top + 1) |-> 0] ELSE G(k, f[k - 1])
  BY DEF Rowed
<1>. HIDE DEF G
<1>2. 0 \in 0 .. m /\ \A k \in 0 .. (m - 1) : k + 1 \in 0 .. m /\ k + 1 # 0 /\ (k + 1) - 1 = k
  OBVIOUS
<1>3. f[0] = [j \in 1 .. (Top + 1) |-> 0] /\ \A k \in 0 .. (m - 1) : f[k + 1] = G(k + 1, f[k])
  BY <1>1, <1>2
<1>. QED
  BY <1>3, Zenon DEF G

LEMMA SomeRowed ==
    ASSUME NEW a, NEW b, NEW md, NEW inv
    PROVE  \A m \in Nat : \E f : Rowed(f, a, b, md, inv, m)
<1>. DEFINE T == {m \in Nat : \E f : Rowed(f, a, b, md, inv, m)}
            G(k, y) == NextRow(y, a, b, md, inv, k)
            z == [j \in 1 .. (Top + 1) |-> 0]
<1>1. 0 \in T
  <2>. DEFINE g == [k \in 0 .. 0 |-> z]
  <2>1. g = [k \in 0 .. 0 |-> IF k = 0 THEN z ELSE G(k, g[k - 1])]
    <3>. HIDE DEF G, z
    <3>. QED
      OBVIOUS
  <2>2. Rowed(g, a, b, md, inv, 0)
    <3>. HIDE DEF g
    <3>. QED
      BY <2>1, Zenon DEF Rowed, G, z
  <2>3. 0 \in Nat
    OBVIOUS
  <2>. QED
    BY <2>2, <2>3
<1>2. ASSUME NEW m \in Nat, m \in T PROVE m + 1 \in T
  <2>1. PICK f : Rowed(f, a, b, md, inv, m)
    BY <1>2
  <2>2. f[0] = z /\ \A k \in 1 .. m : f[k] = G(k, f[k - 1])
    <3>1. \A k \in 0 .. m : f[k] = IF k = 0 THEN z ELSE G(k, f[k - 1])
      <4>1. f = [k \in 0 .. m |-> IF k = 0 THEN z ELSE G(k, f[k - 1])]
        BY <2>1, Zenon DEF Rowed, G, z
      <4>. HIDE DEF G, z
      <4>. QED
        BY <4>1
    <3>. HIDE DEF G, z
    <3>2. 0 \in 0 .. m /\ \A k \in 1 .. m : k \in 0 .. m /\ k # 0
      OBVIOUS
    <3>. QED
      BY <3>1, <3>2
  <2>. HIDE DEF G, z
  <2>. DEFINE g == [k \in 0 .. (m + 1) |-> IF k = m + 1 THEN G(m + 1, f[m]) ELSE f[k]]
  <2>3. ASSUME NEW k \in 0 .. (m + 1)
        PROVE  g[k] = IF k = 0 THEN z ELSE G(k, g[k - 1])
    <3>1. CASE k = 0
      BY <2>2, <3>1
    <3>2. CASE k = m + 1
      <4>1. g[k] = G(k, f[m]) /\ k - 1 = m /\ m \in 0 .. (m + 1) /\ m # m + 1 /\ k # 0
        BY <3>2
      <4>2. g[m] = f[m]
        BY <4>1
      <4>. QED
        BY <4>1, <4>2
    <3>3. CASE k \in 1 .. m
      <4>1. k # m + 1 /\ k - 1 # m + 1 /\ k # 0 /\ k - 1 \in 0 .. (m + 1)
        BY <3>3
      <4>2. g[k] = f[k] /\ g[k - 1] = f[k - 1]
        BY <4>1
      <4>. HIDE DEF g
      <4>. QED
        BY <4>1, <4>2, <2>2, <3>3
    <3>. QED
      BY <3>1, <3>2, <3>3
  <2>4. g = [k \in 0 .. (m + 1) |-> g[k]]
    OBVIOUS
  <2>. HIDE DEF g
  <2>5. g = [k \in 0 .. (m + 1) |-> IF k = 0 THEN z ELSE G(k, g[k - 1])]
    BY <2>3, <2>4
  <2>6. Rowed(g, a, b, md, inv, m + 1)
    BY <2>5, Zenon DEF Rowed, G, z
  <2>7. m + 1 \in Nat
    OBVIOUS
  <2>. QED
    BY <2>6, <2>7
<1>. HIDE DEF T
<1>3. Nat \subseteq T
  BY <1>1, <1>2, Inductive
<1>. QED
  BY <1>3, Zenon DEF T

LEMMA RowSplit ==
    ASSUME NEW u, IsBig(u, Top + 1), NEW row \in 0 .. (Limbs - 1), NEW y \in Nat,
           ValueOf(u, Top + 1) = Pow(Word, row) * y
    PROVE  Cong(y, u[row + 1], Word) /\ u[row + 1] \in 0 .. (Word - 1)
<1>. DEFINE m == (Top + 1) - row
            c == [j \in 1 .. m |-> u[row + j]]
            p == Pow(Word, row)
            v == ValueOf(c, m)
            l == ValueOf(u, row)
<1>1. Limbs \in Nat \ {0} /\ Top + 1 = 2 * Limbs + 2 /\ Top + 1 \in Nat
  BY TopIs, Widths
<1>2. m \in Nat \ {0} /\ row \in Nat /\ row + m = Top + 1 /\ m \in 0 .. m /\ row \in 0 .. (Top + 1) /\ 1 \in 1 .. m
  BY <1>1
<1>3. \A j \in 1 .. m : c[j] = u[row + j]
  OBVIOUS
<1>4. p \in Nat \ {0}
  BY <1>2, WordPow
<1>5. IsBig(c, m)
  <2>1. \A j \in 1 .. m : row + j \in 1 .. (Top + 1)
    BY <1>1, <1>2
  <2>. QED
    BY <1>3, <2>1 DEF IsBig
<1>. HIDE DEF c, m
<1>6. ValueOf(u, row + m) = l + p * v
  <2>1. IsBig(u, row + m)
    BY <1>2
  <2>. QED
    BY <1>2, <1>3, <2>1, ValueSplits
<1>7. l \in 0 .. (p - 1)
  BY <1>1, <1>2, ValueBelow
<1>8. Cong(v, c[1], Word) /\ v \in Nat /\ c[1] \in 0 .. (Word - 1)
  BY <1>2, <1>5, LowestWord
<1>9. c[1] = u[row + 1]
  BY <1>2, <1>3
<1>. HIDE DEF v, l, p
<1>10. p * y + 0 = p * v + l
  <2>1. p * y \in Nat /\ p * v \in Nat /\ l \in Nat
    BY <1>4, <1>7, <1>8, Naturals
  <2>2. p * y = l + p * v
    BY <1>2, <1>6 DEF p
  <2>. QED
    BY <2>1, <2>2
<1>11. y = v
  <2>1. 0 \in 0 .. (p - 1)
    BY <1>4
  <2>2. y \in Int /\ v \in Int
    BY <1>8
  <2>. QED
    BY <1>4, <1>7, <1>10, <2>1, <2>2, OneRest
<1>. QED
  BY <1>8, <1>9, <1>11

LEMMA Clears ==
    ASSUME NEW w \in Nat \ {0}, NEW y \in Int, NEW u \in Int, NEW N \in Int, NEW d \in Int, NEW v \in Int,
           Cong(y, u, w), Cong(N, d, w), Cong(d * v, 0 - 1, w)
    PROVE  Cong(y + ((u * v) % w) * N, 0, w)
<1>. DEFINE uv == u * v
            q == uv % w
<1>1. uv \in Int
  BY Commutes
<1>2. q \in Int /\ Cong(q, uv, w)
  <2>. HIDE DEF uv
  <2>. QED
    BY <1>1, CongRest
<1>3. Cong(q * N, uv * d, w)
  <2>. HIDE DEF q, uv
  <2>. QED
    BY <1>1, <1>2, CongTimes
<1>4. uv * d = u * (d * v) /\ uv * d \in Int /\ d * v \in Int
  BY Associates, Commutes
<1>5. Cong(u * (d * v), u * (0 - 1), w)
  <2>1. 0 - 1 \in Int
    OBVIOUS
  <2>. DEFINE dv == d * v
              e == 0 - 1
  <2>2. dv \in Int /\ e \in Int /\ Cong(dv, e, w)
    BY <1>4, <2>1
  <2>. HIDE DEF dv, e
  <2>3. Cong(u * dv, u * e, w)
    BY <2>2, CongScales
  <2>. QED
    BY <2>3 DEF dv, e
<1>. HIDE DEF q, uv
<1>6. u * (0 - 1) = 0 - u /\ 0 - u \in Int /\ q * N \in Int
  BY <1>2
<1>7. Cong(q * N, 0 - u, w)
  <2>1. Cong(uv * d, 0 - u, w)
    BY <1>4, <1>5, <1>6
  <2>. QED
    BY <1>3, <1>4, <1>6, <2>1, CongOn
<1>8. Cong(y + q * N, u + (0 - u), w)
  BY <1>6, <1>7, CongAdds
<1>9. u + (0 - u) = 0
  OBVIOUS
<1>. QED
  BY <1>8, <1>9 DEF q, uv

(* What a row leaves: so much of a times b and a multiple of the modulus,  *)
(* with nothing in the lowest words.                                       *)
RowDone(t, row, a, b, md) ==
    /\ BigOf(t, Top + 1)
    /\ \E q \in 0 .. (Pow(Word, row) - 1) : \E z \in Nat :
          /\ ValueOf(t, Top + 1) = ValueOf(a, row) * Value(b) + q * Value(md)
          /\ ValueOf(t, Top + 1) = Pow(Word, row) * z

LEMMA RowStep ==
    ASSUME NEW a, IsBig(a, Limbs), NEW b, IsBig(b, Limbs), NEW md, IsBig(md, Limbs),
           NEW inv \in 0 .. (Word - 1), Cong(md[1] * inv, 0 - 1, Word),
           NEW row \in 0 .. (Limbs - 1), NEW t, RowDone(t, row, a, b, md),
           NEW u, u = AddMul(t, row, a[row + 1], b),
           NEW r, r = AddMul(u, row, (u[row + 1] * inv) % Word, md)
    PROVE  RowDone(r, row + 1, a, b, md)
<1>. DEFINE M == Top + 1
            P == Pow(Word, row)
            B == Value(b)
            N == Value(md)
            A == ValueOf(a, row)
            x == a[row + 1]
            V == ValueOf(t, M)
            U == ValueOf(u, M)
<1>1. /\ Limbs \in Nat \ {0} /\ row \in Nat /\ row + 1 \in Nat /\ row + 1 <= Limbs
      /\ row \in 0 .. Limbs /\ row + 1 \in 1 .. Limbs /\ row + 1 \in 0 .. Limbs /\ Limbs \in Nat /\ row <= Limbs
  BY Widths
<1>2. Word \in Nat \ {0} /\ R \in Nat \ {0}
  BY WordIs, RIs
<1>3. B \in 0 .. (R - 1) /\ N \in 0 .. (R - 1) /\ B \in Nat /\ N \in Nat
  <2>1. B \in 0 .. (R - 1) /\ N \in 0 .. (R - 1)
    BY ValueIn
  <2>. QED
    BY <1>2, <2>1
<1>4. P \in Nat \ {0} /\ Pow(Word, row + 1) = P * Word /\ P * Word <= R /\ P <= R /\ P * Word \in Nat \ {0}
  <2>1. P \in Nat \ {0} /\ Pow(Word, row + 1) = P * Word /\ Pow(Word, row + 1) \in Nat \ {0}
    BY <1>1, WordPow
  <2>2. Pow(Word, row + 1) <= Pow(Word, Limbs) /\ Pow(Word, row) <= Pow(Word, Limbs)
    BY <1>1, PowGrows
  <2>. QED
    BY <2>1, <2>2 DEF R
<1>5. A \in 0 .. (P - 1) /\ x \in 0 .. (Word - 1) /\ ValueOf(a, row + 1) = A + x * P
      /\ ValueOf(a, row + 1) \in 0 .. (P * Word - 1)
  <2>1. A \in 0 .. (P - 1) /\ ValueOf(a, row + 1) \in 0 .. (Pow(Word, row + 1) - 1)
    BY <1>1, ValueBelow
  <2>2. x \in 0 .. (Word - 1)
    BY <1>1 DEF IsBig
  <2>3. ValueOf(a, row + 1) = A + x * P
    BY <1>1, ValueIs
  <2>. QED
    BY <1>4, <2>1, <2>2, <2>3
<1>6. PICK q \in 0 .. (P - 1) : \E z \in Nat : V = A * B + q * N /\ V = P * z
  BY DEF RowDone
<1>7. PICK z \in Nat : V = A * B + q * N /\ V = P * z
  BY <1>6
<1>8. IsBig(t, M)
  BY BigWords, TopIs DEF RowDone
<1>. DEFINE X == ValueOf(a, row + 1)
<1>. HIDE DEF A, V, B, N, X
<1>9. X * B = A * B + x * (B * P)
  <2>1. X = A + x * P /\ A \in Nat /\ x \in Nat /\ P \in Nat
    BY <1>2, <1>4, <1>5 DEF X
  <2>. HIDE DEF P, x
  <2>2. x * P \in Nat /\ (A + x * P) * B = A * B + (x * P) * B
    BY <1>3, <2>1, Naturals, Distributes
  <2>3. (x * P) * B = x * (B * P)
    BY <1>3, <2>1
  <2>. QED
    BY <2>1, <2>2, <2>3
<1>10. X \in 0 .. (R - 1) /\ q \in 0 .. (R - 1) /\ q \in Nat /\ X \in Nat
  <2>1. X \in 0 .. (P * Word - 1)
    BY <1>5 DEF X
  <2>. DEFINE e == P * Word
  <2>2. e \in Nat /\ e <= R /\ X \in 0 .. (e - 1)
    BY <1>4, <2>1
  <2>3. P \in Nat /\ P <= R
    BY <1>4
  <2>. HIDE DEF e, P
  <2>. QED
    BY <1>2, <2>2, <2>3
<1>11. V + x * (B * P) = X * B + q * N /\ X * B \in Nat /\ q * N \in Nat
  <2>1. A * B \in Nat /\ q * N \in Nat /\ x * (B * P) \in Nat /\ X * B \in Nat
    <3>1. A \in Nat /\ x \in Nat /\ P \in Nat
      BY <1>2, <1>4, <1>5
    <3>. HIDE DEF P, x
    <3>2. B * P \in Nat
      BY <1>3, <3>1, Naturals
    <3>. QED
      BY <1>3, <1>10, <3>1, <3>2, Naturals
  <2>. DEFINE ab == A * B
              qn == q * N
              xb == x * (B * P)
              X2 == X * B
  <2>2. ab \in Nat /\ qn \in Nat /\ xb \in Nat /\ V = ab + qn /\ X2 = ab + xb
    BY <1>7, <1>9, <2>1
  <2>. HIDE DEF ab, qn, xb, X2
  <2>3. V + xb = X2 + qn
    BY <2>2
  <2>. QED
    BY <2>1, <2>3 DEF xb, X2, qn
<1>12. IsBig(u, M) /\ U = V + x * (B * P)
  <2>1. X * B + q * N < Pow(Word, M)
    BY <1>3, <1>10, TwoFit
  <2>2. ValueOf(t, Top + 1) + a[row + 1] * (Value(b) * Pow(Word, row)) < Pow(Word, Top + 1)
    BY <1>11, <2>1 DEF V, B
  <2>3. a[row + 1] \in 0 .. (Word - 1) /\ IsBig(t, Top + 1)
    BY <1>5, <1>8
  <2>4. BigOf(u, Top + 1) /\ ValueOf(u, Top + 1) = ValueOf(t, Top + 1) + a[row + 1] * (Value(b) * Pow(Word, row))
    BY <2>2, <2>3, AddMulValue
  <2>. QED
    BY <2>4, BigWords, TopIs DEF V, B
<1>. DEFINE Y == z + x * B
            w == u[row + 1]
            g == (w * inv) % Word
<1>13. Y \in Nat /\ U = P * Y
  <2>1. x \in Nat /\ P \in Nat
    BY <1>2, <1>4, <1>5
  <2>. HIDE DEF x, P, U
  <2>2. x * B \in Nat
    BY <1>3, <2>1, Naturals
  <2>3. P * (z + x * B) = P * z + P * (x * B)
    BY <1>3, <2>1, <2>2, Distributes
  <2>4. P * (x * B) = x * (B * P)
    BY <1>3, <2>1
  <2>. QED
    BY <1>7, <1>12, <2>2, <2>3, <2>4
<1>. HIDE DEF Y
<1>14. Cong(Y, w, Word) /\ w \in 0 .. (Word - 1)
  BY <1>12, <1>13, RowSplit
<1>15. Cong(N, md[1], Word) /\ md[1] \in 0 .. (Word - 1)
  <2>1. Cong(ValueOf(md, Limbs), md[1], Word) /\ md[1] \in 0 .. (Word - 1)
    BY <1>1, LowestWord
  <2>. QED
    BY <2>1 DEF N, Value
<1>16. g \in 0 .. (Word - 1) /\ g \in Nat
  <2>1. w \in Int /\ inv \in Int
    BY <1>2, <1>14
  <2>. DEFINE wi == w * inv
  <2>2. wi \in Int
    BY <2>1, Commutes
  <2>. HIDE DEF wi
  <2>3. (wi % Word) \in 0 .. (Word - 1)
    BY <1>2, <2>2, CongRest
  <2>. QED
    BY <1>2, <2>3 DEF wi
<1>17. Cong(Y + g * N, 0, Word)
  <2>1. w \in Int /\ inv \in Int /\ md[1] \in Int /\ N \in Int /\ Y \in Int
    BY <1>2, <1>3, <1>13, <1>14, <1>15
  <2>. HIDE DEF w
  <2>. QED
    BY <1>2, <1>14, <1>15, <2>1, Clears
<1>. HIDE DEF g
<1>. DEFINE G == g * N
            Q == q + g * P
<1>18. G \in Nat /\ Q \in 0 .. (P * Word - 1) /\ Q * N = q * N + g * (N * P)
  <2>1. G \in Nat
    BY <1>3, <1>16, Naturals
  <2>2. P \in Nat /\ P \in Nat \ {0}
    BY <1>4
  <2>. HIDE DEF P
  <2>3. g * P + P <= Word * P /\ Word * P = P * Word /\ g * P \in Nat /\ P * Word \in Nat
    BY <1>2, <1>16, <2>2, GrowsMore, Naturals
  <2>4. Q \in 0 .. (P * Word - 1)
    <3>. DEFINE gp == g * P
                pw == P * Word
    <3>1. gp \in Nat /\ pw \in Nat /\ gp + P <= pw
      BY <2>3
    <3>. HIDE DEF gp, pw
    <3>2. q + gp \in 0 .. (pw - 1)
      BY <2>2, <3>1
    <3>. QED
      BY <3>2 DEF gp, pw
  <2>5. Q * N = q * N + (g * P) * N
    BY <1>3, <1>10, <2>3, Distributes
  <2>6. (g * P) * N = g * (N * P)
    BY <1>3, <1>16, <2>2
  <2>. QED
    BY <2>1, <2>4, <2>5, <2>6
<1>. HIDE DEF Q
<1>19. U + g * (N * P) = X * B + Q * N /\ Q \in 0 .. (R - 1)
  <2>1. Q \in 0 .. (R - 1)
    <3>. DEFINE e == P * Word
    <3>1. e \in Nat /\ e <= R /\ Q \in 0 .. (e - 1)
      BY <1>4, <1>18
    <3>. HIDE DEF e
    <3>. QED
      BY <1>2, <3>1
  <2>. DEFINE xb == X * B
              qn == q * N
              gn == g * (N * P)
  <2>2. U = xb + qn /\ Q * N = qn + gn /\ xb \in Nat /\ qn \in Nat
    BY <1>11, <1>12, <1>18
  <2>3. gn \in Nat
    <3>1. P \in Nat
      BY <1>4
    <3>. HIDE DEF P
    <3>2. N * P \in Nat
      BY <1>3, <3>1, Naturals
    <3>. QED
      BY <1>16, <3>2, Naturals
  <2>. HIDE DEF xb, qn, gn, U
  <2>4. U + gn = xb + Q * N
    BY <2>2, <2>3
  <2>. QED
    BY <2>1, <2>4 DEF gn, xb
<1>20. BigOf(r, M) /\ ValueOf(r, M) = U + g * (N * P)
  <2>1. X * B + Q * N < Pow(Word, M)
    BY <1>3, <1>10, <1>19, TwoFit
  <2>2. ValueOf(u, Top + 1) + g * (Value(md) * Pow(Word, row)) < Pow(Word, Top + 1)
    BY <1>19, <2>1 DEF N
  <2>3. IsBig(u, Top + 1) /\ r = AddMul(u, row, g, md)
    BY <1>12 DEF g
  <2>4. BigOf(r, Top + 1) /\ ValueOf(r, Top + 1) = ValueOf(u, Top + 1) + g * (Value(md) * Pow(Word, row))
    BY <1>16, <2>2, <2>3, AddMulValue
  <2>. QED
    BY <2>4 DEF N
<1>21. \E z2 \in Nat : ValueOf(r, M) = (P * Word) * z2
  <2>. DEFINE S2 == Y + G
  <2>1. S2 \in Nat /\ Cong(S2, 0, Word)
    BY <1>13, <1>17, <1>18
  <2>. HIDE DEF S2
  <2>2. PICK z2 \in Int : S2 = 0 + Word * z2
    BY <2>1 DEF Cong
  <2>3. S2 = Word * z2 /\ z2 \in Nat
    <3>1. Word * z2 \in Int
      BY <1>2
    <3>2. S2 = Word * z2
      BY <2>2, <3>1
    <3>3. CASE z2 < 0
      <4>1. 0 - z2 \in Nat /\ 1 <= 0 - z2
        BY <3>3
      <4>2. 1 * Word <= (0 - z2) * Word
        BY <1>2, <4>1, Grows
      <4>3. (0 - z2) * Word = 0 - Word * z2
        BY <1>2
      <4>. QED
        BY <1>2, <2>1, <3>1, <3>2, <4>2, <4>3
    <3>. QED
      BY <3>2, <3>3
  <2>4. ValueOf(r, M) = P * S2
    <3>1. P \in Nat
      BY <1>4
    <3>. HIDE DEF P, U
    <3>2. P * (Y + g * N) = P * Y + P * (g * N)
      BY <1>13, <1>18, <3>1, Distributes
    <3>3. P * (g * N) = g * (N * P)
      BY <1>3, <1>16, <3>1
    <3>. QED
      BY <1>13, <1>20, <3>2, <3>3 DEF S2
  <2>5. P * (Word * z2) = (P * Word) * z2
    <3>1. P \in Nat
      BY <1>4
    <3>. HIDE DEF P
    <3>. QED
      BY <1>2, <2>3, <3>1
  <2>. QED
    BY <2>3, <2>4, <2>5
<1>22. /\ Q \in 0 .. (Pow(Word, row + 1) - 1)
       /\ ValueOf(r, M) = ValueOf(a, row + 1) * Value(b) + Q * Value(md)
       /\ \E z2 \in Nat : ValueOf(r, M) = Pow(Word, row + 1) * z2
  <2>1. Q \in 0 .. (Pow(Word, row + 1) - 1)
    BY <1>4, <1>18
  <2>2. ValueOf(r, M) = ValueOf(a, row + 1) * Value(b) + Q * Value(md)
    BY <1>19, <1>20 DEF X, B, N
  <2>3. \E z2 \in Nat : ValueOf(r, M) = Pow(Word, row + 1) * z2
    BY <1>4, <1>21
  <2>. QED
    BY <2>1, <2>2, <2>3
<1>. QED
  BY <1>20, <1>22 DEF RowDone

LEMMA RowsAre ==
    ASSUME NEW a, IsBig(a, Limbs), NEW b, IsBig(b, Limbs), NEW md, IsBig(md, Limbs),
           NEW inv \in 0 .. (Word - 1), Cong(md[1] * inv, 0 - 1, Word)
    PROVE  RowDone(Rows(a, b, md, inv), Limbs, a, b, md)
<1>. DEFINE h == CHOOSE f : Rowed(f, a, b, md, inv, Limbs)
<1>1. Rows(a, b, md, inv) = h[Limbs]
  BY DEF Rows, Rowed, NextRow
<1>2. Limbs \in Nat /\ Limbs \in 0 .. Limbs
  BY Widths
<1>3. Rowed(h, a, b, md, inv, Limbs)
  <2>1. \E f : Rowed(f, a, b, md, inv, Limbs)
    BY <1>2, SomeRowed
  <2>. QED
    BY <2>1
<1>. HIDE DEF h
<1>. DEFINE z == [j \in 1 .. (Top + 1) |-> 0]
            T == {k \in 0 .. Limbs : RowDone(h[k], k, a, b, md)}
<1>4. h[0] = z
  BY <1>2, <1>3, RowedAre
<1>5. ASSUME NEW k \in 0 .. (Limbs - 1)
      PROVE  \E u : u = AddMul(h[k], k, a[k + 1], b) /\ h[k + 1] = AddMul(u, k, (u[k + 1] * inv) % Word, md)
  <2>. DEFINE u == AddMul(h[k], (k + 1) - 1, a[k + 1], b)
  <2>1. h[k + 1] = AddMul(u, (k + 1) - 1, (u[k + 1] * inv) % Word, md)
    <3>1. h[k + 1] = NextRow(h[k], a, b, md, inv, k + 1)
      BY <1>2, <1>3, RowedAre
    <3>. QED
      BY <3>1, Zenon DEF NextRow
  <2>2. (k + 1) - 1 = k
    BY <1>2
  <2>. QED
    BY <2>1, <2>2
<1>6. 0 \in T
  <2>1. Top + 1 \in Nat /\ Top + 1 \in 0 .. (Top + 1)
    BY TopIs
  <2>2. 0 \in 0 .. (Word - 1)
    BY WordIs
  <2>3. BigOf(z, Top + 1)
    <3>1. z \in [1 .. (Top + 1) -> 0 .. (Word - 1)]
      BY <2>2
    <3>. QED
      BY <2>1, <3>1, BigIs
  <2>. DEFINE Z == {k \in 0 .. (Top + 1) : ValueOf(z, k) = 0}
  <2>4. 0 \in Z
    BY <2>1, ValueIs
  <2>5. ASSUME NEW k \in 0 .. ((Top + 1) - 1), k \in Z PROVE k + 1 \in Z
    <3>1. k \in Nat /\ k + 1 \in 0 .. (Top + 1) /\ k + 1 \in 1 .. (Top + 1) /\ Pow(Word, k) \in Nat
      BY <2>1, WordPow
    <3>2. z[k + 1] = 0
      BY <3>1
    <3>. HIDE DEF z
    <3>3. ValueOf(z, k + 1) = ValueOf(z, k) + 0 * Pow(Word, k)
      BY <3>1, <3>2, ValueIs
    <3>4. 0 * Pow(Word, k) = 0
      BY <3>1
    <3>. QED
      BY <2>5, <3>1, <3>3, <3>4
  <2>6. ValueOf(z, Top + 1) = 0
    <3>. HIDE DEF Z
    <3>1. Top + 1 \in Z
      BY <2>1, <2>4, <2>5, InductiveTo
    <3>. QED
      BY <3>1 DEF Z
  <2>. HIDE DEF z
  <2>7. Pow(Word, 0) = 1 /\ ValueOf(a, 0) = 0
    BY PowIs, ValueIs
  <2>8. 0 \in 0 .. (1 - 1) /\ 0 \in Nat /\ 0 = 1 * 0
    OBVIOUS
  <2>9. 0 = 0 * Value(b) + 0 * Value(md)
    <3>1. Value(b) \in Int /\ Value(md) \in Int
      BY ValueIn
    <3>. HIDE DEF Z
    <3>. QED
      BY <3>1
  <2>10. RowDone(z, 0, a, b, md)
    BY <2>3, <2>6, <2>7, <2>8, <2>9 DEF RowDone
  <2>. QED
    BY <1>2, <1>4, <2>10
<1>7. ASSUME NEW k \in 0 .. (Limbs - 1), k \in T PROVE k + 1 \in T
  <2>1. PICK u : u = AddMul(h[k], k, a[k + 1], b) /\ h[k + 1] = AddMul(u, k, (u[k + 1] * inv) % Word, md)
    BY <1>5
  <2>2. RowDone(h[k], k, a, b, md) /\ k + 1 \in 0 .. Limbs
    BY <1>2, <1>7
  <2>. HIDE DEF T
  <2>3. RowDone(h[k + 1], k + 1, a, b, md)
    BY <2>1, <2>2, RowStep
  <2>. QED
    BY <2>2, <2>3 DEF T
<1>. HIDE DEF T
<1>8. Limbs \in T
  BY <1>2, <1>6, <1>7, InductiveTo
<1>. QED
  BY <1>1, <1>8 DEF T

(* The word beyond the carry's stays 0.                                    *)
LEMMA RowsFit ==
    ASSUME NEW a, IsBig(a, Limbs), NEW b, IsBig(b, Limbs), NEW md, IsBig(md, Limbs),
           NEW inv \in 0 .. (Word - 1), Cong(md[1] * inv, 0 - 1, Word),
           NEW t, t = Rows(a, b, md, inv)
    PROVE  t[Top + 1] = 0 /\ ValueOf(t, Top + 1) = ValueOf(t, Top)
<1>1. RowDone(t, Limbs, a, b, md)
  BY RowsAre
<1>2. BigOf(t, Top + 1) /\ IsBig(t, Top + 1)
  BY <1>1, BigWords, TopIs DEF RowDone
<1>3. PICK q \in 0 .. (R - 1) : ValueOf(t, Top + 1) = Value(a) * Value(b) + q * Value(md)
  BY <1>1 DEF RowDone, Value, R
<1>4. ValueOf(t, Top + 1) < Pow(Word, Top)
  <2>1. Value(a) \in 0 .. (R - 1) /\ Value(b) \in 0 .. (R - 1) /\ Value(md) \in 0 .. (R - 1)
    BY ValueIn
  <2>. QED
    BY <1>3, <2>1, TwoFit
<1>. DEFINE p == Pow(Word, Top)
            v == ValueOf(t, Top)
            w == t[Top + 1]
<1>5. p \in Nat /\ ValueOf(t, Top + 1) = v + w * p
  BY TopIs, WordPow, ValueIs
<1>6. v \in 0 .. (p - 1)
  <2>1. Top \in 0 .. (Top + 1) /\ Top + 1 \in Nat
    BY TopIs
  <2>. QED
    BY <1>2, <2>1, ValueBelow
<1>7. w \in 0 .. (Word - 1) /\ Word \in Nat
  <2>1. Top + 1 \in 1 .. (Top + 1)
    BY TopIs
  <2>. QED
    BY <1>2, <2>1, WordIs DEF IsBig
<1>8. v + w * p < p
  BY <1>4, <1>5
<1>. HIDE DEF v, w, p
<1>9. w = 0
  <2>1. CASE w >= 1
    <3>1. 1 * p <= w * p /\ w * p \in Nat
      BY <1>5, <1>7, <2>1, Grows, Naturals
    <3>. QED
      BY <1>5, <1>6, <1>8, <3>1
  <2>. QED
    BY <1>7, <2>1
<1>10. v + 0 * p = v
  BY <1>5, <1>6
<1>. QED
  BY <1>5, <1>9, <1>10 DEF v, w, p

LEMMA MontMulIs ==
    ASSUME NEW a, IsBig(a, Limbs), NEW b, IsBig(b, Limbs), NEW md, IsBig(md, Limbs),
           NEW inv \in 0 .. (Word - 1), Cong(md[1] * inv, 0 - 1, Word),
           (Value(a) < Value(md)) \/ (Value(b) < Value(md))
    PROVE  LET r == MontMul(a, b, md, inv)
           IN  /\ BigOf(r, Limbs) /\ Value(r) < Value(md)
               /\ Cong(R * Value(r), Value(a) * Value(b), Value(md))
<1>. DEFINE t == Rows(a, b, md, inv)
            M == Top + 1
            A == Value(a)
            B == Value(b)
            N == Value(md)
            V == ValueOf(t, Top)
            high == SubSeq(t, Limbs + 1, 2 * Limbs)
            r == MontMul(a, b, md, inv)
<1>1. RowDone(t, Limbs, a, b, md)
  BY RowsAre
<1>2. BigOf(t, M) /\ IsBig(t, M)
  BY <1>1, BigWords, TopIs DEF RowDone
<1>3. V = ValueOf(t, M)
  BY RowsFit
<1>4. PICK q \in 0 .. (R - 1) : \E z \in Nat : V = A * B + q * N /\ V = R * z
  BY <1>1, <1>3 DEF RowDone, Value, R
<1>5. PICK z \in Nat : V = A * B + q * N /\ V = R * z
  BY <1>4
<1>6. A \in 0 .. (R - 1) /\ B \in 0 .. (R - 1) /\ N \in 0 .. (R - 1) /\ R \in Nat \ {0}
      /\ A \in Nat /\ B \in Nat /\ N \in Nat
  <2>1. A \in 0 .. (R - 1) /\ B \in 0 .. (R - 1) /\ N \in 0 .. (R - 1) /\ R \in Nat \ {0}
    BY ValueIn, RIs
  <2>. QED
    BY <2>1
<1>7. A < N \/ B < N
  OBVIOUS
<1>8. r = IF t[Top] # 0 THEN Sub(high, md) ELSE SubIfGe(high, md)
  BY DEF MontMul
<1>. HIDE DEF A, B, N, t
<1>9. N \in Nat \ {0}
  BY <1>6, <1>7
<1>10. z < 2 * N
  <2>. DEFINE ab == A * B
              qn == q * N
              rn == R * N
              rz == R * z
  <2>1. ab < rn
    <3>1. CASE B < N
      <4>1. A * B <= R * B /\ R * B < R * N
        <5>1. A <= R /\ R * B = B * R /\ R * N = N * R /\ B * R < N * R
          BY <1>6, <3>1, GrowsMore, Commutes
        <5>. QED
          BY <1>6, <5>1, Grows
      <4>2. A * B \in Nat /\ R * B \in Nat /\ R * N \in Nat
        BY <1>6, Naturals
      <4>. QED
        BY <4>1, <4>2
    <3>2. CASE A < N
      <4>1. A * B <= A * R /\ A * R < N * R /\ N * R = R * N
        <5>1. B <= R /\ A * R < N * R /\ N * R = R * N
          BY <1>6, <3>2, GrowsMore, Commutes
        <5>. QED
          BY <1>6, <5>1, Grows
      <4>2. A * B \in Nat /\ A * R \in Nat /\ R * N \in Nat
        BY <1>6, Naturals
      <4>. QED
        BY <4>1, <4>2
    <3>. QED
      BY <1>7, <3>1, <3>2
  <2>2. qn <= rn /\ qn \in Nat
    <3>1. q \in Nat /\ q <= R
      BY <1>6
    <3>. QED
      BY <1>6, <3>1, Grows, Naturals
  <2>3. rz = ab + qn /\ ab \in Nat /\ rn \in Nat /\ rz \in Nat
    BY <1>5, <1>6, Naturals
  <2>. HIDE DEF ab, qn, rn, rz
  <2>4. rz < 2 * rn
    BY <2>1, <2>2, <2>3
  <2>5. CASE 2 * N <= z
    <3>1. 2 * N \in Nat /\ (2 * N) * R <= z * R
      BY <1>6, <2>5, Grows
    <3>2. (2 * N) * R = 2 * rn /\ z * R = rz
      BY <1>6 DEF rn, rz
    <3>. QED
      BY <2>3, <2>4, <3>1, <3>2
  <2>. QED
    BY <1>6, <2>5
<1>. DEFINE c == [j \in 1 .. (Limbs + 1) |-> t[Limbs + j]]
            hv == ValueOf(c, Limbs)
            o == t[Top]
<1>11. Limbs \in Nat \ {0} /\ Limbs \in Nat /\ Top = Limbs + (Limbs + 1) /\ M = 2 * Limbs + 2 /\ M \in Nat
       /\ Limbs + 1 \in Nat /\ 2 * Limbs = Limbs + Limbs
  BY TopIs, Widths DEF Top
<1>12. \A j \in 1 .. (Limbs + 1) : c[j] = t[Limbs + j]
  OBVIOUS
<1>13. IsBig(c, Limbs + 1) /\ IsBig(c, Limbs)
  <2>1. \A j \in 1 .. (Limbs + 1) : Limbs + j \in 1 .. M
    BY <1>11
  <2>2. \A j \in 1 .. Limbs : j \in 1 .. (Limbs + 1)
    BY <1>11
  <2>. QED
    BY <1>2, <1>12, <2>1, <2>2 DEF IsBig
<1>14. V = ValueOf(t, Limbs) + R * ValueOf(c, Limbs + 1)
  <2>1. IsBig(t, Limbs + (Limbs + 1))
    <3>1. \A j \in 1 .. (Limbs + (Limbs + 1)) : j \in 1 .. M
      BY <1>11
    <3>. QED
      BY <1>2, <3>1 DEF IsBig
  <2>2. Limbs + 1 \in 0 .. (Limbs + 1)
    BY <1>11
  <2>. HIDE DEF c
  <2>3. ValueOf(t, Limbs + (Limbs + 1)) = ValueOf(t, Limbs) + Pow(Word, Limbs) * ValueOf(c, Limbs + 1)
    <3>. DEFINE m1 == Limbs + 1
    <3>1. m1 \in Nat /\ IsBig(t, Limbs + m1) /\ (\A j \in 1 .. m1 : c[j] = t[Limbs + j]) /\ m1 \in 0 .. m1
      BY <1>11, <1>12, <2>1, <2>2
    <3>. HIDE DEF m1
    <3>2. ValueOf(t, Limbs + m1) = ValueOf(t, Limbs) + Pow(Word, Limbs) * ValueOf(c, m1)
      BY <1>11, <3>1, ValueSplits
    <3>. QED
      BY <3>2 DEF m1
  <2>. QED
    BY <1>11, <2>3 DEF R
<1>15. ValueOf(t, Limbs) \in 0 .. (R - 1)
  <2>1. Limbs \in 0 .. M
    BY <1>11
  <2>. HIDE DEF M
  <2>2. ValueOf(t, Limbs) \in 0 .. (Pow(Word, Limbs) - 1)
    BY <1>2, <1>11, <2>1, ValueBelow
  <2>. QED
    BY <2>2 DEF R
<1>16. ValueOf(c, Limbs + 1) \in Nat
  <2>1. Limbs + 1 \in 0 .. (Limbs + 1) /\ Pow(Word, Limbs + 1) \in Nat
    BY <1>11, WordPow
  <2>. HIDE DEF c
  <2>2. ValueOf(c, Limbs + 1) \in 0 .. (Pow(Word, Limbs + 1) - 1)
    BY <1>11, <1>13, <2>1, ValueBelow
  <2>. QED
    BY <2>1, <2>2
<1>17. z = ValueOf(c, Limbs + 1)
  <2>. DEFINE l == ValueOf(t, Limbs)
              v == ValueOf(c, Limbs + 1)
  <2>1. R * z + 0 = R * v + l
    <3>1. R * z \in Nat /\ R * v \in Nat /\ l \in Nat /\ R * z = l + R * v
      <4>1. R * z = l + R * v
        BY <1>5, <1>14
      <4>2. v \in Nat /\ l \in 0 .. (R - 1)
        BY <1>15, <1>16
      <4>. HIDE DEF v, l
      <4>. QED
        BY <1>6, <4>1, <4>2, Naturals
    <3>. HIDE DEF v, l
    <3>. QED
      BY <3>1
  <2>2. l \in 0 .. (R - 1) /\ v \in Int /\ z \in Int /\ 0 \in 0 .. (R - 1)
    BY <1>6, <1>15, <1>16
  <2>. HIDE DEF v, l
  <2>3. z = v
    BY <1>6, <2>1, <2>2, OneRest
  <2>. QED
    BY <2>3 DEF v
<1>18. z = hv + o * R /\ hv \in 0 .. (R - 1) /\ o \in Nat
  <2>1. c[Limbs + 1] = o
    <3>1. Limbs + 1 \in 1 .. (Limbs + 1)
      BY <1>11
    <3>. QED
      BY <1>11, <1>12, <3>1
  <2>2. hv \in 0 .. (R - 1)
    <3>1. Limbs \in 0 .. Limbs
      BY <1>11
    <3>. HIDE DEF c
    <3>. QED
      BY <1>11, <1>13, <3>1, ValueBelow DEF R
  <2>3. ValueOf(c, Limbs + 1) = hv + o * R
    <3>. HIDE DEF c
    <3>. QED
      BY <1>11, <2>1, ValueIs DEF R
  <2>4. o \in Nat
    <3>1. Top \in 1 .. M
      BY <1>11
    <3>2. o \in 0 .. (Word - 1)
      BY <1>2, <3>1 DEF IsBig
    <3>. HIDE DEF o
    <3>. QED
      BY <3>2, WordIs
  <2>. QED
    BY <1>17, <2>2, <2>3, <2>4
<1>19. BigOf(high, Limbs) /\ \A j \in 1 .. Limbs : high[j] = c[j]
  <2>. DEFINE S1 == 0 .. (Word - 1)
  <2>1. t \in Seq(S1) /\ Len(t) = M
    BY <1>2 DEF BigOf
  <2>. HIDE DEF S1
  <2>2. high \in Seq(S1) /\ Len(high) = Limbs /\ \A j \in 1 .. Limbs : high[j] = t[Limbs + j]
    <3>1. Limbs + 1 \in 1 .. (Len(t) + 1) /\ 2 * Limbs \in (Limbs + 1) - 1 .. Len(t)
      BY <1>11, <2>1
    <3>2. high \in Seq(S1) /\ Len(high) = 2 * Limbs - (Limbs + 1) + 1
          /\ \A j \in 1 .. (2 * Limbs - (Limbs + 1) + 1) : high[j] = t[(Limbs + 1) + j - 1]
      BY <1>11, <2>1, <3>1, SubSeqProperties
    <3>3. 2 * Limbs - (Limbs + 1) + 1 = Limbs /\ \A j \in 1 .. Limbs : (Limbs + 1) + j - 1 = Limbs + j
      BY <1>11
    <3>. QED
      BY <3>2, <3>3
  <2>3. \A j \in 1 .. Limbs : j \in 1 .. (Limbs + 1)
    BY <1>11
  <2>. QED
    BY <1>12, <2>2, <2>3 DEF BigOf, S1
<1>20. Value(high) = hv /\ IsBig(high, Limbs)
  <2>1. Limbs \in 0 .. Limbs
    BY <1>11
  <2>. HIDE DEF high, c
  <2>2. ValueOf(high, Limbs) = ValueOf(c, Limbs)
    BY <1>11, <1>19, <2>1, ValueSame
  <2>. QED
    BY <1>11, <1>19, <2>2, BigWords DEF Value
<1>. DEFINE v == Value(r)
<1>. HIDE DEF high, hv, c, r
<1>21. BigOf(r, Limbs) /\ v < N /\ (v = z \/ v = z - N) /\ v \in Int
  <2>1. CASE o # 0
    <3>1. o = 1
      <4>1. CASE o >= 2
        <5>1. 2 * R <= o * R /\ o * R \in Nat
          BY <1>6, <1>18, <4>1, Grows, Naturals
        <5>. QED
          BY <1>6, <1>10, <1>18, <5>1
      <4>. QED
        BY <1>18, <2>1, <4>1
    <3>2. z = hv + R
      BY <1>6, <1>18, <3>1
    <3>3. hv < N
      BY <1>6, <1>10, <1>18, <3>2
    <3>4. r = Sub(high, md)
      BY <1>8, <2>1
    <3>5. BigOf(r, Limbs) /\ v = IF hv >= N THEN hv - N ELSE hv - N + R
      BY <1>20, <3>4, SubValue DEF N
    <3>. HIDE DEF v
    <3>. QED
      BY <1>6, <1>10, <1>18, <3>2, <3>3, <3>5
  <2>2. CASE o = 0
    <3>1. z = hv
      BY <1>6, <1>18, <2>2
    <3>2. r = SubIfGe(high, md)
      BY <1>8, <2>2
    <3>3. BigOf(r, Limbs) /\ v = IF hv >= N THEN hv - N ELSE hv
      BY <1>19, <1>20, <3>2, SubIfGeIs DEF N
    <3>. HIDE DEF v
    <3>. QED
      BY <1>6, <1>10, <1>18, <3>1, <3>3
  <2>. QED
    BY <2>1, <2>2
<1>22. Cong(R * v, A * B, N)
  <2>. HIDE DEF v
  <2>1. Cong(v, z, N)
    <3>1. Cong(z, z, N) /\ Cong(z - N, z, N)
      <4>1. z \in Int
        OBVIOUS
      <4>2. Cong(z, z, N)
        BY <1>9, <4>1, CongSame
      <4>3. Cong(z - N, z, N)
        BY <1>9, <4>1, CongDropsOne
      <4>. QED
        BY <4>2, <4>3
    <3>. QED
      BY <1>21, <3>1
  <2>2. Cong(R * v, R * z, N)
    <3>1. z \in Int /\ R \in Int /\ v \in Int
      BY <1>6, <1>21
    <3>. QED
      BY <1>9, <2>1, <3>1, CongScales
  <2>. DEFINE ab == A * B
  <2>3. ab \in Int
    BY <1>6, Commutes
  <2>4. Cong(ab + q * N, ab, N)
    <3>. HIDE DEF ab
    <3>1. q \in Int
      BY <1>6
    <3>. QED
      BY <1>9, <2>3, <3>1, CongDrops
  <2>5. Cong(R * z, ab, N)
    BY <1>5, <2>4
  <2>6. R * v \in Int /\ R * z \in Int
    BY <1>6, <1>21, Commutes
  <2>. HIDE DEF ab
  <2>7. Cong(R * v, ab, N)
    BY <1>9, <2>2, <2>3, <2>5, <2>6, CongOn
  <2>. QED
    BY <2>7 DEF ab
<1>. QED
  BY <1>21, <1>22 DEF r, v, A, B, N

-----------------------------------------------------------------------------
(* R is prime to an odd modulus.                                           *)
LEMMA CancelPow ==
    ASSUME NEW m \in Nat, m % 2 = 1, NEW x \in Int, NEW y \in Int, NEW k \in Nat,
           Cong(Pow(2, k) * x, Pow(2, k) * y, m)
    PROVE  Cong(x, y, m)
<1>. DEFINE h == m \div 2
            v == h + 1
            inv(j) == Pow(v, j) * Pow(2, j)
            T == {j \in Nat : Cong(inv(j), 1, m)}
<1>1. m = 2 * h + 1 /\ h \in Nat
  OBVIOUS
<1>2. m \in Nat \ {0} /\ v \in Nat /\ 2 \in Nat /\ 1 \in Int
  BY <1>1
<1>. HIDE DEF h
<1>3. Cong(v * 2, 1, m)
  <2>1. v * 2 = 1 + m * 1
    BY <1>1
  <2>. QED
    BY <1>2, <2>1 DEF Cong
<1>. HIDE DEF v
<1>4. \A j \in Nat : Pow(v, j) \in Nat /\ Pow(2, j) \in Nat
  BY <1>2, PowIn
<1>5. 0 \in T
  <2>1. inv(0) = 1 * 1
    BY PowIs
  <2>2. 1 * 1 = 1 /\ 0 \in Nat
    OBVIOUS
  <2>. QED
    BY <1>2, <2>1, <2>2, CongSame
<1>6. ASSUME NEW j \in Nat, j \in T PROVE j + 1 \in T
  <2>. DEFINE p == Pow(v, j)
              q == Pow(2, j)
  <2>1. inv(j + 1) = (p * v) * (q * 2)
    BY PowIs
  <2>2. p \in Nat /\ q \in Nat /\ Cong(p * q, 1, m)
    BY <1>4, <1>6
  <2>. HIDE DEF p, q, inv
  <2>3. (p * v) * (q * 2) = (p * q) * (v * 2) /\ p * q \in Int /\ v * 2 \in Int
    BY <1>2, <2>2
  <2>4. Cong((p * q) * (v * 2), 1 * 1, m)
    <3>. DEFINE pq == p * q
                v2 == v * 2
    <3>1. pq \in Int /\ v2 \in Int /\ Cong(pq, 1, m) /\ Cong(v2, 1, m)
      BY <1>3, <2>2, <2>3
    <3>. HIDE DEF pq, v2
    <3>2. Cong(pq * v2, 1 * 1, m)
      BY <1>2, <3>1, CongTimes
    <3>. QED
      BY <3>2 DEF pq, v2
  <2>5. Cong(inv(j + 1), 1, m)
    BY <2>1, <2>3, <2>4
  <2>. QED
    BY <2>5
<1>. HIDE DEF T
<1>7. k \in T
  BY <1>5, <1>6, Inductive
<1>. DEFINE p == Pow(v, k)
            q == Pow(2, k)
            pq == p * q
<1>8. Cong(pq, 1, m) /\ p \in Int /\ q \in Int /\ pq \in Int
  <2>1. Cong(pq, 1, m) /\ p \in Nat /\ q \in Nat
    BY <1>4, <1>7 DEF T
  <2>. HIDE DEF p, q
  <2>. QED
    BY <2>1
<1>9. Cong(p * (q * x), p * (q * y), m)
  <2>. DEFINE qx == q * x
              qy == q * y
  <2>1. qx \in Int /\ qy \in Int /\ Cong(qx, qy, m)
    BY <1>8, Commutes
  <2>. HIDE DEF qx, qy
  <2>2. Cong(p * qx, p * qy, m)
    BY <1>2, <1>8, <2>1, CongScales
  <2>. QED
    BY <2>2 DEF qx, qy
<1>10. p * (q * x) = pq * x /\ p * (q * y) = pq * y
  BY <1>8, Associates
<1>. HIDE DEF p, q, pq
<1>11. Cong(pq * x, 1 * x, m) /\ Cong(pq * y, 1 * y, m)
  BY <1>2, <1>8, CongScales
<1>12. 1 * x = x /\ 1 * y = y /\ pq * x \in Int /\ pq * y \in Int
  BY <1>8, Commutes
<1>13. Cong(x, pq * x, m)
  BY <1>2, <1>11, <1>12, CongBack
<1>14. Cong(x, pq * y, m)
  BY <1>2, <1>9, <1>10, <1>12, <1>13, CongOn
<1>. QED
  BY <1>2, <1>11, <1>12, <1>14, CongOn

LEMMA CancelR ==
    ASSUME NEW m \in Nat, m % 2 = 1, NEW x \in Int, NEW y \in Int, Cong(R * x, R * y, m)
    PROVE  Cong(x, y, m)
<1>1. R = Pow(2, Bits) /\ Bits \in Nat
  BY RIs
<1>. QED
  BY <1>1, CancelPow

(* A Montgomery product of two numbers in Montgomery form.                 *)
LEMMA MontPower ==
    ASSUME NEW m \in Nat, m % 2 = 1, NEW x \in Int, NEW u \in Int, NEW v \in Int,
           NEW c \in Int, NEW d \in Int, Cong(R * x, u * v, m), Cong(u, c * R, m), Cong(v, d, m)
    PROVE  Cong(x, c * d, m)
<1>. DEFINE cr == c * R
            rcd == R * (c * d)
<1>1. m \in Nat \ {0} /\ R \in Int
  BY RIs
<1>2. cr \in Int /\ cr * d = rcd /\ rcd \in Int /\ u * v \in Int /\ R * x \in Int /\ c * d \in Int
  <2>1. cr \in Int /\ c * d \in Int /\ u * v \in Int /\ R * x \in Int
    BY <1>1, Commutes
  <2>2. (c * R) * d = R * (c * d)
    BY <1>1
  <2>3. rcd \in Int
    BY <1>1, <2>1, Commutes
  <2>. QED
    BY <2>1, <2>2, <2>3
<1>3. Cong(u * v, rcd, m)
  <2>. HIDE DEF cr, rcd
  <2>1. Cong(u, cr, m)
    BY DEF cr
  <2>2. Cong(u * v, cr * d, m)
    BY <1>1, <1>2, <2>1, CongTimes
  <2>. QED
    BY <1>2, <2>2
<1>4. Cong(R * x, rcd, m)
  <2>. DEFINE rx == R * x
              uv == u * v
  <2>1. rx \in Int /\ uv \in Int /\ rcd \in Int /\ Cong(rx, uv, m) /\ Cong(uv, rcd, m)
    BY <1>2, <1>3
  <2>. HIDE DEF rx, uv, rcd
  <2>2. Cong(rx, rcd, m)
    BY <1>1, <2>1, CongOn
  <2>. QED
    BY <2>2 DEF rx
<1>. QED
  BY <1>2, <1>4, CancelR

-----------------------------------------------------------------------------
(* Powers modulo the key's number.                                         *)
(* The powers of x modulo N.                                               *)
PowersMod(f, x, N, m) == f = [k \in 0 .. m |-> IF k = 0 THEN 1 % N ELSE (f[k - 1] * x) % N]

LEMMA PowersModAre ==
    ASSUME NEW f, NEW x, NEW N, NEW m \in Nat, PowersMod(f, x, N, m)
    PROVE  f[0] = 1 % N /\ \A k \in 0 .. (m - 1) : f[k + 1] = (f[k] * x) % N
<1>. DEFINE G(k, y) == (y * x) % N
<1>1. \A k \in 0 .. m : f[k] = IF k = 0 THEN 1 % N ELSE G(k, f[k - 1])
  BY DEF PowersMod
<1>. HIDE DEF G
<1>2. 0 \in 0 .. m /\ \A k \in 0 .. (m - 1) : k + 1 \in 0 .. m /\ k + 1 # 0 /\ (k + 1) - 1 = k
  OBVIOUS
<1>3. f[0] = 1 % N /\ \A k \in 0 .. (m - 1) : f[k + 1] = G(k + 1, f[k])
  BY <1>1, <1>2
<1>. QED
  BY <1>3, Zenon DEF G

LEMMA SomePowersMod == ASSUME NEW x, NEW N PROVE \A m \in Nat : \E f : PowersMod(f, x, N, m)
<1>. DEFINE T == {m \in Nat : \E f : PowersMod(f, x, N, m)}
            G(k, y) == (y * x) % N
            z == 1 % N
<1>1. 0 \in T
  <2>. DEFINE g == [k \in 0 .. 0 |-> z]
  <2>1. g = [k \in 0 .. 0 |-> IF k = 0 THEN z ELSE G(k, g[k - 1])]
    <3>. HIDE DEF G, z
    <3>. QED
      OBVIOUS
  <2>2. PowersMod(g, x, N, 0)
    <3>. HIDE DEF g
    <3>. QED
      BY <2>1, Zenon DEF PowersMod, G, z
  <2>3. 0 \in Nat
    OBVIOUS
  <2>. QED
    BY <2>2, <2>3
<1>2. ASSUME NEW m \in Nat, m \in T PROVE m + 1 \in T
  <2>1. PICK f : PowersMod(f, x, N, m)
    BY <1>2
  <2>2. f[0] = z /\ \A k \in 1 .. m : f[k] = G(k, f[k - 1])
    <3>1. \A k \in 0 .. m : f[k] = IF k = 0 THEN z ELSE G(k, f[k - 1])
      <4>1. f = [k \in 0 .. m |-> IF k = 0 THEN z ELSE G(k, f[k - 1])]
        BY <2>1, Zenon DEF PowersMod, G, z
      <4>. HIDE DEF G, z
      <4>. QED
        BY <4>1
    <3>. HIDE DEF G, z
    <3>2. 0 \in 0 .. m /\ \A k \in 1 .. m : k \in 0 .. m /\ k # 0
      OBVIOUS
    <3>. QED
      BY <3>1, <3>2
  <2>. HIDE DEF G, z
  <2>. DEFINE g == [k \in 0 .. (m + 1) |-> IF k = m + 1 THEN G(m + 1, f[m]) ELSE f[k]]
  <2>3. ASSUME NEW k \in 0 .. (m + 1)
        PROVE  g[k] = IF k = 0 THEN z ELSE G(k, g[k - 1])
    <3>1. CASE k = 0
      BY <2>2, <3>1
    <3>2. CASE k = m + 1
      <4>1. g[k] = G(k, f[m]) /\ k - 1 = m /\ m \in 0 .. (m + 1) /\ m # m + 1 /\ k # 0
        BY <3>2
      <4>2. g[m] = f[m]
        BY <4>1
      <4>. QED
        BY <4>1, <4>2
    <3>3. CASE k \in 1 .. m
      <4>1. k # m + 1 /\ k - 1 # m + 1 /\ k # 0 /\ k - 1 \in 0 .. (m + 1)
        BY <3>3
      <4>2. g[k] = f[k] /\ g[k - 1] = f[k - 1]
        BY <4>1
      <4>. HIDE DEF g
      <4>. QED
        BY <4>1, <4>2, <2>2, <3>3
    <3>. QED
      BY <3>1, <3>2, <3>3
  <2>4. g = [k \in 0 .. (m + 1) |-> g[k]]
    OBVIOUS
  <2>. HIDE DEF g
  <2>5. g = [k \in 0 .. (m + 1) |-> IF k = 0 THEN z ELSE G(k, g[k - 1])]
    BY <2>3, <2>4
  <2>6. PowersMod(g, x, N, m + 1)
    BY <2>5, Zenon DEF PowersMod, G, z
  <2>7. m + 1 \in Nat
    OBVIOUS
  <2>. QED
    BY <2>6, <2>7
<1>. HIDE DEF T
<1>3. Nat \subseteq T
  BY <1>1, <1>2, Inductive
<1>. QED
  BY <1>3, Zenon DEF T

LEMMA PowerModIs ==
    ASSUME NEW x \in Nat, NEW e \in Nat, key.n \in Nat \ {0}
    PROVE  PowerMod(x, e) \in 0 .. (key.n - 1) /\ Cong(PowerMod(x, e), Pow(x, e), key.n)
<1>. DEFINE N == key.n
            h == CHOOSE f : PowersMod(f, x, N, e)
<1>1. PowerMod(x, e) = h[e]
  BY DEF PowerMod, PowersMod
<1>2. PowersMod(h, x, N, e)
  <2>1. \E f : PowersMod(f, x, N, e)
    BY SomePowersMod
  <2>. QED
    BY <2>1
<1>. HIDE DEF h, N
<1>3. N \in Nat \ {0}
  BY DEF N
<1>4. h[0] = 1 % N /\ \A k \in 0 .. (e - 1) : h[k + 1] = (h[k] * x) % N
  BY <1>2, PowersModAre
<1>. DEFINE T == {k \in 0 .. e : h[k] \in 0 .. (N - 1) /\ Cong(h[k], Pow(x, k), N)}
<1>5. 0 \in T
  <2>1. 1 \in Int /\ 0 \in 0 .. e
    OBVIOUS
  <2>2. (1 % N) \in 0 .. (N - 1) /\ Cong(1 % N, 1, N)
    BY <1>3, <2>1, CongRest
  <2>. QED
    BY <1>4, <2>1, <2>2, PowIs
<1>6. ASSUME NEW k \in 0 .. (e - 1), k \in T PROVE k + 1 \in T
  <2>. DEFINE g == h[k]
              gx == g * x
              p == Pow(x, k)
  <2>1. g \in 0 .. (N - 1) /\ Cong(g, p, N) /\ k + 1 \in 0 .. e /\ k \in Nat
    BY <1>6
  <2>2. g \in Int /\ x \in Int /\ p \in Int
    <3>1. p \in Nat
      BY <2>1, PowIn
    <3>. QED
      BY <1>3, <2>1, <3>1
  <2>3. h[k + 1] = gx % N /\ Pow(x, k + 1) = p * x
    BY <1>4, <2>1, PowIs
  <2>. HIDE DEF g, p
  <2>4. gx \in Int /\ p * x \in Int /\ Cong(gx, p * x, N)
    BY <1>3, <2>1, <2>2, CongScales, Commutes
  <2>. HIDE DEF gx
  <2>5. (gx % N) \in 0 .. (N - 1) /\ Cong(gx % N, gx, N) /\ gx % N \in Int
    BY <1>3, <2>4, CongRest
  <2>. DEFINE px == p * x
              r == gx % N
  <2>6. r \in Int /\ px \in Int /\ Cong(r, gx, N) /\ Cong(gx, px, N)
    BY <2>4, <2>5
  <2>. HIDE DEF px, r
  <2>7. Cong(r, px, N)
    BY <1>3, <2>4, <2>6, CongOn
  <2>. QED
    BY <2>1, <2>3, <2>5, <2>7 DEF px, r
<1>. HIDE DEF T
<1>7. e \in T
  <2>1. e \in 0 .. e
    OBVIOUS
  <2>. QED
    BY <1>5, <1>6, <2>1, InductiveTo
<1>. QED
  BY <1>1, <1>7 DEF T, N

(* A number in Montgomery form, written as the property writes it.         *)
LEMMA FormIs ==
    ASSUME NEW N \in Nat \ {0}, NEW v \in 0 .. (N - 1), NEW c \in Int, NEW d \in Int,
           Cong(c, d, N), Cong(v, c * R, N)
    PROVE  v = (d * (R % N)) % N
<1>. DEFINE r == R % N
            dr == d * r
            cr == c * R
<1>1. R \in Int
  BY RIs
<1>2. r \in Int /\ Cong(R, r, N)
  BY <1>1, CongRest
<1>. HIDE DEF r
<1>3. Cong(cr, dr, N) /\ cr \in Int /\ dr \in Int
  BY <1>1, <1>2, CongTimes, Commutes
<1>. HIDE DEF cr, dr
<1>4. Cong(v, dr, N) /\ v \in Int
  BY <1>3, CongOn DEF cr
<1>5. (v % N) = (dr % N)
  BY <1>3, <1>4, CongRests
<1>6. v % N = v
  BY RestSmall
<1>. QED
  BY <1>5, <1>6 DEF r, dr

-----------------------------------------------------------------------------
(* The bits of the exponent.                                               *)
LEMMA ShiftIs ==
    ASSUME NEW e \in Nat, NEW k \in Nat, NEW b \in Nat \ {0}
    PROVE  /\ e \div Pow(b, k) \in Nat
           /\ e \div Pow(b, k) = b * (e \div Pow(b, k + 1)) + ((e \div Pow(b, k)) % b)
           /\ (e \div Pow(b, k)) \div b = e \div Pow(b, k + 1)
           /\ (e \div Pow(b, k)) % b \in 0 .. (b - 1)
<1>. DEFINE p == Pow(b, k)
            q == e \div p
            r == e % p
            h == q \div b
            d == q % b
<1>1. p \in Nat \ {0} /\ Pow(b, k + 1) = p * b
  BY PowNat, PowIs
<1>. HIDE DEF p
<1>2. q \in Nat /\ r \in 0 .. (p - 1) /\ e = p * q + r
  <2>1. e \in Int
    OBVIOUS
  <2>2. q \in Nat
    BY <1>1, <2>1, DivideBy
  <2>3. r \in 0 .. (p - 1) /\ e = p * q + r
    BY <1>1, <2>1, DivideBy
  <2>. QED
    BY <2>2, <2>3
<1>. HIDE DEF q, r
<1>3. h \in Int /\ d \in 0 .. (b - 1) /\ q = b * h + d
  <2>1. q \in Int
    BY <1>2
  <2>. QED
    BY <2>1, DivideBy
<1>. HIDE DEF h, d
<1>4. e \div (p * b) = h
  <2>. DEFINE pb == p * b
              y == p * d + r
  <2>1. p * d \in Nat /\ p * d + p <= pb /\ pb \in Nat \ {0}
    <3>1. d \in Nat /\ d < b /\ d * p = p * d /\ b * p = p * b
      BY <1>1, <1>3
    <3>2. d * p + p <= b * p
      BY <1>1, <3>1, GrowsMore
    <3>. QED
      BY <1>1, <3>1, <3>2, Naturals
  <2>2. y \in 0 .. (pb - 1)
    <3>. DEFINE pd == p * d
    <3>. HIDE DEF pd, pb
    <3>1. pd \in Nat /\ pd + p <= pb
      BY <2>1 DEF pd
    <3>2. pd + r \in 0 .. (pb - 1)
      BY <1>1, <1>2, <2>1, <3>1
    <3>. QED
      BY <3>2 DEF pd
  <2>3. e = pb * h + y
    <3>1. b * h \in Int
      BY <1>3, Commutes
    <3>2. p * (b * h + d) = p * (b * h) + p * d /\ p * (b * h) = pb * h /\ pb * h \in Int
      <4>1. p * (b * h + d) = p * (b * h) + p * d
        BY <1>1, <1>3, <3>1, Distributes
      <4>2. p * (b * h) = pb * h
        BY <1>1, <1>3, Associates
      <4>3. pb * h \in Int
        <5>. HIDE DEF pb
        <5>. QED
          BY <1>3, <2>1, Commutes
      <4>. QED
        BY <4>1, <4>2, <4>3
    <3>3. e = (p * (b * h) + p * d) + r
      BY <1>2, <1>3, <3>2
    <3>. DEFINE ph == pb * h
                pd == p * d
    <3>4. ph \in Int /\ pd \in Int /\ e = (ph + pd) + r
      BY <2>1, <3>2, <3>3
    <3>. HIDE DEF ph, pd
    <3>5. e = ph + (pd + r)
      BY <1>2, <3>4
    <3>. QED
      BY <3>5 DEF ph, pd
  <2>. HIDE DEF pb, y
  <2>4. (pb * h + y) \div pb = h
    BY <1>3, <2>1, <2>2, RestIs
  <2>. QED
    BY <2>3, <2>4 DEF pb
<1>. QED
  BY <1>1, <1>2, <1>3, <1>4 DEF p, q, h, d

LEMMA BitIs ==
    ASSUME NEW e \in Nat, NEW k \in Nat
    PROVE  /\ e \div Pow(2, k) \in Nat /\ Bit(e, k) \in {0, 1}
           /\ e \div Pow(2, k) = 2 * (e \div Pow(2, k + 1)) + Bit(e, k)
<1>1. 2 \in Nat \ {0}
  OBVIOUS
<1>2. /\ e \div Pow(2, k) \in Nat
      /\ e \div Pow(2, k) = 2 * (e \div Pow(2, k + 1)) + ((e \div Pow(2, k)) % 2)
      /\ (e \div Pow(2, k)) % 2 \in 0 .. (2 - 1)
  BY <1>1, ShiftIs
<1>. QED
  BY <1>2 DEF Bit

(* Above its highest 1 there is nothing in the exponent.                   *)
LEMMA NoBitsAbove ==
    ASSUME NEW m \in Nat, NEW e \in 0 .. (Pow(2, m) - 1), NEW l \in 0 .. m,
           \A k \in l .. (m - 1) : Bit(e, k) # 1
    PROVE  e \div Pow(2, l) = 0
<1>. DEFINE T == {j \in 0 .. (m - l) : e \div Pow(2, m - j) = 0}
<1>1. 2 \in Nat \ {0} /\ m - l \in Nat /\ e \in Nat
  <2>1. Pow(2, m) \in Nat
    <3>1. 2 \in Nat
      OBVIOUS
    <3>. QED
      BY <3>1, PowIn
  <2>. QED
    BY <2>1
<1>2. 0 \in T
  <2>. DEFINE p == Pow(2, m)
  <2>1. p \in Nat \ {0}
    BY <1>1, PowNat
  <2>2. e \in 0 .. (p - 1)
    OBVIOUS
  <2>. HIDE DEF p
  <2>3. (p * 0 + e) \div p = 0 /\ p * 0 + e = e
    BY <2>1, <2>2, RestIs
  <2>4. m - 0 = m /\ 0 \in 0 .. (m - l)
    BY <1>1
  <2>. QED
    BY <2>3, <2>4 DEF p
<1>3. ASSUME NEW j \in 0 .. ((m - l) - 1), j \in T PROVE j + 1 \in T
  <2>. DEFINE k == m - (j + 1)
  <2>1. k \in Nat /\ k + 1 = m - j /\ k \in l .. (m - 1) /\ j + 1 \in 0 .. (m - l)
    BY <1>1
  <2>2. e \div Pow(2, k + 1) = 0
    BY <1>3, <2>1
  <2>. HIDE DEF k
  <2>3. Bit(e, k) \in {0, 1} /\ e \div Pow(2, k) = 2 * 0 + Bit(e, k)
    <3>1. Bit(e, k) \in {0, 1} /\ e \div Pow(2, k) = 2 * (e \div Pow(2, k + 1)) + Bit(e, k)
      BY <1>1, <2>1, BitIs
    <3>. QED
      BY <2>2, <3>1, Zenon
  <2>4. Bit(e, k) # 1
    BY <2>1
  <2>5. e \div Pow(2, k) = 0
    BY <2>3, <2>4
  <2>. QED
    BY <2>1, <2>5 DEF k
<1>. HIDE DEF T
<1>4. m - l \in T
  <2>1. m - l \in 0 .. (m - l)
    BY <1>1
  <2>. QED
    BY <1>1, <1>2, <1>3, <2>1, InductiveTo
<1>5. m - (m - l) = l
  OBVIOUS
<1>. QED
  BY <1>4, <1>5 DEF T

-----------------------------------------------------------------------------
(* Bytes and words.                                                        *)
(* A word from its bytes, as far as each.                                  *)
Reads(f, buf, wd, m) == f = [k \in 0 .. m |-> IF k = 0 THEN 0 ELSE f[k - 1] * Byte + buf[Bytes - wd * LimbBytes + k]]

LEMMA ReadsAre ==
    ASSUME NEW f, NEW buf, NEW wd, NEW m \in Nat, Reads(f, buf, wd, m)
    PROVE  f[0] = 0 /\ \A k \in 0 .. (m - 1) : f[k + 1] = f[k] * Byte + buf[Bytes - wd * LimbBytes + (k + 1)]
<1>. DEFINE G(k, y) == y * Byte + buf[Bytes - wd * LimbBytes + k]
<1>1. \A k \in 0 .. m : f[k] = IF k = 0 THEN 0 ELSE G(k, f[k - 1])
  BY DEF Reads
<1>. HIDE DEF G
<1>2. 0 \in 0 .. m /\ \A k \in 0 .. (m - 1) : k + 1 \in 0 .. m /\ k + 1 # 0 /\ (k + 1) - 1 = k
  OBVIOUS
<1>3. f[0] = 0 /\ \A k \in 0 .. (m - 1) : f[k + 1] = G(k + 1, f[k])
  BY <1>1, <1>2
<1>. QED
  BY <1>3, Zenon DEF G

LEMMA SomeReads == ASSUME NEW buf, NEW wd PROVE \A m \in Nat : \E f : Reads(f, buf, wd, m)
<1>. DEFINE T == {m \in Nat : \E f : Reads(f, buf, wd, m)}
            G(k, y) == y * Byte + buf[Bytes - wd * LimbBytes + k]
            z == 0
<1>1. 0 \in T
  <2>. DEFINE g == [k \in 0 .. 0 |-> z]
  <2>1. g = [k \in 0 .. 0 |-> IF k = 0 THEN z ELSE G(k, g[k - 1])]
    <3>. HIDE DEF G, z
    <3>. QED
      OBVIOUS
  <2>2. Reads(g, buf, wd, 0)
    <3>. HIDE DEF g
    <3>. QED
      BY <2>1, Zenon DEF Reads, G, z
  <2>3. 0 \in Nat
    OBVIOUS
  <2>. QED
    BY <2>2, <2>3
<1>2. ASSUME NEW m \in Nat, m \in T PROVE m + 1 \in T
  <2>1. PICK f : Reads(f, buf, wd, m)
    BY <1>2
  <2>2. f[0] = z /\ \A k \in 1 .. m : f[k] = G(k, f[k - 1])
    <3>1. \A k \in 0 .. m : f[k] = IF k = 0 THEN z ELSE G(k, f[k - 1])
      <4>1. f = [k \in 0 .. m |-> IF k = 0 THEN z ELSE G(k, f[k - 1])]
        BY <2>1, Zenon DEF Reads, G, z
      <4>. HIDE DEF G, z
      <4>. QED
        BY <4>1
    <3>. HIDE DEF G, z
    <3>2. 0 \in 0 .. m /\ \A k \in 1 .. m : k \in 0 .. m /\ k # 0
      OBVIOUS
    <3>. QED
      BY <3>1, <3>2
  <2>. HIDE DEF G, z
  <2>. DEFINE g == [k \in 0 .. (m + 1) |-> IF k = m + 1 THEN G(m + 1, f[m]) ELSE f[k]]
  <2>3. ASSUME NEW k \in 0 .. (m + 1)
        PROVE  g[k] = IF k = 0 THEN z ELSE G(k, g[k - 1])
    <3>1. CASE k = 0
      BY <2>2, <3>1
    <3>2. CASE k = m + 1
      <4>1. g[k] = G(k, f[m]) /\ k - 1 = m /\ m \in 0 .. (m + 1) /\ m # m + 1 /\ k # 0
        BY <3>2
      <4>2. g[m] = f[m]
        BY <4>1
      <4>. QED
        BY <4>1, <4>2
    <3>3. CASE k \in 1 .. m
      <4>1. k # m + 1 /\ k - 1 # m + 1 /\ k # 0 /\ k - 1 \in 0 .. (m + 1)
        BY <3>3
      <4>2. g[k] = f[k] /\ g[k - 1] = f[k - 1]
        BY <4>1
      <4>. HIDE DEF g
      <4>. QED
        BY <4>1, <4>2, <2>2, <3>3
    <3>. QED
      BY <3>1, <3>2, <3>3
  <2>4. g = [k \in 0 .. (m + 1) |-> g[k]]
    OBVIOUS
  <2>. HIDE DEF g
  <2>5. g = [k \in 0 .. (m + 1) |-> IF k = 0 THEN z ELSE G(k, g[k - 1])]
    BY <2>3, <2>4
  <2>6. Reads(g, buf, wd, m + 1)
    BY <2>5, Zenon DEF Reads, G, z
  <2>7. m + 1 \in Nat
    OBVIOUS
  <2>. QED
    BY <2>6, <2>7
<1>. HIDE DEF T
<1>3. Nat \subseteq T
  BY <1>1, <1>2, Inductive
<1>. QED
  BY <1>3, Zenon DEF T

Bytewise(buf) == \A b \in 1 .. Bytes : buf[b] \in 0 .. (Byte - 1)

LEMMA ReadsWord ==
    ASSUME NEW buf, NEW wd \in 1 .. Limbs
    PROVE  \E f : Reads(f, buf, wd, LimbBytes) /\ FromBytes(buf)[wd] = f[LimbBytes]
<1>. DEFINE h == CHOOSE f : Reads(f, buf, wd, LimbBytes)
<1>1. FromBytes(buf)[wd] = h[LimbBytes]
  BY DEF FromBytes, Reads
<1>2. Reads(h, buf, wd, LimbBytes)
  <2>1. \E f : Reads(f, buf, wd, LimbBytes)
    BY SomeReads, Widths
  <2>. QED
    BY <2>1
<1>. HIDE DEF h
<1>. QED
  BY <1>1, <1>2

LEMMA WordPlaces ==
    ASSUME NEW wd \in 1 .. Limbs, NEW j \in 1 .. LimbBytes
    PROVE  Bytes - wd * LimbBytes + j \in 1 .. Bytes
<1>1. Limbs \in Nat /\ LimbBytes \in Nat /\ Bytes = Limbs * LimbBytes /\ wd \in Nat
  BY Widths DEF Bytes
<1>2. wd * LimbBytes <= Limbs * LimbBytes /\ 1 * LimbBytes <= wd * LimbBytes /\ wd * LimbBytes \in Nat
  BY <1>1, Grows, Naturals
<1>. DEFINE p == wd * LimbBytes
<1>3. p \in Nat /\ p <= Bytes /\ LimbBytes <= p /\ Bytes \in Nat
  BY <1>1, <1>2, Widths
<1>. HIDE DEF p
<1>4. Bytes - p + j \in 1 .. Bytes
  BY <1>1, <1>3
<1>. QED
  BY <1>4 DEF p

LEMMA ReadsSteps ==
    ASSUME NEW buf, Bytewise(buf), NEW wd \in 1 .. Limbs, NEW f, Reads(f, buf, wd, LimbBytes)
    PROVE  /\ f[0] = 0
           /\ \A j \in 0 .. (LimbBytes - 1) :
                 /\ buf[Bytes - wd * LimbBytes + (j + 1)] \in 0 .. (Byte - 1)
                 /\ f[j + 1] = Byte * f[j] + buf[Bytes - wd * LimbBytes + (j + 1)]
           /\ \A j \in 0 .. LimbBytes : f[j] \in 0 .. (Pow(Byte, j) - 1) /\ f[j] \in Nat
<1>. DEFINE d(j) == buf[Bytes - wd * LimbBytes + (j + 1)]
<1>1. LimbBytes \in Nat /\ Byte \in Nat \ {0}
  BY Widths
<1>2. f[0] = 0 /\ \A j \in 0 .. (LimbBytes - 1) : f[j + 1] = f[j] * Byte + d(j)
  BY <1>1, ReadsAre
<1>3. \A j \in 0 .. (LimbBytes - 1) : d(j) \in 0 .. (Byte - 1)
  <2>1. TAKE j \in 0 .. (LimbBytes - 1)
  <2>2. j + 1 \in 1 .. LimbBytes
    BY <1>1
  <2>3. Bytes - wd * LimbBytes + (j + 1) \in 1 .. Bytes
    BY <2>2, WordPlaces
  <2>. QED
    BY <2>3 DEF Bytewise
<1>. HIDE DEF d
<1>. DEFINE T == {j \in 0 .. LimbBytes : f[j] \in 0 .. (Pow(Byte, j) - 1)}
<1>4. 0 \in T
  BY <1>1, <1>2, PowIs
<1>5. ASSUME NEW j \in 0 .. (LimbBytes - 1), j \in T PROVE j + 1 \in T
  <2>. DEFINE p == Pow(Byte, j)
              v == f[j]
  <2>1. p \in Nat \ {0} /\ Pow(Byte, j + 1) = p * Byte /\ j + 1 \in 0 .. LimbBytes
    BY <1>1, PowNat, PowIs
  <2>2. v \in 0 .. (p - 1)
    BY <1>5
  <2>. HIDE DEF p, v
  <2>3. v * Byte + Byte <= p * Byte /\ v * Byte \in Nat /\ p * Byte \in Nat
    BY <1>1, <2>1, <2>2, GrowsMore, Naturals
  <2>. DEFINE vb == v * Byte
              pb == p * Byte
  <2>. HIDE DEF vb, pb
  <2>4. vb + d(j) \in 0 .. (pb - 1)
    <3>1. vb + Byte <= pb /\ vb \in Nat /\ pb \in Nat
      BY <2>3 DEF vb, pb
    <3>2. d(j) \in 0 .. (Byte - 1)
      BY <1>3
    <3>. QED
      BY <1>1, <3>1, <3>2
  <2>. QED
    BY <1>2, <2>1, <2>4 DEF vb, pb, v
<1>. HIDE DEF T
<1>6. \A j \in 0 .. LimbBytes : j \in T
  BY <1>1, <1>4, <1>5, InductiveTo
<1>7. \A j \in 0 .. LimbBytes : f[j] \in 0 .. (Pow(Byte, j) - 1) /\ f[j] \in Nat
  <2>1. \A j \in 0 .. LimbBytes : Pow(Byte, j) \in Nat
    BY <1>1, PowNat
  <2>. QED
    BY <1>6, <2>1 DEF T
<1>8. \A j \in 0 .. (LimbBytes - 1) : f[j] * Byte = Byte * f[j]
  <2>1. \A j \in 0 .. (LimbBytes - 1) : j \in 0 .. LimbBytes
    BY <1>1
  <2>. QED
    BY <1>1, <1>7, <2>1, Commutes
<1>9. \A j \in 0 .. (LimbBytes - 1) : f[j + 1] = Byte * f[j] + d(j)
  BY <1>2, <1>8
<1>. QED
  BY <1>2, <1>3, <1>7, <1>9 DEF d

LEMMA FromBytesIs == ASSUME NEW buf, Bytewise(buf) PROVE BigOf(FromBytes(buf), Limbs)
<1>1. \A wd \in 1 .. Limbs : FromBytes(buf)[wd] \in 0 .. (Word - 1)
  <2>1. TAKE wd \in 1 .. Limbs
  <2>2. PICK f : Reads(f, buf, wd, LimbBytes) /\ FromBytes(buf)[wd] = f[LimbBytes]
    BY ReadsWord
  <2>3. LimbBytes \in 0 .. LimbBytes
    BY Widths
  <2>4. f[LimbBytes] \in 0 .. (Pow(Byte, LimbBytes) - 1)
    BY <2>2, <2>3, ReadsSteps
  <2>. QED
    BY <2>2, <2>4 DEF Word
<1>. DEFINE a == FromBytes(buf)
<1>2. a = [k \in 1 .. Limbs |-> a[k]]
  BY DEF FromBytes
<1>. HIDE DEF a
<1>3. \A k \in 1 .. Limbs : a[k] \in 0 .. (Word - 1)
  BY <1>1 DEF a
<1>4. BigOf(a, Limbs)
  BY <1>2, <1>3, BigFun DEF IsBig
<1>. QED
  BY <1>4 DEF a

(* The place of a byte in its word.                                        *)
LEMMA Places ==
    ASSUME NEW b \in 1 .. Bytes, NEW up, up = Bytes - b
    PROVE  /\ up \div LimbBytes \in 0 .. (Limbs - 1) /\ up % LimbBytes \in 0 .. (LimbBytes - 1)
           /\ LimbBytes - (up % LimbBytes) \in 1 .. LimbBytes
           /\ Bytes - (1 + (up \div LimbBytes)) * LimbBytes + (LimbBytes - (up % LimbBytes)) = b
<1>. DEFINE q == up \div LimbBytes
            r == up % LimbBytes
<1>1. LimbBytes \in Nat \ {0} /\ Limbs \in Nat \ {0} /\ Bytes = Limbs * LimbBytes /\ Bytes \in Nat \ {0}
  BY Widths DEF Bytes
<1>2. up \in Nat /\ up < Bytes /\ b = Bytes - up
  BY <1>1
<1>3. q \in Nat /\ r \in 0 .. (LimbBytes - 1) /\ up = LimbBytes * q + r
  <2>1. up \in Int
    BY <1>2
  <2>2. r \in 0 .. (LimbBytes - 1) /\ up = LimbBytes * q + r
    BY <1>1, <2>1, DivideBy
  <2>3. q \in Nat
    BY <1>1, <1>2, <2>1, DivideBy
  <2>. QED
    BY <2>2, <2>3
<1>. HIDE DEF q, r
<1>4. q \in 0 .. (Limbs - 1)
  <2>1. CASE q >= Limbs
    <3>1. Limbs * LimbBytes <= q * LimbBytes /\ q * LimbBytes = LimbBytes * q
      BY <1>1, <1>3, <2>1, Grows, Commutes
    <3>2. LimbBytes * q \in Nat
      BY <1>1, <1>3, Naturals
    <3>. QED
      BY <1>1, <1>2, <1>3, <3>1, <3>2
  <2>. QED
    BY <1>1, <1>3, <2>1
<1>5. (1 + q) * LimbBytes = LimbBytes + LimbBytes * q /\ LimbBytes * q \in Nat
  BY <1>1, <1>3
<1>6. LimbBytes - r \in 1 .. LimbBytes
  BY <1>1, <1>3
<1>. DEFINE p == LimbBytes * q
            u == (1 + q) * LimbBytes
<1>7. u = LimbBytes + p /\ p \in Nat /\ up = p + r
  BY <1>3, <1>5
<1>. HIDE DEF p, u
<1>8. Bytes - u + (LimbBytes - r) = b
  BY <1>1, <1>2, <1>3, <1>7
<1>. QED
  BY <1>3, <1>4, <1>6, <1>8 DEF q, r, u

LEMMA ToBytesIs ==
    ASSUME NEW a, IsBig(a, Limbs)
    PROVE  Bytewise(ToBytes(a)) /\ ToBytes(a) \in Seq(0 .. (Byte - 1)) /\ Len(ToBytes(a)) = Bytes
<1>. DEFINE t == ToBytes(a)
            g(b) == (a[1 + ((Bytes - b) \div LimbBytes)] \div Pow(Byte, (Bytes - b) % LimbBytes)) % Byte
<1>1. t = [b \in 1 .. Bytes |-> g(b)]
  BY DEF ToBytes
<1>2. \A b \in 1 .. Bytes : g(b) \in 0 .. (Byte - 1)
  <2>1. TAKE b \in 1 .. Bytes
  <2>. DEFINE up == Bytes - b
              k == 1 + (up \div LimbBytes)
              j == up % LimbBytes
              x == a[k]
              p == Pow(Byte, j)
  <2>2. k \in 1 .. Limbs /\ j \in Nat
    <3>1. up \div LimbBytes \in 0 .. (Limbs - 1) /\ up % LimbBytes \in 0 .. (LimbBytes - 1)
      BY Places
    <3>. HIDE DEF up
    <3>. QED
      BY <3>1, Widths
  <2>3. Byte \in Nat \ {0}
    BY Widths
  <2>4. x \in Int /\ p \in Nat \ {0}
    <3>1. x \in 0 .. (Word - 1)
      BY <2>2 DEF IsBig
    <3>. HIDE DEF x, j
    <3>. QED
      BY <2>2, <2>3, <3>1, PowNat
  <2>. DEFINE y == x \div p
  <2>5. y \in Int
    <3>. HIDE DEF x, p
    <3>. QED
      BY <2>4, DivideBy
  <2>. HIDE DEF y
  <2>6. (y % Byte) \in 0 .. (Byte - 1)
    BY <2>3, <2>5, CongRest
  <2>. QED
    BY <2>6 DEF y
<1>. HIDE DEF t, g
<1>3. t \in [1 .. Bytes -> 0 .. (Byte - 1)]
  BY <1>1, <1>2
<1>4. Bytewise(t)
  BY <1>1, <1>2 DEF Bytewise
<1>5. t \in Seq(0 .. (Byte - 1)) /\ Len(t) = Bytes
  <2>1. Bytes \in Nat
    BY Widths
  <2>2. \A S1 : \A h \in [1 .. Bytes -> S1] : h \in Seq(S1) /\ Len(h) = Bytes
    <3>1. \A S1 : \A h \in [1 .. Bytes -> S1] : h \in Seq(S1)
      BY <2>1, SeqDef
    <3>2. \A S1 : \A h \in [1 .. Bytes -> S1] : DOMAIN h = 1 .. Bytes
      OBVIOUS
    <3>3. \A S1 : \A h \in Seq(S1) : DOMAIN h = 1 .. Len(h) /\ Len(h) \in Nat
      OBVIOUS
    <3>4. \A l \in Nat : 1 .. l = 1 .. Bytes => l = Bytes
      BY <2>1
    <3>. QED
      BY <3>1, <3>2, <3>3, <3>4
  <2>. QED
    BY <1>3, <2>2, Zenon
<1>. QED
  BY <1>4, <1>5 DEF t

(* Written to bytes and read, a number is what it was.                     *)
LEMMA FromTo ==
    ASSUME NEW a, IsBig(a, Limbs)
    PROVE  \A k \in 1 .. Limbs : FromBytes(ToBytes(a))[k] = a[k]
<1>1. TAKE wd \in 1 .. Limbs
<1>. DEFINE t == ToBytes(a)
            x == a[wd]
<1>2. Bytewise(t)
  BY ToBytesIs
<1>3. PICK f : Reads(f, t, wd, LimbBytes) /\ FromBytes(t)[wd] = f[LimbBytes]
  BY ReadsWord
<1>4. LimbBytes \in Nat \ {0} /\ Limbs \in Nat /\ Byte \in Nat \ {0} /\ Bytes = Limbs * LimbBytes /\ Word \in Nat \ {0}
  BY Widths, WordIs DEF Bytes
<1>5. x \in 0 .. (Word - 1) /\ x \in Nat
  <2>1. x \in 0 .. (Word - 1)
    BY DEF IsBig
  <2>. HIDE DEF x
  <2>. QED
    BY <1>4, <2>1
<1>6. f[0] = 0 /\ \A j \in 0 .. (LimbBytes - 1) : f[j + 1] = Byte * f[j] + t[Bytes - wd * LimbBytes + (j + 1)]
  BY <1>2, <1>3, ReadsSteps
<1>7. \A j \in 1 .. LimbBytes :
         t[Bytes - wd * LimbBytes + j] = (x \div Pow(Byte, LimbBytes - j)) % Byte
  <2>1. TAKE j \in 1 .. LimbBytes
  <2>. DEFINE b == Bytes - wd * LimbBytes + j
              up == Bytes - b
              v == wd - 1
              y == LimbBytes - j
  <2>2. b \in 1 .. Bytes
    BY WordPlaces
  <2>3. up = LimbBytes * v + y
    <3>1. LimbBytes * (wd - 1) = wd * LimbBytes - LimbBytes /\ wd * LimbBytes \in Int
      BY <1>4
    <3>. DEFINE u == wd * LimbBytes
    <3>2. u \in Int /\ Bytes \in Int /\ j \in Int
      BY <1>4, <3>1, Widths
    <3>3. Bytes - (Bytes - u + j) = (u - LimbBytes) + (LimbBytes - j)
      <4>. HIDE DEF u
      <4>. QED
        BY <1>4, <3>2
    <3>. QED
      BY <3>1, <3>3
  <2>4. v \in Int /\ y \in 0 .. (LimbBytes - 1) /\ 1 + v = wd
    BY <1>4
  <2>. HIDE DEF v, y
  <2>5. (LimbBytes * v + y) \div LimbBytes = v /\ (LimbBytes * v + y) % LimbBytes = y
    BY <1>4, <2>4, RestIs
  <2>6. up \div LimbBytes = v /\ up % LimbBytes = y
    <3>. HIDE DEF up
    <3>. QED
      BY <2>3, <2>5
  <2>7. t[b] = (a[1 + (up \div LimbBytes)] \div Pow(Byte, up % LimbBytes)) % Byte
    <3>. HIDE DEF b
    <3>. QED
      BY <2>2 DEF ToBytes
  <2>8. t[b] = (a[wd] \div Pow(Byte, y)) % Byte
    <3>. HIDE DEF b, up, t
    <3>. QED
      BY <2>4, <2>6, <2>7
  <2>. QED
    BY <2>8 DEF y
<1>. HIDE DEF t, x
<1>. DEFINE T == {j \in 0 .. LimbBytes : f[j] = x \div Pow(Byte, LimbBytes - j)}
<1>8. 0 \in T
  <2>1. (Word * 0 + x) \div Word = 0 /\ Word * 0 + x = x
    BY <1>4, <1>5, RestIs
  <2>2. LimbBytes - 0 = LimbBytes /\ 0 \in 0 .. LimbBytes
    BY <1>4
  <2>. QED
    BY <1>6, <2>1, <2>2 DEF Word
<1>9. ASSUME NEW j \in 0 .. (LimbBytes - 1), j \in T PROVE j + 1 \in T
  <2>. DEFINE k == LimbBytes - (j + 1)
  <2>1. k \in Nat /\ k + 1 = LimbBytes - j /\ j + 1 \in 1 .. LimbBytes /\ j + 1 \in 0 .. LimbBytes
    BY <1>4
  <2>2. f[j] = x \div Pow(Byte, k + 1)
    BY <1>9, <2>1
  <2>3. f[j + 1] = Byte * f[j] + ((x \div Pow(Byte, k)) % Byte)
    BY <1>6, <1>7, <2>1
  <2>. HIDE DEF k
  <2>4. x \div Pow(Byte, k) = Byte * (x \div Pow(Byte, k + 1)) + ((x \div Pow(Byte, k)) % Byte)
    BY <1>4, <1>5, <2>1, ShiftIs
  <2>5. f[j + 1] = x \div Pow(Byte, k)
    BY <2>2, <2>3, <2>4
  <2>. QED
    BY <2>1, <2>5 DEF k
<1>. HIDE DEF T
<1>10. LimbBytes \in T
  <2>1. LimbBytes \in 0 .. LimbBytes
    BY <1>4
  <2>. QED
    BY <1>4, <1>8, <1>9, <2>1, InductiveTo
<1>11. f[LimbBytes] = x
  <2>1. LimbBytes - LimbBytes = 0 /\ Pow(Byte, 0) = 1
    BY <1>4, PowIs
  <2>2. x \div 1 = x
    BY <1>5
  <2>3. f[LimbBytes] = x \div Pow(Byte, LimbBytes - LimbBytes)
    BY <1>10 DEF T
  <2>. QED
    BY <2>1, <2>2, <2>3
<1>. QED
  BY <1>3, <1>11 DEF t, x

(* Read and written, bytes are what they were.                             *)
LEMMA ToFrom ==
    ASSUME NEW buf, Bytewise(buf)
    PROVE  \A b \in 1 .. Bytes : ToBytes(FromBytes(buf))[b] = buf[b]
<1>1. TAKE b \in 1 .. Bytes
<1>. DEFINE up == Bytes - b
            q == up \div LimbBytes
            r == up % LimbBytes
            wd == 1 + q
            a == FromBytes(buf)
<1>2. LimbBytes \in Nat \ {0} /\ Limbs \in Nat /\ Byte \in Nat \ {0}
  BY Widths
<1>3. q \in 0 .. (Limbs - 1) /\ r \in 0 .. (LimbBytes - 1) /\ LimbBytes - r \in 1 .. LimbBytes
      /\ Bytes - wd * LimbBytes + (LimbBytes - r) = b
  BY Places
<1>4. ToBytes(a)[b] = (a[wd] \div Pow(Byte, r)) % Byte
  BY DEF ToBytes
<1>. HIDE DEF up, a, q, r
<1>5. wd \in 1 .. Limbs
  BY <1>2, <1>3
<1>. HIDE DEF wd
<1>6. PICK f : Reads(f, buf, wd, LimbBytes) /\ a[wd] = f[LimbBytes]
  BY <1>5, ReadsWord DEF a
<1>. DEFINE d(j) == buf[Bytes - wd * LimbBytes + (j + 1)]
<1>7. /\ \A j \in 0 .. (LimbBytes - 1) : d(j) \in 0 .. (Byte - 1) /\ f[j + 1] = Byte * f[j] + d(j)
      /\ \A j \in 0 .. LimbBytes : f[j] \in Nat
  BY <1>5, <1>6, ReadsSteps
<1>. HIDE DEF d
<1>8. \A j \in 0 .. (LimbBytes - 1) : (f[j + 1] \div Byte) = f[j] /\ (f[j + 1] % Byte) = d(j)
  <2>1. TAKE j \in 0 .. (LimbBytes - 1)
  <2>. DEFINE g == f[j]
              h == f[j + 1]
              e == d(j)
  <2>2. e \in 0 .. (Byte - 1) /\ h = Byte * g + e /\ g \in Int
    <3>1. j \in 0 .. LimbBytes
      BY <1>2
    <3>2. g \in Nat
      BY <1>7, <3>1
    <3>3. e \in 0 .. (Byte - 1) /\ h = Byte * g + e
      BY <1>7
    <3>. HIDE DEF g
    <3>. QED
      BY <3>2, <3>3
  <2>. HIDE DEF g, h, e
  <2>3. (Byte * g + e) \div Byte = g /\ (Byte * g + e) % Byte = e
    BY <1>2, <2>2, RestIs
  <2>. QED
    BY <2>2, <2>3 DEF g, h, e
<1>9. LimbBytes \in 0 .. LimbBytes /\ f[LimbBytes] \in Nat
  BY <1>2, <1>7
<1>. DEFINE T == {e \in 0 .. LimbBytes : f[LimbBytes] \div Pow(Byte, e) = f[LimbBytes - e]}
<1>10. 0 \in T
  <2>1. LimbBytes - 0 = LimbBytes /\ 0 \in 0 .. LimbBytes /\ Pow(Byte, 0) = 1
    BY <1>2, PowIs
  <2>. DEFINE x == f[LimbBytes]
  <2>2. x \div 1 = x
    <3>1. x \in Nat
      BY <1>9
    <3>. HIDE DEF x
    <3>. QED
      BY <3>1
  <2>. QED
    BY <2>1, <2>2
<1>11. ASSUME NEW e \in 0 .. (LimbBytes - 1), e \in T PROVE e + 1 \in T
  <2>. DEFINE j == LimbBytes - (e + 1)
              x == f[LimbBytes]
  <2>1. j \in 0 .. (LimbBytes - 1) /\ j + 1 = LimbBytes - e /\ e \in Nat /\ e + 1 \in 0 .. LimbBytes
    BY <1>2
  <2>2. x \div Pow(Byte, e) = f[j + 1]
    BY <1>11, <2>1
  <2>3. (f[j + 1] \div Byte) = f[j]
    BY <1>8, <2>1
  <2>4. (x \div Pow(Byte, e)) \div Byte = x \div Pow(Byte, e + 1)
    <3>1. x \in Nat
      BY <1>9
    <3>. HIDE DEF x
    <3>. QED
      BY <1>2, <2>1, <3>1, ShiftIs
  <2>. HIDE DEF j, x
  <2>5. x \div Pow(Byte, e + 1) = f[j]
    BY <2>2, <2>3, <2>4
  <2>. QED
    BY <2>1, <2>5 DEF j, x
<1>. HIDE DEF T
<1>12. r \in T
  <2>1. r \in 0 .. LimbBytes
    BY <1>2, <1>3
  <2>. QED
    BY <1>2, <1>10, <1>11, <2>1, InductiveTo
<1>13. f[LimbBytes] \div Pow(Byte, r) = f[LimbBytes - r]
  BY <1>12 DEF T
<1>. DEFINE j == (LimbBytes - r) - 1
<1>14. j \in 0 .. (LimbBytes - 1) /\ j + 1 = LimbBytes - r
  BY <1>2, <1>3
<1>. HIDE DEF j
<1>15. (f[j + 1] % Byte) = d(j) /\ d(j) = buf[b]
  BY <1>3, <1>8, <1>14 DEF d, wd
<1>16. ToBytes(a)[b] = buf[b]
  BY <1>4, <1>6, <1>13, <1>14, <1>15
<1>. QED
  BY <1>16 DEF a

-----------------------------------------------------------------------------
(* The key that the image is checked with, as a bignum.                    *)
KeyIsIn == key \in Keys /\ n = ToBig(key.n)

(* What bn_mont_init leaves behind.                                        *)
Ready == KeyIsIn /\ key.n % 2 = 1 /\ n0_inv = N0Inv(n[1])

LEMMA KeyValue ==
    ASSUME KeyIsIn
    PROVE  /\ key.n \in 0 .. (R - 1) /\ key.e \in 0 .. (Pow(2, ExpBits) - 1) /\ ExpBits \in Nat
           /\ BigOf(n, Limbs) /\ Value(n) = key.n /\ n[1] \in 0 .. (Word - 1)
           /\ (key.n % 2) = (n[1] % 2)
<1>1. R = Pow(Byte, Bytes)
  BY RIs
<1>2. key.n \in 0 .. (R - 1) /\ key.e \in 0 .. (Pow(2, ExpBits) - 1) /\ ExpBits \in Nat
  BY <1>1, SignatureAssumption, Zenon DEF KeyIsIn, SignatureAssumption
<1>3. BigOf(n, Limbs) /\ Value(n) = key.n
  BY <1>2, ToBigIs, Zenon DEF KeyIsIn
<1>4. Limbs \in Nat \ {0} /\ IsBig(n, Limbs)
  BY <1>3, BigWords, Widths
<1>5. Cong(ValueOf(n, Limbs), n[1], Word) /\ ValueOf(n, Limbs) \in Nat /\ n[1] \in 0 .. (Word - 1)
  BY <1>4, LowestWord
<1>6. Value(n) = ValueOf(n, Limbs)
  BY DEF Value
<1>7. Cong(ValueOf(n, Limbs), n[1], 2)
  <2>. DEFINE v == ValueOf(n, Limbs)
              w == n[1]
              h == Word \div 2
              two == 2
  <2>1. v \in Int /\ w \in Int
    BY <1>5
  <2>2. h \in Nat \ {0} /\ Word = 2 * h
    BY WordIs
  <2>3. Cong(v, w, two * h)
    BY <1>5, <2>2, Zenon
  <2>4. two \in Nat \ {0}
    OBVIOUS
  <2>. HIDE DEF v, w, h, two
  <2>5. Cong(v, w, two)
    BY <2>1, <2>2, <2>3, <2>4, CongLess
  <2>. QED
    BY <2>5, Zenon DEF v, w, two
<1>8. (key.n % 2) = (n[1] % 2)
  <2>. DEFINE v == ValueOf(n, Limbs)
              w == n[1]
  <2>1. v \in Int /\ w \in Int /\ Cong(v, w, 2) /\ key.n = v
    BY <1>3, <1>5, <1>6, <1>7
  <2>2. 2 \in Nat \ {0}
    OBVIOUS
  <2>. HIDE DEF v, w
  <2>3. (v % 2) = (w % 2)
    BY <2>1, <2>2, CongRests
  <2>. QED
    BY <2>1, <2>3, Zenon DEF w
<1>. QED
  BY <1>2, <1>3, <1>5, <1>8, Zenon

(* n is tested for zero and for its lowest bit.                            *)
LEMMA KeyIsOdd ==
    ASSUME KeyIsIn
    PROVE  (n # Zero /\ n[1] % 2 = 1) <=> (key.n % 2) = 1
<1>1. n = Zero => n[1] = 0
  BY Widths DEF Zero
<1>2. (key.n % 2) = (n[1] % 2) /\ n[1] \in 0 .. (Word - 1)
  BY KeyValue
<1>3. n = Zero => (n[1] % 2) = 0
  BY <1>1
<1>. QED
  BY <1>2, <1>3

(* A Montgomery product modulo the key.                                    *)
LEMMA TimesIs ==
    ASSUME Ready, NEW a, BigOf(a, Limbs), NEW b, BigOf(b, Limbs),
           (Value(a) < key.n) \/ (Value(b) < key.n)
    PROVE  /\ BigOf(Times(a, b), Limbs) /\ Value(Times(a, b)) \in 0 .. (key.n - 1)
           /\ Cong(R * Value(Times(a, b)), Value(a) * Value(b), key.n)
<1>1. IsBig(a, Limbs) /\ IsBig(b, Limbs) /\ IsBig(n, Limbs)
  <2>1. BigOf(n, Limbs) /\ Limbs \in Nat
    BY KeyValue, Widths DEF Ready
  <2>. QED
    BY <2>1, BigWords
<1>2. n0_inv \in 0 .. (Word - 1) /\ Cong(n[1] * n0_inv, 0 - 1, Word)
  <2>1. n[1] \in 0 .. (Word - 1) /\ (n[1] % 2) = 1
    BY KeyValue DEF Ready
  <2>. QED
    BY <2>1, N0InvIs, Zenon DEF Ready
<1>3. Value(n) = key.n /\ key.n \in 0 .. (R - 1)
  BY KeyValue DEF Ready
<1>4. LET r == MontMul(a, b, n, n0_inv)
      IN  /\ BigOf(r, Limbs) /\ Value(r) < Value(n)
          /\ Cong(R * Value(r), Value(a) * Value(b), Value(n))
  <2>1. (Value(a) < Value(n)) \/ (Value(b) < Value(n))
    BY <1>3
  <2>. QED
    BY <1>1, <1>2, <2>1, MontMulIs
<1>. DEFINE r == Times(a, b)
<1>5. BigOf(r, Limbs) /\ Value(r) < key.n /\ Cong(R * Value(r), Value(a) * Value(b), key.n)
  BY <1>3, <1>4, Zenon DEF Times
<1>. HIDE DEF r
<1>6. IsBig(r, Limbs)
  BY <1>5, Widths, BigWords
<1>7. Value(r) \in 0 .. (R - 1) /\ R \in Nat
  BY <1>6, ValueIn, RIs
<1>8. Value(r) \in 0 .. (key.n - 1)
  <2>. DEFINE v == Value(r)
              N == key.n
  <2>1. v \in 0 .. (R - 1) /\ R \in Nat /\ N \in 0 .. (R - 1) /\ v < N
    BY <1>3, <1>5, <1>7
  <2>. HIDE DEF v, N
  <2>2. v \in 0 .. (N - 1)
    BY <2>1
  <2>. QED
    BY <2>2, Zenon DEF v, N
<1>. QED
  BY <1>5, <1>8, Zenon DEF r

(* Of two numbers, the second in Montgomery form.                          *)
LEMMA TimesForm ==
    ASSUME Ready, NEW a, BigOf(a, Limbs), NEW b, BigOf(b, Limbs),
           (Value(a) < key.n) \/ (Value(b) < key.n),
           NEW c \in Int, NEW d \in Int,
           Cong(Value(b), c * R, key.n), Cong(Value(a), d, key.n)
    PROVE  /\ BigOf(Times(a, b), Limbs) /\ Value(Times(a, b)) \in 0 .. (key.n - 1)
           /\ Cong(Value(Times(a, b)), c * d, key.n)
<1>. DEFINE r == Times(a, b)
            x == Value(r)
            u == Value(b)
            v == Value(a)
            N == key.n
<1>1. BigOf(r, Limbs) /\ x \in 0 .. (N - 1) /\ Cong(R * x, v * u, N)
  BY TimesIs
<1>2. N \in Nat /\ (N % 2) = 1
  BY KeyValue, RIs DEF Ready
<1>3. u \in Int /\ v \in Int
  <2>1. IsBig(a, Limbs) /\ IsBig(b, Limbs)
    BY Widths, BigWords
  <2>2. Value(a) \in 0 .. (R - 1) /\ Value(b) \in 0 .. (R - 1)
    BY <2>1, ValueIn
  <2>. QED
    BY <2>2
<1>4. Cong(u, c * R, N) /\ Cong(v, d, N)
  OBVIOUS
<1>. HIDE DEF r, x, u, v, N
<1>5. x \in Int /\ v * u = u * v
  BY <1>1, <1>3
<1>6. Cong(R * x, u * v, N)
  BY <1>1, <1>5, Zenon
<1>7. Cong(x, c * d, N)
  BY <1>2, <1>3, <1>4, <1>5, <1>6, MontPower
<1>. QED
  BY <1>1, <1>7, Zenon DEF r, x, N

-----------------------------------------------------------------------------
(* What a bignum holds that is reduced modulo the key.                     *)
Reduced(a) == BigOf(a, Limbs) /\ Value(a) \in 0 .. (key.n - 1)

(* While 2^i is doubled to R * R.                                          *)
Doubling == Reduced(r2) /\ i \in 0 .. (2 * Bits) /\ Cong(Value(r2), Pow(2, i), key.n)

(* The bits of the exponent from the i-th on.                              *)
Above == key.e \div Pow(2, i)

(* While acc takes in the exponent's bits, from the highest.               *)
Raising ==
    /\ i \in 0 .. ExpBits
    /\ Reduced(s) /\ Reduced(base) /\ Reduced(acc)
    /\ Cong(Value(base), Value(s) * R, key.n)
    /\ Cong(Value(acc), Pow(Value(s), Above) * R, key.n)

PowerInv ==
    /\ KeyIsIn
    /\ pc \in {"r2", "modexp"} => Ready
    /\ pc = "r2" => Doubling
    /\ pc = "modexp" => Raising

LEMMA ReducedInt ==
    ASSUME KeyIsIn, NEW a, Reduced(a)
    PROVE  Value(a) \in Int /\ Value(a) \in Nat /\ Value(a) < key.n
<1>1. key.n \in 0 .. (R - 1) /\ R \in Nat
  BY KeyValue, RIs
<1>. DEFINE v == Value(a)
            N == key.n
<1>2. v \in 0 .. (N - 1) /\ N \in 0 .. (R - 1) /\ R \in Nat
  BY <1>1 DEF Reduced
<1>. HIDE DEF v, N
<1>3. v \in Int /\ v \in Nat /\ v < N
  BY <1>2
<1>. QED
  BY <1>3, Zenon DEF v, N

LEMMA OddKey == ASSUME Ready PROVE key.n \in Nat \ {0} /\ key.n \in Nat /\ key.n >= 1
<1>1. key.n \in 0 .. (R - 1) /\ R \in Nat /\ (key.n % 2) = 1
  BY KeyValue, RIs DEF Ready
<1>. QED
  BY <1>1

LEMMA ReducedTimes ==
    ASSUME Ready, NEW a, BigOf(a, Limbs), NEW b, BigOf(b, Limbs),
           Reduced(a) \/ Reduced(b),
           NEW c \in Int, NEW d \in Int,
           Cong(Value(b), c * R, key.n), Cong(Value(a), d, key.n)
    PROVE  Reduced(Times(a, b)) /\ Cong(Value(Times(a, b)), c * d, key.n)
<1>1. KeyIsIn
  BY DEF Ready
<1>2. (Value(a) < key.n) \/ (Value(b) < key.n)
  BY <1>1, ReducedInt
<1>3. /\ BigOf(Times(a, b), Limbs) /\ Value(Times(a, b)) \in 0 .. (key.n - 1)
      /\ Cong(Value(Times(a, b)), c * d, key.n)
  BY <1>2, TimesForm
<1>. QED
  BY <1>3, Zenon DEF Reduced

LEMMA MontInitDoubles == PowerInv /\ MontInit => PowerInv'
<1>. SUFFICES ASSUME PowerInv, MontInit PROVE PowerInv'
  OBVIOUS
<1>1. KeyIsIn /\ (key.n % 2) = 1
  BY KeyIsOdd DEF PowerInv, MontInit
<1>2. pc' = "r2" /\ key' = key /\ n' = n /\ n0_inv' = N0Inv(n[1]) /\ r2' = SubIfGe(One, n) /\ i' = 0
  BY DEF MontInit
<1>3. KeyIsIn' /\ Ready'
  BY <1>1, <1>2 DEF Ready, KeyIsIn
<1>4. key.n \in Nat \ {0}
  <2>1. key.n \in 0 .. (R - 1) /\ R \in Nat
    BY <1>1, KeyValue, RIs
  <2>. QED
    BY <2>1, <1>1
<1>5. BigOf(One, Limbs) /\ Value(One) = 1 /\ BigOf(n, Limbs) /\ IsBig(n, Limbs) /\ Value(n) = key.n
  BY OneIs, <1>1, KeyValue, BigWords, Widths
<1>6. BigOf(r2', Limbs) /\ Value(SubIfGe(One, n)) = IF Value(One) >= Value(n) THEN Value(One) - Value(n) ELSE Value(One)
  BY <1>2, <1>5, SubIfGeIs, Zenon
<1>7. Value(r2)' = IF 1 >= key.n THEN 1 - key.n ELSE 1
  <2>1. Value(r2)' = Value(SubIfGe(One, n))
    BY <1>2 DEF Value
  <2>. QED
    BY <2>1, <1>5, <1>6, Zenon
<1>8. Value(r2)' \in 0 .. (key.n - 1)
  BY <1>4, <1>7
<1>9. Cong(Value(r2)', 1, key.n)
  <2>. DEFINE N == key.n
              one == 1
  <2>1. N \in Nat \ {0} /\ one \in Int
    BY <1>4
  <2>. HIDE DEF N, one
  <2>2. Cong(one - N, one, N) /\ Cong(one, one, N)
    BY <2>1, CongDropsOne, CongSame
  <2>. QED
    BY <2>2, <1>7, Zenon DEF N, one
<1>10. Pow(2, i') = 1
  BY <1>2, PowIs
<1>11. i' \in 0 .. (2 * Bits)
  BY <1>2, RIs
<1>12. Doubling'
  BY <1>2, <1>6, <1>8, <1>9, <1>10, <1>11, Zenon DEF Doubling, Reduced
<1>. QED
  BY <1>2, <1>3, <1>12 DEF PowerInv

LEMMA R2StepDoubles == PowerInv /\ R2Step => PowerInv'
<1>. SUFFICES ASSUME PowerInv, R2Step PROVE PowerInv'
  OBVIOUS
<1>1. pc = "r2" /\ i < 2 * Bits /\ r2' = Double(r2, n) /\ i' = i + 1 /\ pc' = pc /\ key' = key /\ n' = n /\ n0_inv' = n0_inv
  BY DEF R2Step
<1>2. KeyIsIn /\ Ready /\ Doubling
  BY <1>1 DEF PowerInv
<1>3. KeyIsIn' /\ Ready'
  BY <1>1, <1>2 DEF Ready, KeyIsIn
<1>. DEFINE N == key.n
            v == Value(r2)
            w == Value(Double(r2, n))
            p == Pow(2, i)
<1>4. N \in Nat \ {0} /\ BigOf(r2, Limbs) /\ v \in Int /\ v < N /\ v \in Nat
  BY <1>2, OddKey, ReducedInt DEF Doubling, Reduced
<1>5. IsBig(n, Limbs) /\ Value(n) = N
  BY <1>2, KeyValue, BigWords, Widths
<1>6. BigOf(Double(r2, n), Limbs) /\ w < N /\ Cong(w, 2 * v, N)
  BY <1>4, <1>5, DoubleIs
<1>7. w \in 0 .. (N - 1)
  <2>1. IsBig(Double(r2, n), Limbs)
    BY <1>6, BigWords, Widths
  <2>2. w \in 0 .. (R - 1) /\ R \in Nat
    BY <2>1, ValueIn, RIs
  <2>. HIDE DEF w, N
  <2>. QED
    BY <2>2, <1>4, <1>6
<1>8. i \in Nat /\ i + 1 \in 0 .. (2 * Bits)
  BY <1>1, <1>2, RIs DEF Doubling
<1>9. p \in Nat /\ Pow(2, i + 1) = p * 2
  <2>1. 2 \in Nat
    OBVIOUS
  <2>. QED
    BY <2>1, <1>8, PowIn, PowIs
<1>10. Cong(v, p, N)
  BY <1>2 DEF Doubling
<1>11. Cong(w, p * 2, N)
  <2>. DEFINE two == 2
              pp == two * p
              vv == two * v
  <2>1. two \in Int /\ p \in Int /\ w \in Int /\ pp \in Int /\ vv \in Int /\ pp = p * 2 /\ Cong(w, vv, N)
    BY <1>4, <1>6, <1>7, <1>9
  <2>. HIDE DEF two, v, p, N, w
  <2>2. Cong(vv, pp, N)
    BY <2>1, <1>4, <1>10, CongScales
  <2>. HIDE DEF vv, pp
  <2>3. Cong(w, pp, N)
    BY <2>1, <2>2, <1>4, CongOn
  <2>. QED
    BY <2>1, <2>3, Zenon
<1>12. Value(r2)' = w
  BY <1>1 DEF Value
<1>13. Pow(2, i)' = p * 2 /\ i' \in 0 .. (2 * Bits)
  BY <1>1, <1>8, <1>9
<1>14. BigOf(r2', Limbs)
  BY <1>1, <1>6, Zenon
<1>15. Doubling'
  <2>1. Reduced(r2)'
    <3>1. key'.n = N
      BY <1>1
    <3>. HIDE DEF w, N
    <3>. QED
      BY <1>7, <1>12, <1>14, <3>1, Zenon DEF Reduced
  <2>2. Cong(Value(r2), Pow(2, i), key.n)'
    <3>1. key'.n = N
      BY <1>1
    <3>. HIDE DEF w, N, p
    <3>. QED
      BY <1>11, <1>12, <1>13, <3>1, Zenon
  <2>. QED
    BY <2>1, <2>2, <1>13, Zenon DEF Doubling
<1>. QED
  BY <1>1, <1>3, <1>15 DEF PowerInv

(* A number of any size has words.                                         *)
LEMMA ToBigWords == ASSUME NEW x \in Nat PROVE IsBig(ToBig(x), Limbs)
<1>1. ASSUME NEW k \in 1 .. Limbs PROVE ToBig(x)[k] \in 0 .. (Word - 1)
  <2>1. k \in 1 .. Limbs /\ k - 1 \in Nat
    BY Widths
  <2>2. Pow(Word, k - 1) \in Nat \ {0}
    BY <2>1, WordPow
  <2>3. x \div Pow(Word, k - 1) \in Nat
    <3>. DEFINE p == Pow(Word, k - 1)
    <3>1. p \in Nat \ {0} /\ x \in Int
      BY <2>2
    <3>. HIDE DEF p
    <3>2. x \div p \in Nat
      BY <3>1, DivideBy
    <3>. QED
      BY <3>2, Zenon DEF p
  <2>. DEFINE q == x \div Pow(Word, k - 1)
  <2>4. ToBig(x)[k] = q % Word
    BY <2>1 DEF ToBig
  <2>5. q \in Nat /\ Word \in Nat \ {0}
    BY <2>3, WordIs
  <2>. HIDE DEF q
  <2>6. (q % Word) \in 0 .. (Word - 1)
    BY <2>5, RestIs
  <2>. QED
    BY <2>4, <2>6, Zenon
<1>. QED
  BY <1>1 DEF IsBig

(* The bits above the first 1 are 0: modexp's first round begins there.    *)
LEMMA FirstOne ==
    ASSUME KeyIsIn, NEW k,
           k = IF key.e = 0 THEN 0 ELSE 1 + Max({j \in 0 .. (ExpBits - 1) : Bit(key.e, j) = 1})
    PROVE  k \in 0 .. ExpBits /\ key.e \div Pow(2, k) = 0
<1>. DEFINE e == key.e
            T == {j \in 0 .. (ExpBits - 1) : Bit(e, j) = 1}
<1>1. e \in 0 .. (Pow(2, ExpBits) - 1) /\ ExpBits \in Nat
  BY KeyValue
<1>2. e \in Nat
  <2>1. 2 \in Nat
    OBVIOUS
  <2>2. Pow(2, ExpBits) \in Nat
    BY <2>1, <1>1, PowIn
  <2>. HIDE DEF e
  <2>. QED
    BY <1>1, <2>2
<1>3. k = IF e = 0 THEN 0 ELSE 1 + Max(T)
  OBVIOUS
<1>4. CASE e = 0
  <2>1. k = 0
    BY <1>3, <1>4, Zenon
  <2>2. Pow(2, k) = 1
    BY <2>1, PowIs
  <2>3. 0 \in 0 .. ExpBits
    BY <1>1
  <2>. HIDE DEF e
  <2>4. e \div Pow(2, k) = 0
    BY <2>2, <1>4
  <2>. QED
    BY <2>1, <2>3, <2>4, Zenon DEF e
<1>5. CASE e # 0
  <2>1. T # {}
    <3>1. SUFFICES ASSUME T = {} PROVE FALSE
      OBVIOUS
    <3>2. \A j \in 0 .. (ExpBits - 1) : Bit(e, j) # 1
      BY <3>1
    <3>3. 0 \in 0 .. ExpBits
      BY <1>1
    <3>. HIDE DEF e, T
    <3>4. e \div Pow(2, 0) = 0
      BY <1>1, <3>2, <3>3, NoBitsAbove
    <3>5. Pow(2, 0) = 1
      BY PowIs
    <3>6. e \div 1 = 0
      BY <3>4, <3>5, Zenon
    <3>. QED
      BY <3>6, <1>2, <1>5
  <2>2. ExpBits - 1 \in Nat /\ T \subseteq 0 .. (ExpBits - 1)
    <3>1. \E j : j \in 0 .. (ExpBits - 1)
      BY <2>1
    <3>. QED
      BY <3>1, <1>1
  <2>3. Max(T) \in T /\ \A y \in T : Max(T) >= y
    <3>. HIDE DEF T
    <3>. QED
      BY <2>1, <2>2, MaxIs
  <2>. DEFINE h == Max(T)
  <2>4. h \in 0 .. (ExpBits - 1) /\ k = 1 + h
    BY <2>3, <1>3, <1>5
  <2>5. \A j \in 0 .. (ExpBits - 1) : j > h => Bit(e, j) # 1
    <3>1. TAKE j \in 0 .. (ExpBits - 1)
    <3>2. j \in T => h >= j
      <4>. HIDE DEF T
      <4>. QED
        BY <2>3
    <3>3. Bit(e, j) = 1 => j \in T
      OBVIOUS
    <3>. HIDE DEF T, h, e
    <3>. QED
      BY <3>2, <3>3, <2>4, <1>1
  <2>. HIDE DEF h, e, T
  <2>6. k \in 0 .. ExpBits /\ \A j \in k .. (ExpBits - 1) : j \in 0 .. (ExpBits - 1) /\ j > h
    BY <2>4, <1>1
  <2>7. e \div Pow(2, k) = 0
    BY <2>5, <2>6, <1>1, NoBitsAbove
  <2>. QED
    BY <2>6, <2>7, Zenon DEF e
<1>. QED
  BY <1>4, <1>5

LEMMA ReadSignatureRaises == PowerInv /\ ReadSignature => PowerInv'
<1>. SUFFICES ASSUME PowerInv, ReadSignature PROVE PowerInv'
  OBVIOUS
<1>1. pc = "r2" /\ i = 2 * Bits /\ key' = key /\ n' = n /\ n0_inv' = n0_inv /\ r2' = r2
  BY DEF ReadSignature, ctx
<1>2. KeyIsIn /\ Ready /\ Doubling
  BY <1>1 DEF PowerInv
<1>3. KeyIsIn' /\ Ready'
  BY <1>1, <1>2 DEF Ready, KeyIsIn
<1>4. CASE ~ Admits(s')
  <2>1. pc' = "out"
    BY <1>4 DEF ReadSignature, Return
  <2>. QED
    BY <2>1, <1>3 DEF PowerInv
<1>5. CASE Admits(s')
  <2>1. /\ base' = Times(s', r2) /\ acc' = Times(One, r2) /\ pc' = "modexp"
        /\ i' = IF key.e = 0 THEN 0
                ELSE 1 + Max({k \in 0 .. (ExpBits - 1) : Bit(key.e, k) = 1})
    BY <1>5 DEF ReadSignature
  <2>2. PICK x \in Signatures : s' = FromBytes(ToBytes(ToBig(x)))
    BY DEF ReadSignature
  <2>3. BigOf(s', Limbs)
    <3>1. x \in Nat
      BY <2>2, SignatureAssumption, Zenon DEF SignatureAssumption
    <3>2. IsBig(ToBig(x), Limbs)
      BY <3>1, ToBigWords
    <3>3. Bytewise(ToBytes(ToBig(x)))
      BY <3>2, ToBytesIs
    <3>4. BigOf(FromBytes(ToBytes(ToBig(x))), Limbs)
      BY <3>3, FromBytesIs
    <3>. QED
      BY <3>4, <2>2, Zenon
  <2>. DEFINE t == s'
              N == key.n
  <2>4. Reduced(t)
    <3>1. BigOf(n, Limbs) /\ Value(n) = N
      BY <1>2, KeyValue
    <3>2. IsBig(t, Limbs) /\ IsBig(n, Limbs)
      BY <2>3, <3>1, BigWords, Widths
    <3>3. ~ (Value(t) >= Value(n))
      <4>1. AtLeast(t, n) <=> Value(t) >= Value(n)
        BY <3>2, AtLeastIs
      <4>. QED
        BY <4>1, <1>5 DEF Admits
    <3>4. Value(t) \in 0 .. (R - 1) /\ N \in 0 .. (R - 1) /\ R \in Nat
      BY <1>2, <3>2, ValueIn, KeyValue, RIs
    <3>. DEFINE v == Value(t)
    <3>5. v \in 0 .. (R - 1) /\ N \in 0 .. (R - 1) /\ R \in Nat /\ ~ (v >= N)
      BY <3>1, <3>3, <3>4
    <3>. HIDE DEF v, N
    <3>6. v \in 0 .. (N - 1)
      BY <3>5
    <3>. QED
      BY <3>6, <2>3, Zenon DEF v, N, Reduced
  <2>5. Reduced(r2) /\ BigOf(r2, Limbs) /\ Cong(Value(r2), R * R, N)
    <3>1. Pow(2, i) = R * R
      <4>1. Bits \in Nat /\ R = Pow(2, Bits) /\ 2 \in Nat
        BY RIs
      <4>2. i = Bits + Bits
        BY <1>1, <4>1
      <4>3. Pow(2, Bits + Bits) = Pow(2, Bits) * Pow(2, Bits)
        BY <4>1, PowAdds
      <4>. QED
        BY <4>1, <4>2, <4>3, Zenon
    <3>. QED
      BY <1>2, <3>1, Zenon DEF Doubling, Reduced
  <2>6. N \in Nat \ {0} /\ R \in Int /\ Value(t) \in Int
    BY <1>2, <2>4, OddKey, ReducedInt, RIs
  <2>7. Reduced(Times(t, r2)) /\ Cong(Value(Times(t, r2)), R * Value(t), N)
    <3>1. Cong(Value(t), Value(t), N)
      BY <2>6, CongSame
    <3>. QED
      BY <1>2, <2>3, <2>5, <2>6, <3>1, ReducedTimes
  <2>8. Reduced(Times(One, r2)) /\ Cong(Value(Times(One, r2)), R * 1, N)
    <3>1. BigOf(One, Limbs) /\ Value(One) = 1
      BY OneIs
    <3>. DEFINE one == 1
    <3>2. one \in Int /\ Value(One) = one
      BY <3>1
    <3>. HIDE DEF one
    <3>3. Cong(Value(One), one, N)
      BY <3>2, <2>6, CongSame
    <3>4. Reduced(Times(One, r2)) /\ Cong(Value(Times(One, r2)), R * one, N)
      BY <1>2, <2>5, <2>6, <3>1, <3>2, <3>3, ReducedTimes
    <3>. QED
      BY <3>4, Zenon DEF one
  <2>9. i' \in 0 .. ExpBits /\ key.e \div Pow(2, i') = 0
    BY <2>1, <1>2, FirstOne
  <2>10. Reduced(s)' /\ Reduced(base)' /\ Reduced(acc)'
    <3>1. Reduced(t) /\ Reduced(Times(t, r2)) /\ Reduced(Times(One, r2))
      BY <2>4, <2>7, <2>8
    <3>. QED
      BY <3>1, <2>1, <1>1, Zenon DEF Reduced, Value
  <2>11. Cong(Value(base), Value(s) * R, key.n)'
    <3>1. R * Value(t) = Value(t) * R
      BY <2>6
    <3>2. Value(base)' = Value(Times(t, r2)) /\ Value(s)' = Value(t) /\ key'.n = N
      BY <2>1, <1>1 DEF Value
    <3>. HIDE DEF N, t
    <3>. QED
      BY <2>7, <3>1, <3>2, Zenon
  <2>12. Cong(Value(acc), Pow(Value(s), Above) * R, key.n)'
    <3>1. Above' = 0
      BY <2>9, <1>1 DEF Above
    <3>2. Pow(Value(t), 0) = 1
      BY PowIs
    <3>3. R * 1 = 1 * R
      BY RIs
    <3>4. Value(acc)' = Value(Times(One, r2)) /\ Value(s)' = Value(t) /\ key'.n = N
      BY <2>1, <1>1 DEF Value
    <3>. HIDE DEF N, t
    <3>. QED
      BY <2>8, <3>1, <3>2, <3>3, <3>4, Zenon
  <2>13. Raising'
    BY <2>9, <2>10, <2>11, <2>12, Zenon DEF Raising
  <2>. QED
    BY <2>1, <2>13, <1>3 DEF PowerInv
<1>. QED
  BY <1>4, <1>5

(* Squared, and multiplied by base at a 1: the exponent gains one bit.     *)
LEMMA ModexpStepRaises == PowerInv /\ ModexpStep => PowerInv'
<1>. SUFFICES ASSUME PowerInv, ModexpStep PROVE PowerInv'
  OBVIOUS
<1>1. /\ pc = "modexp" /\ i > 0 /\ i' = i - 1 /\ pc' = pc /\ key' = key /\ n' = n /\ n0_inv' = n0_inv
      /\ s' = s /\ base' = base
      /\ acc' = IF Bit(key.e, i - 1) = 1 THEN Times(Times(acc, acc), base) ELSE Times(acc, acc)
  BY DEF ModexpStep, ctx
<1>2. KeyIsIn /\ Ready /\ Raising
  BY <1>1 DEF PowerInv
<1>3. KeyIsIn' /\ Ready'
  BY <1>1, <1>2 DEF Ready, KeyIsIn
<1>. DEFINE N == key.n
            S == Value(s)
            e == key.e
            h == Above
            p == Pow(S, h)
            j == i - 1
            sq == Times(acc, acc)
            k == e \div Pow(2, j)
<1>4. N \in Nat \ {0} /\ R \in Int
  BY <1>2, OddKey, RIs
<1>5. S \in Nat /\ S \in Int
  BY <1>2, ReducedInt DEF Raising
<1>6. Reduced(acc) /\ BigOf(acc, Limbs) /\ Reduced(base) /\ BigOf(base, Limbs) /\ Value(acc) \in Int /\ Value(base) \in Int
  BY <1>2, ReducedInt DEF Raising, Reduced
<1>7. i \in Nat /\ j \in Nat /\ j + 1 = i /\ j \in 0 .. ExpBits
  <2>1. ExpBits \in Nat /\ i \in 0 .. ExpBits
    BY <1>2, KeyValue DEF Raising
  <2>. QED
    BY <2>1, <1>1
<1>8. e \in Nat
  <2>1. 2 \in Nat
    OBVIOUS
  <2>2. Pow(2, ExpBits) \in Nat /\ e \in 0 .. (Pow(2, ExpBits) - 1)
    BY <2>1, <1>2, KeyValue, PowIn
  <2>. HIDE DEF e
  <2>. QED
    BY <2>2
<1>9. h \in Nat /\ k \in Nat /\ Bit(e, j) \in {0, 1} /\ k = 2 * h + Bit(e, j)
  <2>1. k \in Nat /\ Bit(e, j) \in {0, 1} /\ k = 2 * (e \div Pow(2, j + 1)) + Bit(e, j)
    BY <1>7, <1>8, BitIs
  <2>2. e \div Pow(2, i) \in Nat
    BY <1>7, <1>8, BitIs
  <2>3. h = e \div Pow(2, i)
    BY DEF Above
  <2>. QED
    BY <2>1, <2>2, <2>3, <1>7, Zenon
<1>10. p \in Nat /\ p \in Int
  <2>. HIDE DEF S, h
  <2>1. p \in Nat
    BY <1>5, <1>9, PowIn
  <2>. QED
    BY <2>1
<1>11. Cong(Value(acc), p * R, N) /\ Cong(Value(base), S * R, N)
  BY <1>2 DEF Raising
<1>12. Reduced(sq) /\ Cong(Value(sq), p * (p * R), N)
  <2>. DEFINE pR == p * R
  <2>1. pR \in Int
    BY <1>4, <1>10
  <2>2. Cong(Value(acc), pR, N)
    BY <1>11
  <2>3. Cong(Value(acc), p * R, key.n) /\ Cong(Value(acc), pR, key.n)
    BY <1>11
  <2>. HIDE DEF pR, p
  <2>4. Reduced(sq) /\ Cong(Value(sq), p * pR, key.n)
    BY <1>2, <1>6, <1>10, <2>1, <2>3, ReducedTimes
  <2>. QED
    BY <2>4, Zenon DEF pR
<1>13. Pow(S, h + h) = p * p
  BY <1>5, <1>9, PowAdds
<1>14. Cong(Value(sq), Pow(S, h + h) * R, N)
  <2>1. p * (p * R) = (p * p) * R
    <3>. HIDE DEF p
    <3>. QED
      BY <1>4, <1>10, Associates
  <2>. HIDE DEF p, sq, N, S, h
  <2>. QED
    BY <2>1, <1>12, <1>13, Zenon
<1>15. BigOf(sq, Limbs) /\ KeyIsIn
  BY <1>2, <1>12, Zenon DEF Reduced
<1>16. Reduced(acc') /\ Cong(Value(acc)', Pow(S, k) * R, N)
  <2>1. CASE Bit(e, j) = 1
    <3>. DEFINE q == Pow(S, h + h)
                qR == q * R
                r == Times(sq, base)
    <3>1. h + h \in Nat /\ k = (h + h) + 1
      <4>1. h \in Nat /\ k = 2 * h + 1
        BY <1>9, <2>1, Zenon
      <4>. HIDE DEF h, k
      <4>. QED
        BY <4>1
    <3>2. q \in Int /\ Pow(S, (h + h) + 1) = q * S
      <4>. HIDE DEF h, S
      <4>1. q \in Nat
        BY <3>1, <1>5, PowIn
      <4>. QED
        BY <4>1, <3>1, PowIs
    <3>3. qR \in Int /\ S * (q * R) = (q * S) * R
      <4>. HIDE DEF q, S
      <4>1. q * R \in Int
        BY <3>2, <1>4
      <4>. QED
        BY <4>1, <3>2, <1>4, <1>5, Associates, Commutes
    <3>4. Cong(Value(sq), qR, key.n) /\ Cong(Value(base), S * R, key.n)
      BY <1>11, <1>14
    <3>. HIDE DEF qR, q, S, sq
    <3>5. Reduced(Times(sq, base)) /\ Cong(Value(Times(sq, base)), S * qR, key.n)
      BY <1>2, <1>5, <1>6, <1>12, <1>15, <3>3, <3>4, ReducedTimes
    <3>6. S * qR = Pow(S, k) * R
      BY <3>1, <3>2, <3>3, Zenon DEF qR
    <3>7. acc' = Times(sq, base)
      BY <1>1, <2>1, Zenon DEF sq
    <3>8. Value(acc)' = Value(Times(sq, base))
      BY <3>7 DEF Value
    <3>. QED
      BY <3>5, <3>6, <3>7, <3>8, Zenon
  <2>2. CASE Bit(e, j) # 1
    <3>1. k = h + h
      <4>1. h \in Nat /\ k = 2 * h + 0
        BY <1>9, <2>2, Zenon
      <4>. HIDE DEF h, k
      <4>. QED
        BY <4>1
    <3>2. acc' = sq
      BY <1>1, <2>2, Zenon
    <3>3. Value(acc)' = Value(sq)
      BY <3>2 DEF Value
    <3>. HIDE DEF h, k, S, sq, N
    <3>. QED
      BY <3>1, <3>2, <3>3, <1>12, <1>14, Zenon
  <2>. QED
    BY <2>1, <2>2
<1>17. Above' = k
  BY <1>1 DEF Above
<1>18. Reduced(s)' /\ Reduced(base)' /\ Reduced(acc)'
  <2>1. Reduced(s)
    BY <1>2 DEF Raising
  <2>. QED
    BY <2>1, <1>1, <1>6, <1>16, Zenon DEF Reduced, Value
<1>19. Cong(Value(base), Value(s) * R, key.n)' /\ Cong(Value(acc), Pow(Value(s), Above) * R, key.n)'
  <2>1. Value(base)' = Value(base) /\ Value(s)' = S /\ key'.n = N
    BY <1>1 DEF Value
  <2>. HIDE DEF S, N, k
  <2>. QED
    BY <2>1, <1>11, <1>16, <1>17, Zenon
<1>20. i' \in 0 .. ExpBits
  BY <1>1, <1>7
<1>21. Raising'
  BY <1>18, <1>19, <1>20, Zenon DEF Raising
<1>. QED
  BY <1>1, <1>3, <1>21 DEF PowerInv

LEMMA PowerNext == PowerInv /\ [Next]_vars => PowerInv'
<1>. SUFFICES ASSUME PowerInv, [Next]_vars PROVE PowerInv'
  OBVIOUS
<1>1. CASE UNCHANGED vars
  BY <1>1 DEF vars, sha, ctx, PowerInv, KeyIsIn, Ready, Doubling, Raising, Reduced, Value, Above
<1>2. CASE Update \/ Final \/ Digested
  <2>1. key' = key /\ n' = n /\ pc' \notin {"r2", "modexp"}
    BY <1>2 DEF Update, Final, Digested, ctx, sha
  <2>. QED
    BY <2>1 DEF PowerInv, KeyIsIn
<1>3. CASE BadKey \/ CheckPadding
  <2>1. key' = key /\ n' = n /\ pc' = "out"
    BY <1>3 DEF BadKey, CheckPadding, Return, ctx, sha
  <2>. QED
    BY <2>1 DEF PowerInv, KeyIsIn
<1>. QED
  BY <1>1, <1>2, <1>3, MontInitDoubles, R2StepDoubles, ReadSignatureRaises, ModexpStepRaises DEF Next

LEMMA PowerHolds == Spec => []PowerInv
<1>1. Init => PowerInv
  BY DEF Init, PowerInv, KeyIsIn
<1>. QED
  BY <1>1, PowerNext, PTL DEF Spec

(* In each round of modexp acc is the power of the signature by the bits   *)
(* so far, for every width, key and signature, and no carry is lost.       *)
LEMMA RaisingIsExact == PowerInv => RoundsArePowers
<1>. SUFFICES ASSUME PowerInv, pc = "modexp" PROVE RoundsArePowers
  BY DEF RoundsArePowers
<1>1. Ready /\ KeyIsIn /\ Raising
  BY DEF PowerInv
<1>. DEFINE N == key.n
            S == Value(s)
            p == Pow(S, Above)
            m == PowerMod(S, Above)
<1>2. N \in Nat \ {0} /\ R \in Int /\ S \in Nat /\ S \in 0 .. (N - 1)
  BY <1>1, OddKey, RIs, ReducedInt DEF Raising, Reduced
<1>3. Above \in Nat
  <2>1. ExpBits \in Nat /\ i \in 0 .. ExpBits /\ key.e \in 0 .. (Pow(2, ExpBits) - 1)
    BY <1>1, KeyValue DEF Raising
  <2>2. 2 \in Nat
    OBVIOUS
  <2>3. Pow(2, ExpBits) \in Nat /\ i \in Nat
    BY <2>1, <2>2, PowIn
  <2>. DEFINE e == key.e
  <2>4. e \in Nat
    <3>1. e \in 0 .. (Pow(2, ExpBits) - 1)
      BY <2>1
    <3>. HIDE DEF e
    <3>. QED
      BY <3>1, <2>3
  <2>5. e \div Pow(2, i) \in Nat
    <3>. HIDE DEF e
    <3>. QED
      BY <2>3, <2>4, BitIs
  <2>. QED
    BY <2>5, Zenon DEF Above
<1>4. p \in Int
  <2>. HIDE DEF S
  <2>1. p \in Nat
    BY <1>2, <1>3, PowIn
  <2>. QED
    BY <2>1
<1>5. m \in 0 .. (N - 1) /\ Cong(m, p, N)
  BY <1>2, <1>3, PowerModIs
<1>6. Value(acc) = (m * (R % N)) % N
  <2>1. Value(acc) \in 0 .. (N - 1) /\ Cong(Value(acc), p * R, N)
    BY <1>1 DEF Raising, Reduced
  <2>2. m \in Int
    <3>. HIDE DEF m, N
    <3>. QED
      BY <1>2, <1>5
  <2>. HIDE DEF m, N, p
  <2>3. Cong(p, m, N)
    BY <2>2, <1>2, <1>4, <1>5, CongBack
  <2>. QED
    BY <2>1, <2>2, <2>3, <1>2, <1>4, FormIs
<1>7. Value(base) = (S * (R % N)) % N
  <2>1. Value(base) \in 0 .. (N - 1) /\ Cong(Value(base), S * R, N)
    BY <1>1 DEF Raising, Reduced
  <2>2. S \in Int
    BY <1>2
  <2>3. Cong(S, S, N)
    BY <1>2, <2>2, CongSame
  <2>. HIDE DEF N, S
  <2>. QED
    BY <2>1, <2>2, <2>3, <1>2, FormIs
<1>8. \A x, y \in {acc, base, One} : Rows(x, y, n, n0_inv)[Top + 1] = 0
  <2>1. TAKE x, y \in {acc, base, One}
  <2>2. BigOf(x, Limbs) /\ BigOf(y, Limbs) /\ BigOf(n, Limbs)
    BY <1>1, OneIs, KeyValue DEF Raising, Reduced
  <2>3. IsBig(x, Limbs) /\ IsBig(y, Limbs) /\ IsBig(n, Limbs)
    BY <2>2, BigWords, Widths
  <2>4. n0_inv \in 0 .. (Word - 1) /\ Cong(n[1] * n0_inv, 0 - 1, Word)
    <3>1. n[1] \in 0 .. (Word - 1) /\ (n[1] % 2) = 1
      BY <1>1, KeyValue DEF Ready
    <3>. QED
      BY <3>1, <1>1, N0InvIs, Zenon DEF Ready
  <2>. QED
    BY <2>3, <2>4, RowsFit
<1>. QED
  BY <1>6, <1>7, <1>8, Zenon DEF RoundsArePowers, Above

(* Each round of modexp keeps the power, for every width of the words.     *)
THEOREM RoundsKeepThePower == Spec => []RoundsArePowers
  BY PowerHolds, RaisingIsExact, PTL

-----------------------------------------------------------------------------
(* The two parts of what is joined.                                        *)
Parts(S, q, w, m) ==
    /\ q \o w \in Seq(S) /\ Len(q \o w) = m + Len(w)
    /\ SubSeq(q \o w, 1, m) = q /\ SubSeq(q \o w, m + 1, Len(q \o w)) = w

LEMMA JoinedParts ==
    ASSUME NEW S, NEW q \in Seq(S), NEW w \in Seq(S), NEW m, m = Len(q)
    PROVE  Parts(S, q, w, m)
<1>. DEFINE t == q \o w
            a == SubSeq(t, 1, m)
            b == SubSeq(t, m + 1, Len(t))
<1>1. m \in Nat /\ Len(w) \in Nat
  OBVIOUS
<1>2. /\ t \in Seq(S) /\ Len(t) = m + Len(w)
      /\ \A k \in 1 .. (m + Len(w)) : t[k] = IF k <= m THEN q[k] ELSE w[k - m]
  BY ConcatProperties
<1>3. q \in Seq(S) /\ w \in Seq(S) /\ Len(q) = m
  OBVIOUS
<1>. HIDE DEF t
<1>4. m \in 0 .. Len(t)
  BY <1>1, <1>2
<1>5. a \in Seq(S) /\ Len(a) = m /\ \A k \in 1 .. m : a[k] = t[k]
  BY <1>2, <1>4, Halves
<1>6. b \in Seq(S) /\ Len(b) = Len(w) /\ \A k \in 1 .. Len(w) : b[k] = t[k + m]
  BY <1>1, <1>2
<1>. HIDE DEF a, b
<1>7. a = q
  <2>1. \A k \in 1 .. m : a[k] = q[k]
    BY <1>1, <1>2, <1>5
  <2>. QED
    BY <2>1, <1>3, <1>5, SeqEqual
<1>8. b = w
  <2>1. ASSUME NEW k \in 1 .. Len(w) PROVE b[k] = w[k]
    <3>1. k + m \in 1 .. (m + Len(w)) /\ ~ (k + m <= m) /\ (k + m) - m = k
      BY <1>1
    <3>. QED
      BY <3>1, <1>2, <1>6
  <2>. QED
    BY <2>1, <1>3, <1>6, SeqEqual
<1>. QED
  BY <1>2, <1>7, <1>8, Zenon DEF t, a, b, Parts

(* The bytes between the padding's marks.                                  *)
Pads == Bytes - 3 - Len(Prefix) - DigestSize

(* The encoding of a digest passes the check of the padding.               *)
LEMMA EncodingPasses ==
    ASSUME digest \in Digests
    PROVE  /\ Encoded \in Seq(0 .. (Byte - 1)) /\ Len(Encoded) = Bytes /\ Encoded[2] = 1
           /\ Verdict(Encoded) = "OK"
<1>. DEFINE S == 0 .. (Byte - 1)
            P == Pads
            L == Len(Prefix)
            pad == [k \in 1 .. P |-> Byte - 1]
            a == <<0, 1>> \o pad
            b == a \o <<0>>
            tail == Prefix \o digest
            em == b \o tail
<1>1. /\ Bytes \in Nat /\ L \in Nat /\ DigestSize \in Nat \ {0} /\ MinPadding \in Nat
      /\ Prefix \in Seq(S) /\ Bytes >= 3 + MinPadding + L + DigestSize /\ Byte \in Nat /\ Byte >= 4
  <2>1. Prefix \in Seq(S) /\ MinPadding \in Nat /\ DigestSize \in Nat \ {0} /\ Bytes >= 3 + MinPadding + L + DigestSize
    BY SignatureAssumption, Zenon DEF SignatureAssumption
  <2>2. Bytes \in Nat /\ Byte \in Nat /\ Byte >= 4
    BY Widths
  <2>3. Len(Prefix) \in Nat
    <3>. HIDE DEF S
    <3>. QED
      BY <2>1
  <2>. QED
    BY <2>1, <2>2, <2>3, Zenon
<1>2. P \in Nat /\ P >= MinPadding /\ Bytes = (P + 3) + (L + DigestSize)
  <2>. HIDE DEF L
  <2>. QED
    BY <1>1 DEF Pads, L
<1>3. 0 \in S /\ 1 \in S /\ Byte - 1 \in S /\ Byte - 1 # 0
  BY <1>1
<1>4. digest \in Seq(S) /\ Len(digest) = DigestSize
  <2>1. digest \in [1 .. DigestSize -> S]
    BY SignatureAssumption, Zenon DEF SignatureAssumption
  <2>. HIDE DEF S
  <2>. QED
    BY <2>1, <1>1
<1>5. pad \in Seq(S) /\ Len(pad) = P /\ \A k \in 1 .. P : pad[k] = Byte - 1
  <2>. HIDE DEF P, S
  <2>. QED
    BY <1>2, <1>3
<1>6. <<0, 1>> \in Seq(S) /\ Len(<<0, 1>>) = 2 /\ <<0, 1>>[1] = 0 /\ <<0, 1>>[2] = 1
  <2>. HIDE DEF S
  <2>. QED
    BY <1>3
<1>7. <<0>> \in Seq(S) /\ Len(<<0>>) = 1 /\ <<0>>[1] = 0
  <2>. HIDE DEF S
  <2>. QED
    BY <1>3
<1>. HIDE DEF S, pad, P, L
<1>8. a \in Seq(S) /\ Len(a) = P + 2 /\ a[1] = 0 /\ a[2] = 1 /\ \A k \in 3 .. (P + 2) : a[k] = Byte - 1
  <2>1. /\ a \in Seq(S) /\ Len(a) = 2 + Len(pad)
        /\ \A k \in 1 .. (2 + Len(pad)) : a[k] = IF k <= 2 THEN <<0, 1>>[k] ELSE pad[k - 2]
    BY <1>5, <1>6, ConcatProperties
  <2>. HIDE DEF a
  <2>2. Len(a) = P + 2 /\ a[1] = 0 /\ a[2] = 1
    BY <2>1, <1>2, <1>5, <1>6
  <2>3. ASSUME NEW k \in 3 .. (P + 2) PROVE a[k] = Byte - 1
    <3>1. k \in 1 .. (2 + Len(pad)) /\ ~ (k <= 2) /\ k - 2 \in 1 .. P
      BY <1>2, <1>5
    <3>. QED
      BY <3>1, <2>1, <1>5
  <2>. QED
    BY <2>1, <2>2, <2>3
<1>. HIDE DEF a
<1>9. /\ b \in Seq(S) /\ Len(b) = P + 3 /\ b[1] = 0 /\ b[2] = 1 /\ b[P + 3] = 0
      /\ \A k \in 3 .. (P + 2) : b[k] = Byte - 1
  <2>1. /\ b \in Seq(S) /\ Len(b) = (P + 2) + 1
        /\ \A k \in 1 .. ((P + 2) + 1) : b[k] = IF k <= P + 2 THEN a[k] ELSE <<0>>[k - (P + 2)]
    BY <1>7, <1>8, ConcatProperties
  <2>. HIDE DEF b
  <2>2. Len(b) = P + 3 /\ b[1] = 0 /\ b[2] = 1
    BY <2>1, <1>2, <1>8
  <2>3. b[P + 3] = 0
    <3>1. P + 3 \in 1 .. ((P + 2) + 1) /\ ~ (P + 3 <= P + 2) /\ (P + 3) - (P + 2) = 1
      BY <1>2
    <3>. QED
      BY <3>1, <2>1, <1>7
  <2>4. ASSUME NEW k \in 3 .. (P + 2) PROVE b[k] = Byte - 1
    <3>1. k \in 1 .. ((P + 2) + 1) /\ k <= P + 2
      BY <1>2
    <3>. QED
      BY <3>1, <2>1, <1>8
  <2>. QED
    BY <2>1, <2>2, <2>3, <2>4
<1>. HIDE DEF b
<1>10. tail \in Seq(S) /\ Len(tail) = L + DigestSize /\ SubSeq(tail, 1, L) = Prefix /\ SubSeq(tail, L + 1, Len(tail)) = digest
  <2>1. Prefix \in Seq(S) /\ digest \in Seq(S) /\ L = Len(Prefix)
    BY <1>1, <1>4 DEF L
  <2>2. /\ Prefix \o digest \in Seq(S) /\ Len(Prefix \o digest) = L + Len(digest)
        /\ SubSeq(Prefix \o digest, 1, L) = Prefix
        /\ SubSeq(Prefix \o digest, L + 1, Len(Prefix \o digest)) = digest
    <3>1. Parts(S, Prefix, digest, L)
      BY <2>1, JoinedParts
    <3>. QED
      BY <3>1, Zenon DEF Parts
  <2>. QED
    BY <2>2, <1>4, Zenon
<1>. HIDE DEF tail
<1>11. /\ em \in Seq(S) /\ Len(em) = Bytes
       /\ SubSeq(em, 1, P + 3) = b /\ SubSeq(em, (P + 3) + 1, Bytes) = tail
  <2>1. /\ em \in Seq(S) /\ Len(em) = (P + 3) + Len(tail)
        /\ SubSeq(em, 1, P + 3) = b /\ SubSeq(em, (P + 3) + 1, Len(em)) = tail
    <3>1. P + 3 = Len(b)
      BY <1>9, Zenon
    <3>2. Parts(S, b, tail, P + 3)
      BY <3>1, <1>9, <1>10, JoinedParts
    <3>. QED
      BY <3>2, Zenon DEF Parts, em
  <2>2. Len(em) = Bytes
    BY <2>1, <1>2, <1>10, Zenon
  <2>. QED
    BY <2>1, <2>2, Zenon
<1>12. \A k \in 1 .. (P + 3) : em[k] = b[k]
  <2>. HIDE DEF em
  <2>1. P + 3 \in 0 .. Len(em)
    BY <1>1, <1>2, <1>11
  <2>. QED
    BY <2>1, <1>11, Halves
<1>13. Encoded = em
  <2>1. Encoded = ((b \o Prefix) \o digest)
    BY Zenon DEF Encoded, b, a, pad, P, Pads
  <2>2. (b \o Prefix) \o digest = b \o (Prefix \o digest)
    <3>1. b \in Seq(S) /\ Prefix \in Seq(S) /\ digest \in Seq(S)
      BY <1>1, <1>4, <1>9
    <3>. QED
      <4>1. Regroups(b, Prefix, digest)
        BY <3>1, Regrouped
      <4>. QED
        BY <4>1, Zenon DEF Regroups
  <2>. QED
    BY <2>1, <2>2, Zenon DEF tail
<1>. HIDE DEF em
<1>14. em[1] = 0 /\ em[2] = 1 /\ em[P + 3] = 0 /\ \A k \in 3 .. (P + 2) : em[k] = Byte - 1
  <2>1. 1 \in 1 .. (P + 3) /\ 2 \in 1 .. (P + 3) /\ P + 3 \in 1 .. (P + 3) /\ \A k \in 3 .. (P + 2) : k \in 1 .. (P + 3)
    BY <1>2
  <2>. QED
    BY <2>1, <1>9, <1>12
<1>. DEFINE zeros == {k \in 3 .. Bytes : em[k] = 0}
            end == Min(zeros)
            rest == SubSeq(em, end + 1, Bytes)
<1>15. end = P + 3 /\ zeros # {}
  <2>1. P + 3 \in zeros
    BY <1>1, <1>2, <1>14
  <2>2. zeros \subseteq Nat /\ zeros # {}
    BY <2>1, <1>1
  <2>3. \A k \in zeros : k >= P + 3
    <3>1. TAKE k \in zeros
    <3>2. k \in 3 .. Bytes /\ em[k] = 0
      OBVIOUS
    <3>3. ~ (k \in 3 .. (P + 2))
      BY <3>2, <1>3, <1>14
    <3>. QED
      BY <3>2, <3>3, <1>1, <1>2
  <2>4. end \in zeros /\ \A y \in zeros : end <= y
    <3>. HIDE DEF zeros
    <3>. QED
      BY <2>2, MinIs
  <2>. HIDE DEF zeros, end
  <2>5. end \in Nat /\ end <= P + 3 /\ end >= P + 3
    BY <2>1, <2>2, <2>3, <2>4
  <2>. QED
    BY <2>2, <2>5, <1>2
<1>16. rest = tail
  BY <1>11, <1>15, Zenon
<1>17. /\ ~ (em[1] # 0) /\ ~ (em[2] # 1) /\ ~ (zeros = {})
       /\ ~ \E k \in 3 .. (end - 1) : em[k] # Byte - 1
       /\ ~ (end - 3 < MinPadding)
  <2>. HIDE DEF zeros, end
  <2>. QED
    BY <1>1, <1>2, <1>14, <1>15
<1>18. /\ ~ (Len(rest) # Len(Prefix) + DigestSize)
       /\ ~ (SubSeq(rest, 1, Len(Prefix)) # Prefix)
       /\ ~ (SubSeq(rest, Len(Prefix) + 1, Len(rest)) # digest)
  BY <1>10, <1>16, Zenon DEF L
<1>19. Verdict(em) = "OK"
  BY <1>17, <1>18, Zenon DEF Verdict
<1>. QED
  BY <1>11, <1>13, <1>14, <1>19, Zenon DEF S

LEMMA EncodedBytes == ASSUME digest \in Digests PROVE Bytewise(Encoded)
<1>1. Encoded \in Seq(0 .. (Byte - 1)) /\ Len(Encoded) = Bytes
  BY EncodingPasses
<1>. DEFINE S == 0 .. (Byte - 1)
            em == Encoded
<1>2. em \in Seq(S) /\ Len(em) = Bytes
  BY <1>1
<1>. HIDE DEF S, em
<1>3. \A k \in 1 .. Bytes : em[k] \in S
  BY <1>2
<1>. QED
  BY <1>3, Zenon DEF Bytewise, S, em

(* The words of a number tell its bytes.                                   *)
LEMMA BytesOfWords ==
    ASSUME NEW a, NEW c, \A k \in 1 .. Limbs : a[k] = c[k]
    PROVE  \A b \in 1 .. Bytes : ToBytes(a)[b] = ToBytes(c)[b]
<1>1. TAKE b \in 1 .. Bytes
<1>. DEFINE up == Bytes - b
<1>2. up \div LimbBytes \in 0 .. (Limbs - 1)
  BY Places
<1>3. 1 + (up \div LimbBytes) \in 1 .. Limbs
  BY <1>2, Widths
<1>. DEFINE w == 1 + (up \div LimbBytes)
<1>4. ToBytes(a)[b] = (a[w] \div Pow(Byte, up % LimbBytes)) % Byte
  BY DEF ToBytes
<1>5. ToBytes(c)[b] = (c[w] \div Pow(Byte, up % LimbBytes)) % Byte
  BY DEF ToBytes
<1>6. a[w] = c[w]
  <2>. HIDE DEF w
  <2>. QED
    BY <1>3 DEF w
<1>. HIDE DEF w, up
<1>. QED
  BY <1>4, <1>5, <1>6, Zenon

(* A number passes the check of the padding exactly when it is the one     *)
(* that encodes the digest.                                                *)
LEMMA OneNumberPasses ==
    ASSUME digest \in Digests, NEW a, IsBig(a, Limbs)
    PROVE  Verdict(ToBytes(a)) = "OK" <=> Value(a) = Value(FromBytes(Encoded))
<1>. DEFINE t == ToBytes(a)
            c == FromBytes(Encoded)
            S == Nat
<1>1. Bytewise(t) /\ t \in Seq(0 .. (Byte - 1)) /\ Len(t) = Bytes
  BY ToBytesIs
<1>2. Encoded \in Seq(0 .. (Byte - 1)) /\ Len(Encoded) = Bytes /\ Verdict(Encoded) = "OK" /\ Bytewise(Encoded)
  BY EncodingPasses, EncodedBytes
<1>3. IsBig(c, Limbs) /\ Limbs \in Nat
  BY <1>2, FromBytesIs, BigWords, Widths
<1>4. ASSUME Verdict(t) = "OK" PROVE Value(a) = Value(c)
  <2>1. t = Encoded
    <3>1. t \in Seq(Nat)
      <4>. HIDE DEF t
      <4>1. 0 .. (Byte - 1) \subseteq Nat
        BY Widths
      <4>2. \A k \in 1 .. Len(t) : t[k] \in Nat
        BY <1>1, <4>1, Widths DEF Bytewise
      <4>. QED
        BY <1>1, <4>1, <4>2, Widths
    <3>. DEFINE X == Nat
    <3>2. t \in Seq(X) /\ Nat \subseteq X
      BY <3>1
    <3>. HIDE DEF X, t
    <3>. QED
      BY <3>2, <1>1, <1>4, OneEncoding
  <2>2. \A k \in 1 .. Limbs : FromBytes(t)[k] = a[k]
    BY FromTo
  <2>3. \A k \in 1 .. Limbs : c[k] = a[k]
    BY <2>1, <2>2, Zenon
  <2>4. \A k \in 1 .. Limbs : a[k] = c[k]
    BY <2>3, Zenon
  <2>. HIDE DEF c
  <2>5. \A k \in 0 .. Limbs : ValueOf(a, k) = ValueOf(c, k)
    BY <2>4, <1>3, ValueSame
  <2>6. Limbs \in 0 .. Limbs
    BY <1>3
  <2>. QED
    BY <2>5, <2>6, Zenon DEF Value
<1>5. ASSUME Value(a) = Value(c) PROVE Verdict(t) = "OK"
  <2>1. \A k \in 1 .. Limbs : a[k] = c[k]
    <3>1. ValueOf(a, Limbs) = ValueOf(c, Limbs)
      BY <1>5, Zenon DEF Value
    <3>. HIDE DEF c
    <3>. QED
      BY <3>1, <1>3, ValueUnique
  <2>2. \A b \in 1 .. Bytes : t[b] = ToBytes(c)[b]
    <3>. HIDE DEF c
    <3>. QED
      BY <2>1, BytesOfWords
  <2>3. \A b \in 1 .. Bytes : ToBytes(c)[b] = Encoded[b]
    BY <1>2, ToFrom
  <2>. HIDE DEF t, c
  <2>4. \A b \in 1 .. Bytes : t[b] = Encoded[b]
    BY <2>2, <2>3, Zenon
  <2>5. t = Encoded
    <3>. DEFINE X == 0 .. (Byte - 1)
    <3>1. t \in Seq(X) /\ Encoded \in Seq(X) /\ Len(t) = Len(Encoded) /\ Len(t) = Bytes
      BY <1>1, <1>2, Zenon
    <3>. HIDE DEF X
    <3>. QED
      BY <3>1, <2>4, SeqEqual
  <2>. QED
    BY <2>5, <1>2, Zenon
<1>. QED
  BY <1>4, <1>5, Zenon

-----------------------------------------------------------------------------
(* 0 and 1 encode no digest: the second byte is a 1.                       *)
LEMMA SecondByte ==
    ASSUME NEW a, \A k \in 1 .. Limbs : a[k] = (IF k = 1 THEN a[1] ELSE 0), a[1] \in {0, 1}, Bytes >= 4
    PROVE  2 \in 1 .. Bytes /\ ToBytes(a)[2] = 0
<1>. DEFINE up == Bytes - 2
            q == up \div LimbBytes
            r == up % LimbBytes
            w == 1 + q
<1>1. 2 \in 1 .. Bytes /\ Bytes \in Nat /\ Byte \in Nat \ {0} /\ Byte >= 4
  BY Widths
<1>2. q \in 0 .. (Limbs - 1) /\ r \in 0 .. (LimbBytes - 1)
  BY <1>1, Places
<1>3. LimbBytes \in Nat \ {0} /\ Limbs \in Nat \ {0} /\ up \in Nat /\ up >= 2
  BY <1>1, Widths
<1>4. ToBytes(a)[2] = (a[w] \div Pow(Byte, r)) % Byte
  BY <1>1 DEF ToBytes
<1>5. w \in 1 .. Limbs /\ r \in Nat
  BY <1>2, <1>3
<1>6. Pow(Byte, r) \in Nat \ {0}
  BY <1>1, <1>5, PowNat
<1>. DEFINE x == a[w]
            p == Pow(Byte, r)
<1>7. x \div p = 0
  <2>1. CASE x = 0
    <3>1. p \in Nat \ {0} /\ 0 \in 0 .. (p - 1)
      BY <1>6
    <3>. HIDE DEF x, p
    <3>2. x = p * 0 + 0
      BY <2>1, <3>1
    <3>3. (p * 0 + 0) \div p = 0
      BY <3>1, RestIs
    <3>. QED
      BY <3>2, <3>3, Zenon
  <2>2. CASE x # 0
    <3>1. w = 1 /\ x = 1
      <4>1. w \in 1 .. Limbs /\ x = (IF w = 1 THEN a[1] ELSE 0)
        <5>. HIDE DEF w
        <5>. QED
          BY <1>5
      <4>. HIDE DEF x, w
      <4>2. w = 1 /\ x = a[1]
        BY <4>1, <2>2
      <4>. QED
        BY <4>2, <2>2
    <3>2. q = 0
      <4>. HIDE DEF q
      <4>. QED
        BY <3>1, <1>2
    <3>3. up = LimbBytes * q + r
      <4>1. up \in Int
        BY <1>3
      <4>. HIDE DEF up
      <4>. QED
        BY <4>1, <1>3, DivideBy
    <3>4. r = up
      <4>. HIDE DEF r, q, up
      <4>. QED
        BY <3>2, <3>3, <1>3, <1>5
    <3>5. r >= 2
      BY <3>4, <1>3, Zenon
    <3>6. p >= 4
      <4>1. r - 1 \in Nat /\ r = (r - 1) + 1
        <5>. HIDE DEF r
        <5>. QED
          BY <3>5, <1>5
      <4>. DEFINE l == r - 1
                  g == Pow(Byte, l)
      <4>2. l \in Nat /\ r = l + 1
        BY <4>1
      <4>. HIDE DEF l, r
      <4>3. g \in Nat \ {0}
        BY <4>2, <1>1, PowNat
      <4>4. p = g * Byte
        BY <4>2, PowIs
      <4>. HIDE DEF g, p
      <4>5. 1 * Byte <= g * Byte
        BY <4>3, <1>1, Grows
      <4>6. g * Byte \in Nat
        BY <4>3, <1>1, Naturals
      <4>. QED
        BY <4>4, <4>5, <4>6, <1>1
    <3>7. p \in Nat \ {0} /\ 1 \in 0 .. (p - 1)
      <4>. HIDE DEF p
      <4>. QED
        BY <3>6, <1>6 DEF p
    <3>. HIDE DEF x, p
    <3>8. x = p * 0 + 1
      BY <3>1, <3>7
    <3>9. (p * 0 + 1) \div p = 0
      BY <3>7, RestIs
    <3>. QED
      BY <3>8, <3>9, Zenon
  <2>. QED
    BY <2>1, <2>2
<1>8. ToBytes(a)[2] = 0 % Byte
  BY <1>4, <1>7, Zenon
<1>9. 0 % Byte = 0
  <2>1. 0 \in 0 .. (Byte - 1)
    BY <1>1
  <2>. QED
    BY <2>1, <1>1, RestSmall
<1>. QED
  BY <1>1, <1>8, <1>9, Zenon

LEMMA EncodedIsLarge ==
    ASSUME digest \in Digests
    PROVE  Value(FromBytes(Encoded)) # 0 /\ Value(FromBytes(Encoded)) # 1
<1>. DEFINE c == FromBytes(Encoded)
<1>1. Bytewise(Encoded) /\ Encoded[2] = 1 /\ Bytes >= 4 /\ 2 \in 1 .. Bytes
  <2>1. /\ MinPadding \in Nat /\ DigestSize \in Nat \ {0} /\ Bytes >= 3 + MinPadding + Len(Prefix) + DigestSize
        /\ Prefix \in Seq(0 .. (Byte - 1))
    BY SignatureAssumption, Zenon DEF SignatureAssumption
  <2>2. Bytes \in Nat /\ Len(Prefix) \in Nat
    BY <2>1, Widths
  <2>3. Bytes >= 4 /\ 2 \in 1 .. Bytes
    BY <2>1, <2>2
  <2>. QED
    BY <2>3, EncodedBytes, EncodingPasses
<1>2. IsBig(c, Limbs) /\ Limbs \in Nat \ {0}
  BY <1>1, FromBytesIs, BigWords, Widths
<1>3. ToBytes(c)[2] = 1
  BY <1>1, ToFrom
<1>4. ASSUME NEW a, IsBig(a, Limbs), \A k \in 1 .. Limbs : a[k] = (IF k = 1 THEN a[1] ELSE 0), a[1] \in {0, 1}
      PROVE  Value(c) # Value(a)
  <2>1. SUFFICES ASSUME Value(c) = Value(a) PROVE FALSE
    OBVIOUS
  <2>2. ValueOf(c, Limbs) = ValueOf(a, Limbs)
    BY <2>1, Zenon DEF Value
  <2>. HIDE DEF c
  <2>3. \A k \in 1 .. Limbs : c[k] = a[k]
    BY <2>2, <1>2, <1>4, ValueUnique
  <2>4. ToBytes(c)[2] = ToBytes(a)[2]
    BY <2>3, <1>1, BytesOfWords
  <2>5. ToBytes(a)[2] = 0
    BY <1>1, <1>4, SecondByte
  <2>. QED
    BY <2>4, <2>5, <1>3
<1>5. Value(c) # Value(Zero)
  <2>1. IsBig(Zero, Limbs)
    BY ZeroIs, BigWords, <1>2
  <2>2. (\A k \in 1 .. Limbs : Zero[k] = (IF k = 1 THEN Zero[1] ELSE 0)) /\ Zero[1] \in {0, 1}
    BY <1>2 DEF Zero
  <2>. QED
    BY <2>1, <2>2, <1>4
<1>6. Value(c) # Value(One)
  <2>1. IsBig(One, Limbs)
    BY OneIs, BigWords, <1>2
  <2>2. (\A k \in 1 .. Limbs : One[k] = (IF k = 1 THEN One[1] ELSE 0)) /\ One[1] \in {0, 1}
    BY <1>2 DEF One, Zero
  <2>. QED
    BY <2>1, <2>2, <1>4
<1>7. Value(Zero) = 0 /\ Value(One) = 1
  BY ZeroIs, OneIs
<1>. QED
  BY <1>5, <1>6, <1>7, Zenon

(* At the end of modexp the power, out of Montgomery form, is the          *)
(* signature's; for the exponent 0 modulo 1 neither encodes a digest.      *)
LEMMA PowerIsRight ==
    ASSUME Ready, Raising, i = 0, digest \in Digests
    PROVE  /\ IsBig(Power, Limbs)
           /\ Value(Power) = Value(FromBytes(Encoded)) <=>
                PowerMod(Value(s), key.e) = Value(FromBytes(Encoded))
<1>. DEFINE N == key.n
            S == Value(s)
            e == key.e
            p == Pow(S, e)
            m == PowerMod(S, e)
<1>1. KeyIsIn /\ Limbs \in Nat
  BY Widths DEF Ready
<1>2. N \in Nat \ {0} /\ N \in Nat /\ R \in Int /\ S \in Nat /\ (N % 2) = 1
  BY <1>1, OddKey, RIs, ReducedInt DEF Raising, Ready
<1>3. e \in Nat
  <2>1. 2 \in Nat
    OBVIOUS
  <2>2. Pow(2, ExpBits) \in Nat /\ e \in 0 .. (Pow(2, ExpBits) - 1)
    BY <2>1, <1>1, KeyValue, PowIn
  <2>. HIDE DEF e
  <2>. QED
    BY <2>2
<1>4. p \in Nat /\ p \in Int
  <2>. HIDE DEF S, e
  <2>1. p \in Nat
    BY <1>2, <1>3, PowIn
  <2>. QED
    BY <2>1
<1>5. m \in 0 .. (N - 1) /\ Cong(m, p, N)
  BY <1>2, <1>3, PowerModIs
<1>6. m \in Int
  <2>. HIDE DEF m, N
  <2>. QED
    BY <1>2, <1>5
<1>7. BigOf(One, Limbs) /\ Value(One) = 1
  BY OneIs
<1>8. CASE e # 0
  <2>. DEFINE t == Times(acc, One)
              x == Value(t)
              u == Value(acc)
              one == 1
  <2>1. Power = t
    BY <1>8 DEF Power
  <2>2. Reduced(acc) /\ BigOf(acc, Limbs) /\ u \in Int /\ u < N
    BY <1>1, ReducedInt DEF Raising, Reduced
  <2>3. BigOf(t, Limbs) /\ x \in 0 .. (N - 1) /\ Cong(R * x, u * Value(One), N)
    BY <2>2, <1>7, TimesIs
  <2>4. Cong(u, p * R, N)
    <3>1. Above = e
      <4>1. Pow(2, 0) = 1
        BY PowIs
      <4>2. Above = e \div 1
        BY <4>1, Zenon DEF Above
      <4>. HIDE DEF e
      <4>. QED
        BY <4>2, <1>3
    <3>2. Cong(Value(acc), Pow(Value(s), Above) * R, key.n)
      BY DEF Raising
    <3>. QED
      BY <3>1, <3>2, Zenon
  <2>5. one \in Int /\ Value(One) = one
    BY <1>7
  <2>6. IsBig(t, Limbs)
    BY <2>3, <1>1, BigWords
  <2>. HIDE DEF t, u, one, N, p
  <2>7. x \in Int
    <3>. HIDE DEF x
    <3>. QED
      BY <2>3, <1>2
  <2>. HIDE DEF x
  <2>8. Cong(one, one, N)
    BY <2>5, <1>2, CongSame
  <2>9. Cong(R * x, u * one, N)
    BY <2>3, <2>5, Zenon
  <2>10. Cong(x, p * one, N)
    BY <1>2, <1>4, <2>2, <2>4, <2>5, <2>7, <2>8, <2>9, MontPower
  <2>11. p * one = p
    BY <1>4 DEF one
  <2>12. Cong(x, p, N)
    BY <2>10, <2>11, Zenon
  <2>. HIDE DEF m
  <2>13. Cong(p, m, N)
    BY <1>2, <1>4, <1>5, <1>6, CongBack
  <2>14. Cong(x, m, N)
    BY <1>2, <1>4, <1>6, <2>7, <2>12, <2>13, CongOn
  <2>15. x = m
    BY <1>2, <1>5, <2>3, <2>14, CongSmall
  <2>16. IsBig(Power, Limbs)
    BY <2>1, <2>6, Zenon
  <2>17. Value(Power) = m
    BY <2>1, <2>15, Zenon DEF x
  <2>. QED
    BY <2>16, <2>17, Zenon DEF m
<1>9. CASE e = 0
  <2>1. Power = One
    BY <1>9 DEF Power
  <2>2. IsBig(Power, Limbs) /\ Value(Power) = 1
    BY <2>1, <1>1, <1>7, BigWords
  <2>3. p = 1
    BY <1>9, PowIs
  <2>. DEFINE V == Value(FromBytes(Encoded))
              one == 1
  <2>4. V # 0 /\ V # one
    BY EncodedIsLarge
  <2>. HIDE DEF V, m, N, p
  <2>5. CASE N = 1
    <3>1. m = 0
      BY <2>5, <1>5
    <3>. QED
      BY <3>1, <2>2, <2>4, Zenon DEF V, m
  <2>6. CASE N # 1
    <3>1. one \in 0 .. (N - 1)
      BY <2>6, <1>2
    <3>2. Cong(m, one, N)
      BY <2>3, <1>5, Zenon
    <3>. HIDE DEF one
    <3>3. m = one
      BY <3>1, <3>2, <1>2, <1>5, CongSmall
    <3>. QED
      BY <3>3, <2>2, Zenon DEF V, m, one
  <2>. QED
    BY <2>5, <2>6
<1>. QED
  BY <1>8, <1>9

-----------------------------------------------------------------------------
(* The image passes exactly when it is signed.                             *)
PassInv ==
    /\ PowerInv
    /\ pc \notin {"update", "digest"} => digest \in Digests
    /\ PassesExactlyTheSigned

(* The signature is the e-th root of the digest's encoding.                *)
Signed ==
    /\ key.n % 2 = 1
    /\ Value(s) < key.n
    /\ PowerMod(Value(s), key.e) = Value(FromBytes(Encoded))

LEMMA BadKeyFails == PassInv /\ BadKey => PassInv'
<1>. SUFFICES ASSUME PassInv, BadKey PROVE PassInv'
  OBVIOUS
<1>1. PowerInv'
  BY PowerNext DEF Next, PassInv
<1>2. pc = "key" /\ digest' = digest /\ key' = key /\ result' = "BAD_KEY" /\ ~ (n # Zero /\ n[1] % 2 = 1)
  BY DEF BadKey, Return, sha, ctx
<1>3. digest' \in Digests
  BY <1>2 DEF PassInv
<1>4. ~ ((key.n % 2) = 1)
  BY <1>2, KeyIsOdd DEF PassInv, PowerInv
<1>5. result' # "OK" /\ ~ Signed'
  <2>1. ~ ((key'.n % 2) = 1)
    BY <1>2, <1>4
  <2>2. ~ Signed'
    BY <2>1, Zenon DEF Signed
  <2>. QED
    BY <1>2, <2>2
<1>6. PassesExactlyTheSigned'
  <2>1. PassesExactlyTheSigned' <=> (pc' = "out" => (result' = "OK" <=> Signed'))
    BY Zenon DEF PassesExactlyTheSigned, Signed
  <2>. QED
    BY <2>1, <1>5, Zenon
<1>. QED
  BY <1>1, <1>3, <1>6, Zenon DEF PassInv

LEMMA ReadSignaturePasses == PassInv /\ ReadSignature => PassInv'
<1>. SUFFICES ASSUME PassInv, ReadSignature PROVE PassInv'
  OBVIOUS
<1>1. PowerInv'
  BY PowerNext DEF Next, PassInv
<1>2. pc = "r2" /\ digest' = digest /\ key' = key /\ n' = n
  BY DEF ReadSignature, sha, ctx
<1>3. digest' \in Digests
  BY <1>2 DEF PassInv
<1>4. PassesExactlyTheSigned'
  <2>1. CASE Admits(s')
    <3>1. pc' = "modexp"
      BY <2>1 DEF ReadSignature
    <3>2. PassesExactlyTheSigned' <=> (pc' = "out" => (result' = "OK" <=> Signed'))
      BY Zenon DEF PassesExactlyTheSigned, Signed
    <3>. QED
      BY <3>1, <3>2
  <2>2. CASE ~ Admits(s')
    <3>1. pc' = "out" /\ result' = "BAD_PADDING"
      BY <2>2 DEF ReadSignature, Return
    <3>2. KeyIsIn
      BY DEF PassInv, PowerInv
    <3>3. BigOf(n, Limbs) /\ Value(n) = key.n /\ Limbs \in Nat
      BY <3>2, KeyValue, Widths
    <3>4. PICK x \in Signatures : s' = FromBytes(ToBytes(ToBig(x)))
      BY DEF ReadSignature
    <3>5. BigOf(s', Limbs)
      <4>1. x \in Nat
        BY <3>4, SignatureAssumption, Zenon DEF SignatureAssumption
      <4>2. IsBig(ToBig(x), Limbs)
        BY <4>1, ToBigWords
      <4>3. BigOf(FromBytes(ToBytes(ToBig(x))), Limbs)
        BY <4>2, ToBytesIs, FromBytesIs
      <4>. QED
        BY <4>3, <3>4, Zenon
    <3>. DEFINE t == s'
    <3>6. IsBig(t, Limbs) /\ IsBig(n, Limbs)
      BY <3>3, <3>5, BigWords
    <3>7. Value(t) >= key.n
      <4>1. AtLeast(t, n) <=> Value(t) >= Value(n)
        BY <3>6, AtLeastIs
      <4>. QED
        BY <4>1, <2>2, <3>3 DEF Admits
    <3>8. ~ (Value(t) < key.n)
      <4>1. Value(t) \in 0 .. (R - 1) /\ key.n \in 0 .. (R - 1) /\ R \in Nat
        BY <3>2, <3>6, ValueIn, KeyValue, RIs
      <4>. DEFINE v == Value(t)
                  N == key.n
      <4>2. v \in 0 .. (R - 1) /\ N \in 0 .. (R - 1) /\ R \in Nat /\ v >= N
        BY <3>7, <4>1
      <4>. HIDE DEF v, N
      <4>3. ~ (v < N)
        BY <4>2
      <4>. QED
        BY <4>3, Zenon DEF v, N
    <3>9. ~ Signed'
      <4>1. Value(s)' = Value(t) /\ key'.n = key.n
        BY <1>2 DEF Value
      <4>2. ~ (Value(s)' < key'.n)
        BY <4>1, <3>8, Zenon
      <4>. QED
        BY <4>2, Zenon DEF Signed
    <3>10. PassesExactlyTheSigned' <=> (pc' = "out" => (result' = "OK" <=> Signed'))
      BY Zenon DEF PassesExactlyTheSigned, Signed
    <3>11. result' # "OK"
      BY <3>1
    <3>. QED
      BY <3>9, <3>10, <3>11, Zenon
  <2>. QED
    BY <2>1, <2>2
<1>. QED
  BY <1>1, <1>3, <1>4, Zenon DEF PassInv

LEMMA CheckPaddingPasses == PassInv /\ CheckPadding => PassInv'
<1>. SUFFICES ASSUME PassInv, CheckPadding PROVE PassInv'
  OBVIOUS
<1>1. PowerInv'
  BY PowerNext DEF Next, PassInv
<1>2. /\ pc = "modexp" /\ i = 0 /\ result' = Verdict(ToBytes(Power))
      /\ digest' = digest /\ key' = key /\ s' = s
  BY DEF CheckPadding, Return, sha, ctx
<1>3. digest \in Digests /\ digest' \in Digests
  BY <1>2 DEF PassInv
<1>4. Ready /\ Raising /\ KeyIsIn
  BY <1>2 DEF PassInv, PowerInv
<1>5. /\ IsBig(Power, Limbs)
      /\ Value(Power) = Value(FromBytes(Encoded)) <=> PowerMod(Value(s), key.e) = Value(FromBytes(Encoded))
  BY <1>2, <1>3, <1>4, PowerIsRight
<1>6. Verdict(ToBytes(Power)) = "OK" <=> Value(Power) = Value(FromBytes(Encoded))
  BY <1>3, <1>5, OneNumberPasses
<1>7. (key.n % 2) = 1 /\ Value(s) < key.n
  BY <1>4, ReducedInt DEF Ready, Raising
<1>8. Verdict(ToBytes(Power)) = "OK" <=> Signed
  BY <1>5, <1>6, <1>7, Zenon DEF Signed
<1>9. Signed' <=> Signed
  <2>1. PowerMod(Value(s), key.e)' = PowerMod(Value(s), key.e) /\ Value(s)' = Value(s)
    BY <1>2 DEF PowerMod, Value
  <2>2. Encoded' = Encoded
    BY <1>2 DEF Encoded
  <2>. QED
    BY <2>1, <2>2, <1>2, Zenon DEF Signed
<1>10. PassesExactlyTheSigned'
  <2>1. PassesExactlyTheSigned' <=> (pc' = "out" => (result' = "OK" <=> Signed'))
    BY Zenon DEF PassesExactlyTheSigned, Signed
  <2>. QED
    BY <2>1, <1>2, <1>8, <1>9, Zenon
<1>. QED
  BY <1>1, <1>3, <1>10, Zenon DEF PassInv

LEMMA PassNext == PassInv /\ [Next]_vars => PassInv'
<1>. SUFFICES ASSUME PassInv, [Next]_vars PROVE PassInv'
  OBVIOUS
<1>1. PowerInv'
  BY PowerNext DEF PassInv
<1>2. CASE UNCHANGED vars
  <2>1. PassesExactlyTheSigned' <=> PassesExactlyTheSigned
    <3>1. UNCHANGED <<pc, result, key, s, digest>>
      BY <1>2 DEF vars, sha, ctx
    <3>2. PowerMod(Value(s), key.e)' = PowerMod(Value(s), key.e) /\ Value(s)' = Value(s) /\ Encoded' = Encoded
      BY <3>1 DEF PowerMod, Value, Encoded
    <3>. QED
      BY <3>1, <3>2, Zenon DEF PassesExactlyTheSigned
  <2>. QED
    BY <2>1, <1>1, <1>2 DEF PassInv, vars, sha
<1>3. CASE Update \/ Final \/ Digested \/ MontInit \/ R2Step \/ ModexpStep
  <2>1. pc' # "out" /\ (pc' \in {"update", "digest"} \/ digest' \in Digests)
    BY <1>3 DEF Update, Final, Digested, MontInit, R2Step, ModexpStep, sha, PassInv
  <2>2. PassesExactlyTheSigned' <=> (pc' = "out" => (result' = "OK" <=> Signed'))
    BY Zenon DEF PassesExactlyTheSigned, Signed
  <2>. QED
    BY <2>1, <2>2, <1>1 DEF PassInv
<1>. QED
  BY <1>2, <1>3, BadKeyFails, ReadSignaturePasses, CheckPaddingPasses DEF Next

(* The image passes exactly when its signature, below the key's modulus,   *)
(* has the e-th power that encodes the digest, for every width and key.    *)
THEOREM TheSignedPass == Spec => []PassesExactlyTheSigned
<1>1. Init => PassInv
  BY DEF Init, PassInv, PowerInv, KeyIsIn, PassesExactlyTheSigned
<1>2. PassInv => PassesExactlyTheSigned
  BY DEF PassInv
<1>. QED
  BY <1>1, <1>2, PassNext, PTL DEF Spec
=============================================================================
