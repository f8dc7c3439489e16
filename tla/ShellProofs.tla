---------------------------- MODULE ShellProofs ----------------------------
(***************************************************************************)
(* Proofs about Shell for every length of the buffers, every alphabet and  *)
(* every naming of the commands: the line that is run is the line the      *)
(* terminal shows, boot takes the words typed after it, only a NUL goes    *)
(* past the buffer, and sd_ret is believed only when it is right.          *)
(***************************************************************************)
EXTENDS Shell, SequenceTheorems, FiniteSetTheorems, WellFoundedInduction, TLAPS

(* The buffer up to position is what the terminal shows.                   *)
Edited ==
    /\ seen \in Seq(Printable) /\ position = Len(seen)
    /\ position \in 0 .. CmdBufferLength
    /\ command \in [0 .. CmdBufferLength -> Printable \cup {"NUL"}]
    /\ \A k \in 1 .. position : command[k - 1] = seen[k]

Terminated ==
    /\ command[CmdBufferLength] = "NUL"
    /\ pc = "command" => command[position] = "NUL"

Parsed == pc = "command" => cmd = Split(seen)[1] /\ args = Split(seen)[2]

CardKnown == card # "untried" => (sd_ret = "SD_OK") = (card = "ready")

(* Nothing is read before the shell.                                       *)
NotYet == pc \in {"start", "serial", "card"} => ~ reads

IInv == Edited /\ Terminated /\ Parsed /\ CardKnown /\ ReadsAReadyCard /\ NotYet

----------------------------------------------------------------------------
(* A set of naturals with a member has a least one.                        *)
LEMMA Least ==
    ASSUME NEW T, T \subseteq Nat, T # {}
    PROVE  \E x \in T : \A y \in T : x <= y
<1>. DEFINE R == OpToRel(<, Nat)
<1>1. IsWellFoundedOn(R, Nat)
  BY NatLessThanWellFounded
<1>2. \A x, y \in Nat : y < x => <<y, x>> \in R
  BY Zenon DEF OpToRel
<1>. HIDE DEF R
<1>3. PICK x \in T : \A y \in T : ~ (<<y, x>> \in R)
  BY <1>1, WFMin
<1>4. \A y \in T : ~ (y < x)
  BY <1>2, <1>3
<1>5. \A y \in Nat : ~ (y < x) => x <= y
  BY <1>3
<1>. QED
  BY <1>4, <1>5

(* Run finds the longest beginning with characters of a set, up to a       *)
(* length.                                                                 *)
LEMMA RunUpTo ==
    ASSUME NEW S, NEW s \in Seq(S), NEW C, NEW most \in Nat
    PROVE  LET n == Run(s, C, most)
           IN  /\ n \in 0 .. Len(s) /\ n <= most
               /\ \A k \in 1 .. n : s[k] \in C
               /\ n < Len(s) /\ n < most => s[n + 1] \notin C
<1>. DEFINE P(n) == /\ n <= most /\ \A k \in 1 .. n : s[k] \in C
                    /\ n < Len(s) /\ n < most => s[n + 1] \notin C
            T == {k \in 0 .. Len(s) : k = Len(s) \/ k = most \/ s[k + 1] \notin C}
<1>1. Len(s) \in Nat
  OBVIOUS
<1>2. T \subseteq Nat /\ Len(s) \in T /\ (most <= Len(s) => most \in T)
  BY <1>1
<1>3. PICK n \in T : \A y \in T : n <= y
  BY <1>2, Least
<1>4. \A k \in 1 .. n : s[k] \in C
  <2>. SUFFICES ASSUME NEW k \in 1 .. n, s[k] \notin C
                PROVE  FALSE
    OBVIOUS
  <2>1. k - 1 \in 0 .. Len(s) /\ (k - 1) + 1 = k
    BY <1>1, <1>3
  <2>2. k - 1 \in T
    BY <2>1
  <2>3. n <= k - 1
    <3>. HIDE DEF T
    <3>. QED
      BY <2>2, <1>3
  <2>4. n \in Nat
    BY <1>2, <1>3
  <2>. QED
    BY <2>3, <2>4
<1>5. n <= most
  <2>1. n <= Len(s) /\ (most <= Len(s) => n <= most)
    BY <1>2, <1>3
  <2>2. n \in Nat
    BY <1>2, <1>3
  <2>. QED
    BY <2>1, <2>2, <1>1
<1>6. n \in 0 .. Len(s) /\ P(n)
  BY <1>1, <1>3, <1>4, <1>5
<1>7. Run(s, C, most) = CHOOSE m \in 0 .. Len(s) : P(m)
  BY DEF Run
<1>8. Run(s, C, most) \in 0 .. Len(s) /\ P(Run(s, C, most))
  <2>. HIDE DEF P
  <2>. QED
    BY <1>6, <1>7
<1>. QED
  BY <1>8

LEMMA RunIs ==
    ASSUME NEW S, NEW s \in Seq(S), NEW C
    PROVE  LET n == Run(s, C, Len(s))
           IN  /\ n \in 0 .. Len(s)
               /\ \A k \in 1 .. n : s[k] \in C
               /\ n < Len(s) => s[n + 1] \notin C
<1>1. Len(s) \in Nat
  OBVIOUS
<1>. QED
  BY <1>1, RunUpTo

(* A sequence is what comes before an element, the element, and the rest.  *)
LEMMA Joined ==
    ASSUME NEW S, NEW s \in Seq(S), NEW n \in 0 .. (Len(s) - 1)
    PROVE  s = SubSeq(s, 1, n) \o <<s[n + 1]>> \o SubSeq(s, n + 2, Len(s))
<1>. DEFINE a == SubSeq(s, 1, n)
            b == a \o <<s[n + 1]>>
            t == SubSeq(s, n + 2, Len(s))
            w == b \o t
<1>1. Len(s) \in Nat /\ n \in Nat /\ n < Len(s) /\ s[n + 1] \in S
  OBVIOUS
<1>2. a \in Seq(S) /\ Len(a) = n /\ \A k \in 1 .. n : a[k] = s[k]
  BY <1>1
<1>3. t \in Seq(S) /\ Len(t) = Len(s) - n - 1 /\ \A k \in 1 .. Len(t) : t[k] = s[k + n + 1]
  BY <1>1
<1>. HIDE DEF a, t
<1>4. b \in Seq(S) /\ Len(b) = n + 1 /\ (\A k \in 1 .. n : b[k] = a[k]) /\ b[n + 1] = s[n + 1]
  BY <1>1, <1>2
<1>. HIDE DEF b
<1>5. w \in Seq(S) /\ Len(w) = Len(s)
  <2>1. w \in Seq(S) /\ Len(w) = Len(b) + Len(t)
    BY <1>3, <1>4, ConcatProperties, Zenon
  <2>. QED
    BY <2>1, <1>1, <1>3, <1>4
<1>6. ASSUME NEW k \in 1 .. Len(s)
      PROVE  w[k] = s[k]
  <2>1. CASE k <= n + 1
    BY <2>1, <1>1, <1>2, <1>3, <1>4
  <2>2. CASE k > n + 1
    <3>1. k - (n + 1) \in 1 .. Len(t) /\ (k - (n + 1)) + n + 1 = k
      BY <2>2, <1>1, <1>3
    <3>2. w[k] = t[k - (n + 1)]
      BY <3>1, <2>2, <1>1, <1>3, <1>4
    <3>. QED
      BY <3>1, <3>2, <1>3
  <2>3. k <= n + 1 \/ k > n + 1
    BY <1>1
  <2>. QED
    BY <2>1, <2>2, <2>3, Zenon
<1>7. w = s
  <2>. HIDE DEF w
  <2>. QED
    BY <1>5, <1>6, SeqEqual
<1>. QED
  BY <1>7 DEF w, b, a, t

(* Split cuts a line at its first space and loses nothing else.            *)
LEMMA SplitIsExact ==
    ASSUME NEW s \in Seq(Printable)
    PROVE  /\ Split(s)[2] \in Seq(Printable)
           /\ \A i \in DOMAIN Split(s)[1] : Split(s)[1][i] # " "
           /\ \/ s = Split(s)[1] /\ Split(s)[2] = <<>>
              \/ s = Split(s)[1] \o <<" ">> \o Split(s)[2]
<1>. DEFINE n == Run(s, Letters, Len(s))
            tail == Rest(s, n + 1)
            c == SubSeq(s, 1, n)
<1>1. /\ n \in 0 .. Len(s) /\ Len(s) \in Nat
      /\ \A k \in 1 .. n : s[k] \in Letters
      /\ n < Len(s) => s[n + 1] \notin Letters
  BY RunIs
<1>. HIDE DEF n
<1>2. c \in Seq(Printable) /\ Len(c) = n /\ \A k \in 1 .. n : c[k] = s[k]
  BY <1>1
<1>3. \A i \in DOMAIN c : c[i] # " "
  <2>1. \A i \in DOMAIN c : c[i] \in Letters
    BY <1>1, <1>2
  <2>. QED
    BY <2>1, ShellAssumption, ZenonT(30) DEF ShellAssumption
<1>4. /\ tail \in Seq(Printable)
      /\ n = Len(s) => tail = <<>>
      /\ tail = SubSeq(s, n + 2, Len(s))
  BY <1>1 DEF Rest
<1>. HIDE DEF tail
<1>5. Run(tail, Printable, Len(tail)) = Len(tail)
  <2>. DEFINE r == Run(tail, Printable, Len(tail))
  <2>1. r \in 0 .. Len(tail) /\ (r < Len(tail) => tail[r + 1] \notin Printable)
    BY <1>4, RunIs
  <2>. HIDE DEF r
  <2>2. Len(tail) \in Nat /\ \A k \in 1 .. Len(tail) : tail[k] \in Printable
    BY <1>4
  <2>3. ~ (r < Len(tail))
    BY <2>1, <2>2
  <2>4. r = Len(tail)
    BY <2>1, <2>2, <2>3
  <2>. QED
    BY <2>4 DEF r
<1>6. SubSeq(tail, 1, Len(tail)) = tail
  BY <1>4, SubSeqFull
<1>7. Split(s)[1] = c /\ Split(s)[2] = tail
  BY <1>5, <1>6 DEF Split, n, tail
<1>8. CASE n = Len(s)
  <2>1. c = s
    BY <1>1, <1>8
  <2>. QED
    BY <1>3, <1>4, <1>7, <1>8, <2>1
<1>9. CASE n < Len(s)
  <2>1. n + 1 \in 1 .. Len(s) /\ n \in 0 .. (Len(s) - 1)
    BY <1>9, <1>1
  <2>2. s[n + 1] \in Printable /\ s[n + 1] \notin Letters
    BY <2>1, <1>9, <1>1
  <2>3. s[n + 1] = " "
    BY <2>2 DEF Printable
  <2>4. s = c \o <<" ">> \o tail
    BY <2>1, <2>3, <1>4, Joined, Zenon
  <2>. QED
    BY <1>3, <1>4, <1>7, <2>4, Zenon
<1>10. n = Len(s) \/ n < Len(s)
  BY <1>1
<1>. QED
  BY <1>8, <1>9, <1>10, Zenon

(* What boot does for each of its names: skip spaces, take a word.         *)
Skipped(t) == Rest(t, Run(t, {" "}, Len(t)))
Taken(t) == Run(t, Letters, ArgLength - 1)

WordsFit(s) == \A w \in Words(s) : w[2] - w[1] < ArgLength - 1

(* The provers take a string for a name, and this one has no letters.      *)
Space == " "

LEMMA ArgNat == ArgLength \in Nat /\ ArgLength - 1 \in Nat /\ Space \notin Letters
<1>1. ArgLength \in Nat \ {0} /\ Space \notin Letters
  BY ShellAssumption, Zenon DEF ShellAssumption, Space
<1>. QED
  BY <1>1

LEMMA RestIs ==
    ASSUME NEW S, NEW s \in Seq(S), NEW n \in 0 .. Len(s)
    PROVE  /\ Rest(s, n) \in Seq(S) /\ Len(Rest(s, n)) = Len(s) - n
           /\ \A k \in 1 .. (Len(s) - n) : Rest(s, n)[k] = s[k + n]
<1>1. Len(s) \in Nat /\ n \in Nat /\ n <= Len(s)
  OBVIOUS
<1>. QED
  BY <1>1 DEF Rest

(* Behind a word that was taken the next is taken whole, or there is none. *)
LEMMA TakeWord ==
    ASSUME NEW s \in Seq(Printable), NEW c \in 0 .. Len(s),
           c > 0 /\ c < Len(s) => s[c + 1] = Space,
           WordsFit(s)
    PROVE  LET k == Skipped(Rest(s, c))
           IN  \/ k = <<>> /\ \A v \in Words(s) : ~ (v[1] > c)
               \/ \E w \in Words(s) :
                     /\ w[1] > c /\ \A v \in Words(s) : v[1] > c => v[1] >= w[1]
                     /\ SubSeq(k, 1, Taken(k)) = SubSeq(s, w[1], w[2])
                     /\ Rest(k, Taken(k)) = Rest(s, w[2])
<1>. DEFINE L == Len(s)
            r == Rest(s, c)
            b == Run(r, {Space}, Len(r))
            k == Rest(r, b)
            p == c + b + 1
<1>1. L \in Nat /\ c \in Nat /\ c <= L /\ \A i \in 1 .. L : s[i] \in Printable
  OBVIOUS
<1>2. r \in Seq(Printable) /\ Len(r) = L - c /\ \A i \in 1 .. (L - c) : r[i] = s[i + c]
  BY RestIs
<1>. HIDE DEF L, r
<1>3. b \in 0 .. Len(r) /\ (\A i \in 1 .. b : r[i] = Space) /\ (b < Len(r) => r[b + 1] # Space)
  BY <1>2, RunIs
<1>. HIDE DEF b
<1>4. k \in Seq(Printable) /\ Len(k) = Len(r) - b /\ \A i \in 1 .. (Len(r) - b) : k[i] = r[i + b]
  BY <1>2, <1>3, RestIs
<1>. HIDE DEF k
<1>5. b \in Nat /\ c + b <= L /\ Len(k) = L - c - b /\ p \in Nat
  BY <1>1, <1>2, <1>3, <1>4
<1>6. \A i \in 1 .. (L - c - b) : k[i] = s[i + c + b]
  <2>. SUFFICES ASSUME NEW i \in 1 .. (L - c - b)
                PROVE  k[i] = s[i + c + b]
    OBVIOUS
  <2>1. i + b \in 1 .. (L - c) /\ i \in 1 .. (Len(r) - b) /\ (i + b) + c = i + c + b
    BY <1>1, <1>2, <1>5
  <2>. QED
    BY <2>1, <1>2, <1>4
<1>7. \A i \in (c + 1) .. (c + b) : s[i] = Space
  <2>. SUFFICES ASSUME NEW i \in (c + 1) .. (c + b)
                PROVE  s[i] = Space
    OBVIOUS
  <2>1. i - c \in 1 .. b /\ i - c \in 1 .. (L - c) /\ (i - c) + c = i
    BY <1>1, <1>5
  <2>. QED
    BY <2>1, <1>2, <1>3
<1>8. \A v \in Words(s) : v[1] \in 1 .. L /\ v[2] \in 1 .. L /\ s[v[1]] # Space
  <2>1. \A v \in Words(s) : /\ v \in (1 .. L) \X (1 .. L)
                            /\ v[1] <= v[2]
                            /\ \A i \in 1 .. L : v[1] <= i /\ i <= v[2] => s[i] # Space
    BY Zenon DEF Words, L, Space
  <2>. QED
    BY <2>1, <1>1
<1>9. \A v \in Words(s) : v[1] > c => v[1] >= p
  <2>. SUFFICES ASSUME NEW v \in Words(s), v[1] > c, v[1] < p
                PROVE  FALSE
    BY <1>1, <1>5, <1>8
  <2>1. v[1] \in (c + 1) .. (c + b)
    BY <1>1, <1>5, <1>8
  <2>. QED
    BY <2>1, <1>7, <1>8
<1>10. CASE b = Len(r)
  <2>1. Len(k) = 0 /\ p = L + 1
    BY <1>10, <1>1, <1>2, <1>4
  <2>2. k = <<>>
    BY <2>1, <1>4, EmptySeq
  <2>3. \A v \in Words(s) : ~ (v[1] > c)
    BY <2>1, <1>1, <1>8, <1>9
  <2>. QED
    BY <2>2, <2>3, Zenon DEF Skipped, Space, k, r, b
<1>11. CASE b < Len(r)
  <2>. DEFINE T == {j \in p .. L : j = L \/ s[j + 1] = Space}
  <2>1. p \in 1 .. L
    BY <1>11, <1>1, <1>2, <1>5
  <2>2. s[p] # Space
    <3>1. b + 1 \in 1 .. (L - c) /\ (b + 1) + c = p
      BY <1>11, <1>1, <1>2, <1>5
    <3>. QED
      BY <3>1, <1>2, <1>3, <1>11
  <2>3. T \subseteq Nat /\ L \in T
    BY <1>1, <2>1
  <2>4. PICK e \in T : \A y \in T : e <= y
    BY <2>3, Least
  <2>5. e \in p .. L /\ (e = L \/ s[e + 1] = Space) /\ e \in Nat
    BY <1>5, <2>4
  <2>6. \A i \in p .. e : s[i] # Space
    <3>. SUFFICES ASSUME NEW i \in p .. e, s[i] = Space
                  PROVE  FALSE
      OBVIOUS
    <3>1. i # p
      BY <2>2
    <3>2. i - 1 \in p .. L /\ (i - 1) + 1 = i
      BY <3>1, <1>1, <1>5, <2>5
    <3>3. i - 1 \in T
      BY <3>2
    <3>4. e <= i - 1
      <4>. HIDE DEF T
      <4>. QED
        BY <3>3, <2>4
    <3>. QED
      BY <3>4, <1>5, <2>5
  <2>. HIDE DEF T
  <2>7. p > 1 => s[p - 1] = Space
    <3>1. CASE b > 0
      <4>1. p - 1 \in (c + 1) .. (c + b)
        BY <3>1, <1>1, <1>5
      <4>. QED
        BY <4>1, <1>7
    <3>2. CASE b = 0
      <4>1. p = c + 1 /\ (p > 1 => c > 0 /\ c < L)
        BY <3>2, <2>1, <1>1
      <4>. QED
        BY <4>1, <2>2 DEF L
    <3>. QED
      BY <3>1, <3>2, <1>5
  <2>8. <<p, e>> \in Words(s)
    <3>1. <<p, e>> \in (1 .. L) \X (1 .. L)
      BY <2>1, <2>5, <1>1
    <3>2. \A i \in 1 .. L : p <= i /\ i <= e => s[i] # Space
      BY <2>1, <2>5, <2>6
    <3>3. p <= e /\ (p > 1 => s[p - 1] = Space) /\ (e < L => s[e + 1] = Space)
      BY <2>1, <2>5, <2>7, <1>1
    <3>. HIDE DEF p
    <3>4. <<p, e>>[1] = p /\ <<p, e>>[2] = e
      OBVIOUS
    <3>. QED
      BY <3>1, <3>2, <3>3, <3>4, Zenon DEF Words, L, Space
  <2>. DEFINE n == Taken(k)
  <2>9. /\ n \in 0 .. Len(k) /\ n <= ArgLength - 1
        /\ \A i \in 1 .. n : k[i] \in Letters
        /\ n < Len(k) /\ n < ArgLength - 1 => k[n + 1] \notin Letters
    <3>1. ArgLength - 1 \in Nat
      BY ArgNat
    <3>. QED
      BY <3>1, <1>4, RunUpTo DEF Taken
  <2>. HIDE DEF n
  <2>10. Space \notin Letters /\ ArgLength \in Nat /\ Printable = Letters \cup {Space}
    BY ArgNat, Zenon DEF Printable, Space, ShellAssumption
  <2>11. e - p < ArgLength - 1
    <3>1. <<p, e>>[2] - <<p, e>>[1] < ArgLength - 1
      BY <2>8, Zenon DEF WordsFit
    <3>. QED
      BY <3>1
  <2>. HIDE DEF p
  <2>12. p = c + b + 1
    BY DEF p
  <2>13. ~ (n < e - p + 1)
    <3>. SUFFICES ASSUME n < e - p + 1
                  PROVE  FALSE
      OBVIOUS
    <3>1. n < Len(k) /\ n < ArgLength - 1 /\ n + 1 \in 1 .. (L - c - b) /\ (n + 1) + c + b \in p .. e
      BY <2>5, <2>9, <2>10, <2>11, <2>12, <1>1, <1>5
    <3>2. (n + 1) + c + b \in 1 .. L
      BY <2>1, <2>5, <3>1, <1>1
    <3>3. k[n + 1] = s[(n + 1) + c + b]
      BY <3>1, <1>6
    <3>4. k[n + 1] \in Printable /\ k[n + 1] # Space
      BY <3>1, <3>2, <3>3, <2>6, <1>1
    <3>. QED
      BY <3>1, <3>4, <2>9, <2>10
  <2>14. ~ (n > e - p + 1)
    <3>. SUFFICES ASSUME n > e - p + 1
                  PROVE  FALSE
      OBVIOUS
    <3>1. /\ e - p + 2 \in 1 .. n /\ e - p + 2 \in 1 .. (L - c - b) /\ (e - p + 2) + c + b = e + 1
          /\ e # L
      BY <2>1, <2>5, <2>9, <2>12, <1>1, <1>5
    <3>2. k[e - p + 2] = Space
      BY <3>1, <2>5, <1>6
    <3>. QED
      BY <3>1, <3>2, <2>9, <2>10
  <2>15. n = e - p + 1 /\ n \in Nat
    BY <2>5, <2>9, <2>13, <2>14, <1>5, <2>1
  <2>16. SubSeq(k, 1, n) = SubSeq(s, p, e)
    <3>1. /\ SubSeq(k, 1, n) \in Seq(Printable) /\ Len(SubSeq(k, 1, n)) = n
          /\ \A i \in 1 .. n : SubSeq(k, 1, n)[i] = k[i]
      BY <1>4, <2>9, <2>15
    <3>2. /\ SubSeq(s, p, e) \in Seq(Printable) /\ Len(SubSeq(s, p, e)) = n
          /\ \A i \in 1 .. n : SubSeq(s, p, e)[i] = s[p + i - 1]
      BY <2>1, <2>5, <2>15, <1>1 DEF L
    <3>3. ASSUME NEW i \in 1 .. n
          PROVE  k[i] = s[p + i - 1]
      <4>1. i \in 1 .. (L - c - b) /\ i + c + b = p + i - 1
        BY <2>9, <2>12, <2>15, <1>5, <1>1
      <4>. QED
        BY <4>1, <1>6
    <3>4. \A i \in 1 .. n : SubSeq(k, 1, n)[i] = SubSeq(s, p, e)[i]
      BY <3>1, <3>2, <3>3
    <3>. QED
      BY <3>1, <3>2, <3>4, SeqEqual
  <2>17. Rest(k, n) = Rest(s, e)
    <3>1. /\ Rest(k, n) \in Seq(Printable) /\ Len(Rest(k, n)) = Len(k) - n
          /\ \A i \in 1 .. (Len(k) - n) : Rest(k, n)[i] = k[i + n]
      BY <1>4, <2>9, RestIs
    <3>2. e \in 0 .. Len(s)
      BY <2>1, <2>5 DEF L
    <3>3. /\ Rest(s, e) \in Seq(Printable) /\ Len(Rest(s, e)) = L - e
          /\ \A i \in 1 .. (L - e) : Rest(s, e)[i] = s[i + e]
      BY <3>2, RestIs DEF L
    <3>4. Len(k) - n = L - e
      BY <2>12, <2>15, <2>1, <2>5, <1>1, <1>5
    <3>5. ASSUME NEW i \in 1 .. (L - e)
          PROVE  k[i + n] = s[i + e]
      <4>1. i + n \in 1 .. (L - c - b) /\ (i + n) + c + b = i + e
        BY <2>1, <2>5, <2>9, <2>12, <2>15, <1>5, <1>1
      <4>. QED
        BY <4>1, <1>6
    <3>6. \A i \in 1 .. (L - e) : Rest(k, n)[i] = Rest(s, e)[i]
      BY <3>1, <3>3, <3>4, <3>5
    <3>. QED
      BY <3>1, <3>3, <3>4, <3>6, SeqEqual
  <2>18. /\ <<p, e>>[1] > c /\ \A v \in Words(s) : v[1] > c => v[1] >= <<p, e>>[1]
         /\ SubSeq(k, 1, n) = SubSeq(s, <<p, e>>[1], <<p, e>>[2])
         /\ Rest(k, n) = Rest(s, <<p, e>>[2])
    <3>1. p > c
      BY <2>12, <1>1, <1>5
    <3>2. <<p, e>>[1] = p /\ <<p, e>>[2] = e
      OBVIOUS
    <3>. QED
      BY <3>1, <3>2, <2>16, <2>17, <1>9, Zenon
  <2>. QED
    BY <2>8, <2>18, Zenon DEF Skipped, Space, k, r, b, n
<1>12. b = Len(r) \/ b < Len(r)
  BY <1>1, <1>2, <1>5
<1>. QED
  BY <1>10, <1>11, <1>12, Zenon

(* Two words of a text that meet are one.                                  *)
LEMMA WordsApart ==
    ASSUME NEW s \in Seq(Printable), NEW v \in Words(s), NEW w \in Words(s),
           v[1] <= w[1], w[1] <= v[2]
    PROVE  v = w
<1>. DEFINE L == Len(s)
<1>1. ASSUME NEW u \in Words(s)
      PROVE  /\ u \in (1 .. L) \X (1 .. L) /\ u[1] <= u[2]
             /\ \A i \in 1 .. L : u[1] <= i /\ i <= u[2] => s[i] # Space
             /\ u[1] > 1 => s[u[1] - 1] = Space
             /\ u[2] < L => s[u[2] + 1] = Space
  BY Zenon DEF Words, Space
<1>2. L \in Nat
  OBVIOUS
<1>. HIDE DEF L
<1>3. v[1] = w[1]
  <2>. SUFFICES ASSUME v[1] < w[1]
                PROVE  FALSE
    BY <1>1, <1>2
  <2>1. w[1] - 1 \in 1 .. L /\ v[1] <= w[1] - 1 /\ w[1] - 1 <= v[2] /\ w[1] > 1
    BY <1>1, <1>2
  <2>. QED
    BY <2>1, <1>1
<1>4. ~ (v[2] < w[2])
  <2>. SUFFICES ASSUME v[2] < w[2]
                PROVE  FALSE
    OBVIOUS
  <2>1. v[2] + 1 \in 1 .. L /\ w[1] <= v[2] + 1 /\ v[2] + 1 <= w[2] /\ v[2] < L
    BY <1>1, <1>2, <1>3
  <2>. QED
    BY <2>1, <1>1
<1>5. ~ (w[2] < v[2])
  <2>. SUFFICES ASSUME w[2] < v[2]
                PROVE  FALSE
    OBVIOUS
  <2>1. w[2] + 1 \in 1 .. L /\ v[1] <= w[2] + 1 /\ w[2] + 1 <= v[2] /\ w[2] < L
    BY <1>1, <1>2, <1>3
  <2>. QED
    BY <2>1, <1>1
<1>. QED
  BY <1>1, <1>2, <1>3, <1>4, <1>5

Before(s, w) == {v \in Words(s) : v[1] < w[1]}

LEMMA NthWordIs ==
    ASSUME NEW s, NEW n, NEW w \in Words(s),
           Cardinality(Before(s, w)) = n - 1,
           \A v \in Words(s) : Cardinality(Before(s, v)) = n - 1 => v = w
    PROVE  NthWord(s, n) = SubSeq(s, w[1], w[2])
<1>. DEFINE nth == {v \in Words(s) : Cardinality(Before(s, v)) = n - 1}
<1>1. nth = {w}
  BY Zenon
<1>2. NthWord(s, n) = IF nth = {} THEN <<>>
                      ELSE LET v == CHOOSE v \in nth : TRUE IN SubSeq(s, v[1], v[2])
  BY Zenon DEF NthWord, Before
<1>. HIDE DEF nth
<1>3. (CHOOSE v \in nth : TRUE) = w
  BY <1>1
<1>. QED
  BY <1>1, <1>2, <1>3, Zenon

LEMMA NoNthWord ==
    ASSUME NEW s, NEW n, \A v \in Words(s) : Cardinality(Before(s, v)) # n - 1
    PROVE  NthWord(s, n) = <<>>
<1>1. {v \in Words(s) : Cardinality(Before(s, v)) = n - 1} = {}
  BY Zenon
<1>. QED
  BY <1>1, Zenon DEF NthWord, Before

(* Some words are the first; the one behind the first is the second.       *)
LEMMA BeforeIs ==
    ASSUME NEW s \in Seq(Printable), NEW v \in Words(s)
    PROVE  /\ v[1] \in Nat /\ v[2] \in Nat /\ v[1] <= v[2] /\ v[1] >= 1 /\ v[2] <= Len(s)
           /\ Cardinality(Before(s, v)) = 0 <=> Before(s, v) = {}
           /\ Cardinality(Before(s, v)) = 1 <=> \E u : Before(s, v) = {u}
<1>. DEFINE L == Len(s)
<1>1. L \in Nat
  OBVIOUS
<1>2. Words(s) \subseteq (1 .. L) \X (1 .. L) /\ v[1] <= v[2]
  BY Zenon DEF Words
<1>. HIDE DEF L
<1>3. IsFiniteSet((1 .. L) \X (1 .. L))
  <2>1. IsFiniteSet(1 .. L)
    BY <1>1, FS_Interval
  <2>. QED
    BY <2>1, FS_Product, Zenon
<1>4. IsFiniteSet(Before(s, v))
  <2>1. Before(s, v) \in SUBSET ((1 .. L) \X (1 .. L))
    BY <1>2, Zenon DEF Before
  <2>. QED
    BY <2>1, <1>3, FS_Subset, Zenon
<1>5. /\ Cardinality(Before(s, v)) = 0 <=> Before(s, v) = {}
      /\ Cardinality(Before(s, v)) = 1 <=> \E u : Before(s, v) = {u}
  BY <1>4, FS_EmptySet, FS_Singleton, Zenon
<1>6. v \in (1 .. L) \X (1 .. L)
  BY <1>2, Zenon
<1>7. v[1] \in Nat /\ v[2] \in Nat /\ v[1] <= v[2] /\ v[1] >= 1 /\ v[2] <= L
  BY <1>1, <1>2, <1>6
<1>. QED
  BY <1>5, <1>7, Zenon DEF L

LEMMA FirstWordIs ==
    ASSUME NEW s \in Seq(Printable), NEW w \in Words(s),
           \A v \in Words(s) : v[1] >= w[1]
    PROVE  NthWord(s, 1) = SubSeq(s, w[1], w[2])
<1>1. Before(s, w) = {}
  <2>1. \A v \in Words(s) : ~ (v[1] < w[1])
    BY BeforeIs
  <2>. QED
    BY <2>1, Zenon DEF Before
<1>2. ASSUME NEW v \in Words(s), Before(s, v) = {}
      PROVE  v = w
  <2>1. ~ (w[1] < v[1])
    BY <1>2 DEF Before
  <2>2. v[1] = w[1]
    BY <2>1, BeforeIs
  <2>3. v[1] <= w[1] /\ w[1] <= v[2]
    BY <2>2, BeforeIs
  <2>. QED
    BY <2>3, WordsApart
<1>3. Cardinality(Before(s, w)) = 0
  BY <1>1, BeforeIs, Zenon
<1>4. \A v \in Words(s) : Cardinality(Before(s, v)) = 0 => v = w
  BY <1>2, BeforeIs, Zenon
<1>5. 1 - 1 = 0
  OBVIOUS
<1>. QED
  BY <1>3, <1>4, <1>5, NthWordIs, Zenon

LEMMA SecondWordIs ==
    ASSUME NEW s \in Seq(Printable), NEW u \in Words(s),
           \A v \in Words(s) : v[1] >= u[1],
           NEW w \in Words(s), w[1] > u[1],
           \A v \in Words(s) : v[1] > u[1] => v[1] >= w[1]
    PROVE  NthWord(s, 2) = SubSeq(s, w[1], w[2])
<1>1. Before(s, w) = {u}
  <2>1. ASSUME NEW v \in Words(s), v[1] < w[1]
        PROVE  v = u
    <3>1. v[1] = u[1]
      BY <2>1, BeforeIs
    <3>2. u[1] <= v[1] /\ v[1] <= u[2]
      BY <3>1, BeforeIs
    <3>. QED
      BY <3>2, WordsApart
  <2>2. u[1] < w[1]
    BY BeforeIs
  <2>. QED
    BY <2>1, <2>2, Zenon DEF Before
<1>2. ASSUME NEW v \in Words(s), NEW x, Before(s, v) = {x}
      PROVE  v = w
  <2>1. v # u
    <3>1. \A y \in Words(s) : ~ (y[1] < u[1])
      BY BeforeIs
    <3>2. Before(s, u) = {}
      BY <3>1, Zenon DEF Before
    <3>. QED
      BY <3>2, <1>2, Zenon
  <2>2. v[1] > u[1]
    <3>1. CASE v[1] = u[1]
      <4>1. u[1] <= v[1] /\ v[1] <= u[2]
        BY <3>1, BeforeIs
      <4>. QED
        BY <4>1, <2>1, WordsApart
    <3>. QED
      BY <3>1, BeforeIs
  <2>3. u \in Before(s, v)
    <3>1. u[1] < v[1]
      BY <2>2, BeforeIs
    <3>. QED
      BY <3>1, Zenon DEF Before
  <2>4. ~ (w[1] < v[1])
    <3>1. w[1] < v[1] => w \in Before(s, v)
      BY Zenon DEF Before
    <3>2. w # u
      BY BeforeIs
    <3>. QED
      BY <3>1, <3>2, <2>3, <1>2, Zenon
  <2>5. w[1] <= v[1] /\ v[1] <= w[2]
    BY <2>2, <2>4, BeforeIs
  <2>. QED
    BY <2>5, WordsApart
<1>3. Cardinality(Before(s, w)) = 1
  BY <1>1, BeforeIs, Zenon
<1>4. \A v \in Words(s) : Cardinality(Before(s, v)) = 1 => v = w
  BY <1>2, BeforeIs, Zenon
<1>5. 2 - 1 = 1
  OBVIOUS
<1>. QED
  BY <1>3, <1>4, <1>5, NthWordIs, Zenon

(* The names boot passes on are the first two words of its arguments.      *)
LEMMA NamesAreWords ==
    ASSUME NEW s \in Seq(Printable), WordsFit(s)
    PROVE  BootNames(s) = <<NthWord(s, 1), NthWord(s, 2)>>
<1>. DEFINE k == Skipped(s)
            d == Skipped(Rest(k, Taken(k)))
<1>1. BootNames(s) = <<SubSeq(k, 1, Taken(k)), SubSeq(d, 1, Taken(d))>>
  BY Zenon DEF BootNames, Skipped, Taken
<1>2. Rest(s, 0) = s
  BY SubSeqFull DEF Rest
<1>3. Len(s) \in Nat /\ 0 \in 0 .. Len(s)
  OBVIOUS
<1>. DEFINE First(w) ==
              /\ w[1] > 0 /\ \A v \in Words(s) : v[1] > 0 => v[1] >= w[1]
              /\ SubSeq(k, 1, Taken(k)) = SubSeq(s, w[1], w[2])
              /\ Rest(k, Taken(k)) = Rest(s, w[2])
<1>4. \/ k = <<>> /\ \A v \in Words(s) : ~ (v[1] > 0)
      \/ \E w \in Words(s) : First(w)
  <2>1. ~ (0 > 0)
    OBVIOUS
  <2>. QED
    BY <1>2, <1>3, <2>1, TakeWord, Zenon
<1>5. Taken(<<>>) = 0 /\ SubSeq(<<>>, 1, 0) = <<>> /\ Rest(<<>>, 0) = <<>> /\ Skipped(<<>>) = <<>>
  <2>1. Rest(<<>>, 0) = <<>> /\ SubSeq(<<>>, 1, 0) = <<>>
    BY DEF Rest
  <2>2. <<>> \in Seq(Nat) /\ Len(<<>>) = 0
    OBVIOUS
  <2>3. Taken(<<>>) \in 0 .. 0
    BY <2>2, ArgNat, RunUpTo DEF Taken
  <2>4. Run(<<>>, {Space}, Len(<<>>)) \in 0 .. 0
    BY <2>2, RunIs
  <2>5. Taken(<<>>) = 0 /\ Run(<<>>, {Space}, Len(<<>>)) = 0
    BY <2>3, <2>4
  <2>. QED
    BY <2>1, <2>5, Zenon DEF Skipped, Space
<1>6. CASE k = <<>> /\ \A v \in Words(s) : ~ (v[1] > 0)
  <2>1. Words(s) = {}
    BY <1>6, BeforeIs
  <2>2. NthWord(s, 1) = <<>> /\ NthWord(s, 2) = <<>>
    BY <2>1, NoNthWord, Zenon
  <2>. QED
    BY <2>2, <1>1, <1>5, <1>6, Zenon
<1>7. ASSUME NEW w \in Words(s), First(w)
      PROVE  BootNames(s) = <<NthWord(s, 1), NthWord(s, 2)>>
  <2>. DEFINE t == Rest(s, w[2])
              Second(x) ==
              /\ x[1] > w[2] /\ \A v \in Words(s) : v[1] > w[2] => v[1] >= x[1]
              /\ SubSeq(d, 1, Taken(d)) = SubSeq(s, x[1], x[2])
              /\ Rest(d, Taken(d)) = Rest(s, x[2])
  <2>1. \A v \in Words(s) : v[1] >= w[1]
    BY <1>7, BeforeIs
  <2>2. SubSeq(k, 1, Taken(k)) = NthWord(s, 1)
    BY <2>1, <1>7, FirstWordIs, Zenon
  <2>3. w[2] \in 0 .. Len(s) /\ w[1] \in Nat /\ w[2] \in Nat /\ w[1] <= w[2]
    BY <1>3, BeforeIs
  <2>4. w[2] > 0 /\ w[2] < Len(s) => s[w[2] + 1] = Space
    BY Zenon DEF Words, Space
  <2>5. d = Skipped(t)
    BY <1>7, Zenon
  <2>6. \/ d = <<>> /\ \A v \in Words(s) : ~ (v[1] > w[2])
        \/ \E x \in Words(s) : Second(x)
    BY <2>3, <2>4, <2>5, TakeWord, Zenon
  <2>7. ASSUME NEW v \in Words(s), v[1] > w[1]
        PROVE  v[1] > w[2]
    <3>1. CASE v[1] <= w[2]
      <4>1. w[1] <= v[1]
        BY <2>7, BeforeIs
      <4>2. w = v
        BY <3>1, <4>1, WordsApart
      <4>. QED
        BY <4>2, <2>7, BeforeIs
    <3>. QED
      BY <3>1, <2>3, BeforeIs
  <2>8. CASE d = <<>> /\ \A v \in Words(s) : ~ (v[1] > w[2])
    <3>1. ASSUME NEW v \in Words(s)
          PROVE  Before(s, v) = {}
      <4>1. ~ (v[1] > w[1])
        BY <2>7, <2>8
      <4>2. \A u \in Words(s) : ~ (u[1] < v[1])
        BY <4>1, <2>1, BeforeIs
      <4>. QED
        BY <4>2, Zenon DEF Before
    <3>2. 2 - 1 = 1 /\ 0 # 1
      OBVIOUS
    <3>3. \A v \in Words(s) : Cardinality(Before(s, v)) # 2 - 1
      BY <3>1, <3>2, BeforeIs, Zenon
    <3>4. NthWord(s, 2) = <<>>
      BY <3>3, NoNthWord, Zenon
    <3>. QED
      BY <3>4, <2>2, <2>8, <1>1, <1>5, Zenon
  <2>9. ASSUME NEW x \in Words(s), Second(x)
        PROVE  SubSeq(d, 1, Taken(d)) = NthWord(s, 2)
    <3>1. x[1] > w[1]
      BY <2>3, <2>9, BeforeIs
    <3>2. \A v \in Words(s) : v[1] > w[1] => v[1] >= x[1]
      BY <2>7, <2>9
    <3>3. NthWord(s, 2) = SubSeq(s, x[1], x[2])
      BY <3>1, <3>2, <2>1, SecondWordIs, Zenon
    <3>. QED
      BY <3>3, <2>9, Zenon
  <2>. QED
    BY <2>2, <2>6, <2>8, <2>9, <1>1, Zenon
<1>. QED
  BY <1>4, <1>6, <1>7, Zenon

----------------------------------------------------------------------------
LEMMA InitHolds == Init => IInv
<1>. SUFFICES ASSUME Init PROVE IInv
  OBVIOUS
<1>1. CmdBufferLength \in Nat \ {0}
  BY ShellAssumption DEF ShellAssumption
<1>2. Edited
  <2>1. seen = <<>> /\ position = 0 /\ command = Empty
    BY DEF Init
  <2>. QED
    BY <1>1, <2>1 DEF Edited, Empty
<1>3. Terminated
  BY <1>1 DEF Init, Terminated, Empty
<1>4. Parsed /\ CardKnown /\ ReadsAReadyCard /\ NotYet
  BY DEF Init, Parsed, CardKnown, ReadsAReadyCard, NotYet
<1>. QED
  BY <1>2, <1>3, <1>4 DEF IInv

(* A step that leaves the line alone and does not begin a command.         *)
LEMMA LineStays ==
    ASSUME Edited, Terminated, UNCHANGED line, pc' # "command"
    PROVE  Edited' /\ Terminated' /\ Parsed'
  BY DEF Edited, Terminated, Parsed, line

(* A command that is over leaves an empty line.                            *)
LEMMA CommandEmpties ==
    ASSUME Edited, Terminated, NEW f, NEW to, to # "command", Command(f, to)
    PROVE  Edited' /\ Terminated' /\ Parsed'
<1>1. CmdBufferLength \in Nat \ {0}
  BY ShellAssumption DEF ShellAssumption
<1>2. /\ pc' # "command" /\ position' = 0 /\ seen' = <<>>
      /\ command' = [k \in 0 .. CmdBufferLength |-> IF k < CmdBufferLength THEN "NUL" ELSE command[k]]
  BY DEF Command
<1>3. \A k \in 0 .. CmdBufferLength : command[k] \in Printable \cup {"NUL"}
  BY DEF Edited
<1>4. Edited'
  BY <1>1, <1>2, <1>3 DEF Edited
<1>5. Terminated' /\ Parsed'
  BY <1>1, <1>2 DEF Terminated, Parsed
<1>. QED
  BY <1>4, <1>5

(* Each key keeps the buffer and the terminal alike.                       *)
LEMMA KeyHolds ==
    ASSUME Edited, Terminated, Key
    PROVE  Edited' /\ Terminated' /\ Parsed'
<1>1. CmdBufferLength \in Nat \ {0} /\ position \in Nat /\ Len(seen) \in Nat
  <2>1. CmdBufferLength \in Nat \ {0}
    BY ShellAssumption DEF ShellAssumption
  <2>2. position \in 0 .. CmdBufferLength /\ seen \in Seq(Printable)
    BY DEF Edited
  <2>. QED
    BY <2>1, <2>2
<1>2. pc' # "command"
  BY DEF Key
<1>3. Parsed'
  BY <1>2 DEF Parsed
<1>4. ASSUME NEW ch \in Printable, Type(ch)
      PROVE  Edited' /\ Terminated'
  <2>1. /\ position < CmdBufferLength /\ position' = position + 1
        /\ seen' = Append(seen, ch)
        /\ command' = [command EXCEPT ![position] = ch]
    BY <1>4 DEF Type, Fits
  <2>2. seen' \in Seq(Printable) /\ position' = Len(seen') /\ position' \in 0 .. CmdBufferLength
    BY <1>1, <2>1 DEF Edited
  <2>3. command' \in [0 .. CmdBufferLength -> Printable \cup {"NUL"}]
    BY <2>1 DEF Edited
  <2>4. ASSUME NEW k \in 1 .. position'
        PROVE  command'[k - 1] = seen'[k]
    <3>1. CASE k = position + 1
      BY <3>1, <1>1, <2>1 DEF Edited
    <3>2. CASE k \in 1 .. position
      BY <3>2, <1>1, <2>1 DEF Edited
    <3>3. k = position + 1 \/ k \in 1 .. position
      BY <1>1, <2>1
    <3>. QED
      BY <3>1, <3>2, <3>3, Zenon
  <2>5. Terminated'
    BY <1>1, <1>2, <2>1 DEF Edited, Terminated
  <2>. QED
    BY <2>2, <2>3, <2>4, <2>5 DEF Edited
<1>5. CASE Rub
  <2>1. /\ position \in 1 .. CmdBufferLength /\ position' = position - 1
        /\ position < CmdBufferLength
        /\ seen' = SubSeq(seen, 1, Len(seen) - 1)
        /\ command' = [command EXCEPT ![position - 1] = "NUL"]
    BY <1>1, <1>5 DEF Rub, Fits, Edited
  <2>2. /\ seen' \in Seq(Printable) /\ position' = Len(seen') /\ position' \in 0 .. CmdBufferLength
        /\ \A k \in 1 .. position' : seen'[k] = seen[k]
    BY <1>1, <2>1 DEF Edited
  <2>3. command' \in [0 .. CmdBufferLength -> Printable \cup {"NUL"}]
    BY <2>1 DEF Edited
  <2>4. ASSUME NEW k \in 1 .. position'
        PROVE  command'[k - 1] = seen'[k]
    <3>1. k \in 1 .. position /\ k - 1 \in 0 .. CmdBufferLength /\ k - 1 # position - 1
      BY <1>1, <2>1
    <3>2. command'[k - 1] = command[k - 1] /\ command[k - 1] = seen[k]
      BY <3>1, <2>1 DEF Edited
    <3>. QED
      BY <3>2, <2>2
  <2>5. Terminated'
    BY <1>1, <1>2, <2>1 DEF Edited, Terminated
  <2>6. Edited'
    <3>1. \A k \in 1 .. position' : command'[k - 1] = seen'[k]
      BY <2>4
    <3>. QED
      BY <2>2, <2>3, <3>1, Zenon DEF Edited
  <2>. QED
    BY <2>5, <2>6, <1>3
<1>6. CASE TooLong
  BY <1>1, <1>2, <1>6, <1>3 DEF TooLong, Edited, Terminated
<1>. QED
  BY <1>4, <1>5, <1>6, <1>3 DEF Key

(* Enter parses what the terminal shows.                                   *)
LEMMA EnterHolds ==
    ASSUME Edited, Terminated, Enter
    PROVE  Edited' /\ Terminated' /\ Parsed'
<1>1. /\ CmdBufferLength \in Nat \ {0} /\ position \in 0 .. CmdBufferLength
      /\ command' = [command EXCEPT ![position] = "NUL"]
      /\ position' = position /\ seen' = seen
      /\ cmd' = Split(Line(command', position))[1]
      /\ args' = Split(Line(command', position))[2]
  BY ShellAssumption DEF ShellAssumption, Edited, Enter
<1>2. \A k \in 1 .. position : command'[k - 1] = seen[k]
  BY <1>1 DEF Edited
<1>3. Line(command', position) = seen
  <2>1. seen = [k \in 1 .. position |-> seen[k]]
    BY DEF Edited
  <2>. QED
    BY <1>2, <2>1 DEF Line
<1>4. Edited'
  BY <1>1, <1>2 DEF Edited
<1>5. Terminated'
  BY <1>1 DEF Edited, Terminated
<1>6. Parsed'
  BY <1>1, <1>3 DEF Parsed
<1>. QED
  BY <1>4, <1>5, <1>6

(* sd_ret and the card after an initialisation or without one.             *)
LEMMA CardHolds ==
    ASSUME CardKnown, SdInit \/ UNCHANGED <<sd_ret, card>>
    PROVE  CardKnown'
  BY DEF CardKnown, SdInit

LEMMA NextHolds == IInv /\ [Next]_vars => IInv'
<1>. SUFFICES ASSUME IInv, [Next]_vars PROVE IInv'
  OBVIOUS
<1>. USE DEF IInv
<1>1. CASE UNCHANGED vars
  BY <1>1 DEF vars, line, parsed, Edited, Terminated, Parsed, CardKnown, ReadsAReadyCard, NotYet
<1>2. CASE SelfCheck
  <2>1. UNCHANGED line /\ pc' # "command" /\ UNCHANGED <<sd_ret, card, reads>>
    BY <1>2 DEF SelfCheck, Main
  <2>. QED
    BY <2>1, LineStays, CardHolds, <1>2 DEF ReadsAReadyCard, NotYet, SelfCheck, Main
<1>3. CASE BootFromSerial
  <2>1. UNCHANGED line /\ pc' # "command" /\ UNCHANGED <<sd_ret, card, reads>>
    BY <1>3 DEF BootFromSerial, Main
  <2>. QED
    BY <2>1, LineStays, CardHolds, <1>3 DEF ReadsAReadyCard, NotYet, BootFromSerial, Main
<1>4. CASE BootFromFile
  <2>1. UNCHANGED line /\ pc' # "command" /\ UNCHANGED <<sd_ret, card, reads>>
    BY <1>4 DEF BootFromFile
  <2>. QED
    BY <2>1, LineStays, CardHolds, <1>4 DEF ReadsAReadyCard, NotYet, BootFromFile
<1>5. CASE Key
  BY <1>5, KeyHolds, CardHolds DEF Key, ReadsAReadyCard, NotYet
<1>6. CASE Enter
  BY <1>6, EnterHolds, CardHolds DEF Enter, ReadsAReadyCard, NotYet
<1>7. CASE DebugCommand
  BY <1>7, CommandEmpties, CardHolds DEF DebugCommand, Command, ReadsAReadyCard, NotYet
<1>8. CASE InitCommand
  BY <1>8, CommandEmpties, CardHolds DEF InitCommand, Command, ReadsAReadyCard, NotYet
<1>9. CASE OtherCommand
  BY <1>9, CommandEmpties, CardHolds DEF OtherCommand, Command, ReadsAReadyCard, NotYet
<1>10. CASE BootCommand
  BY <1>10, CommandEmpties, CardHolds DEF BootCommand, Command, ReadsAReadyCard, NotYet
<1>11. CASE ReadCommand
  <2>1. Edited' /\ Terminated' /\ Parsed'
    BY <1>11, CommandEmpties DEF ReadCommand
  <2>2. CardKnown' /\ reads' = (sd_ret' = "SD_OK")
    BY <1>11, CardHolds DEF ReadCommand
  <2>3. sd_ret' = "SD_OK" => card' \in {"untried", "ready"}
    BY <2>2 DEF CardKnown
  <2>4. NotYet'
    BY <1>11 DEF NotYet, ReadCommand, Command
  <2>. QED
    BY <2>1, <2>2, <2>3, <2>4 DEF ReadsAReadyCard
<1>12. CASE BootInitCard
  <2>1. UNCHANGED line /\ pc' # "command" /\ SdInit /\ ~ reads' /\ pc' \in {"file", "returned"}
    BY <1>12 DEF BootInitCard, Main, NotYet
  <2>. QED
    BY <2>1, LineStays, CardHolds DEF ReadsAReadyCard, NotYet
<1>. QED
  BY <1>1, <1>2, <1>3, <1>4, <1>5, <1>6, <1>7, <1>8, <1>9, <1>10, <1>11, <1>12 DEF Next

LEMMA Invariant == Spec => []IInv
<1>. QED
  BY InitHolds, NextHolds, PTL DEF Spec

(* What is run is the line the terminal shows, for lines of every length.  *)
THEOREM LineIsParsed == Spec => []LineShownIsParsed
<1>1. IInv => LineShownIsParsed
  BY SplitIsExact DEF IInv, Edited, Parsed, LineShownIsParsed
<1>. QED
  BY <1>1, Invariant, PTL

(* Only the NUL of a full line goes past the buffer.                       *)
THEOREM NulSpills == Spec => []OnlyTheNulSpills
<1>1. IInv => OnlyTheNulSpills
  BY DEF IInv, Edited, Terminated, OnlyTheNulSpills
<1>. QED
  BY <1>1, Invariant, PTL

(* Once the card was tried, a command that tests sd_ret reads it only when *)
(* the last initialisation succeeded.  A card never tried is let through   *)
(* by the first value of sd_ret (main.c:49), and by the property.          *)
THEOREM CardIsReady == Spec => []ReadsAReadyCard
<1>1. IInv => ReadsAReadyCard
  BY DEF IInv
<1>. QED
  BY <1>1, Invariant, PTL

(* boot passes on the first two words of its arguments, for lines and words*)
(* of every length that the buffers hold (main.c:491-502).                 *)
THEOREM BootTakesWords == Spec => BootTakesTheWordsTyped
<1>1. ASSUME IInv, [Next]_vars
      PROVE  [BootCommand /\ (\A w \in Words(args) : w[2] - w[1] < ArgLength - 1)
              => names' = <<NthWord(args, 1), NthWord(args, 2)>>]_vars
  <2>. SUFFICES ASSUME BootCommand, WordsFit(args)
                PROVE  names' = <<NthWord(args, 1), NthWord(args, 2)>>
    BY Zenon DEF WordsFit
  <2>1. pc = "command" /\ names' = BootNames(args)
    BY DEF BootCommand, Command
  <2>2. args \in Seq(Printable)
    BY <2>1, <1>1, SplitIsExact, Zenon DEF IInv, Edited, Parsed
  <2>. QED
    BY <2>1, <2>2, NamesAreWords, Zenon
<1>2. IInv /\ [Next]_vars => [BootCommand /\ (\A w \in Words(args) : w[2] - w[1] < ArgLength - 1)
                              => names' = <<NthWord(args, 1), NthWord(args, 2)>>]_vars
  BY <1>1, Zenon
<1>. QED
  BY <1>2, Invariant, PTL DEF Spec, BootTakesTheWordsTyped
=============================================================================
