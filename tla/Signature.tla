----------------------------- MODULE Signature -----------------------------
(***************************************************************************)
(* selfcheck_verify_signature: the SHA-256 digest of the image, and the    *)
(* check of its RSA signature with Montgomery multiplication on numbers of *)
(* Limbs words (sha256.c, bignum2048.c, bn_montgomery.c, rsa_pkcs1.c).     *)
(*                                                                         *)
(* The widths are parameters: a byte has Byte values, a word LimbBytes     *)
(* bytes.  The compression function of SHA-256 is left out: of the blocks  *)
(* it is given (hashed) comes some digest.                                 *)
(***************************************************************************)
EXTENDS Integers, SequencesExt, FiniteSetsExt

CONSTANTS
    Byte, LimbBytes, Limbs,
    NewtonSteps,       \* 4 for words of 32 bits
    ExpBits,           \* bits of the exponent, 32
    MinPadding,        \* 8
    Prefix,            \* the DigestInfo of SHA-256
    DigestSize,
    Block, LenBytes,   \* of SHA-256: 64 and 8 bytes
    Lengths,           \* how long the image may be
    Digests,           \* what it may hash to
    Keys,              \* the public keys [n, e], n a number
    Signatures         \* the signatures that may be in the image, as numbers

(* A power, as far as proofs can follow it.                                *)
Pow(b, e) ==
    LET p[k \in 0 .. e] == IF k = 0 THEN 1 ELSE p[k - 1] * b
    IN  p[e]

Word == Pow(Byte, LimbBytes)
Bytes == Limbs * LimbBytes
BitsPerByte == CHOOSE b \in 1 .. Byte : Pow(2, b) = Byte
Bits == Bytes * BitsPerByte

ASSUME SignatureAssumption ==
    /\ {Byte, LimbBytes, Limbs, Block, LenBytes, DigestSize} \subseteq Nat \ {0}
    /\ Byte >= 4 /\ \E b \in 1 .. Byte : Pow(2, b) = Byte
    /\ LenBytes < Block /\ Prefix \in Seq(0 .. (Byte - 1))
    /\ {NewtonSteps, ExpBits, MinPadding} \subseteq Nat
    /\ Lengths \subseteq Nat /\ Signatures \subseteq Nat
    /\ LimbBytes * BitsPerByte <= 3 * Pow(2, NewtonSteps)
    /\ Bytes >= 3 + MinPadding + Len(Prefix) + DigestSize
    /\ Digests \subseteq [1 .. DigestSize -> 0 .. (Byte - 1)]
    /\ \A q \in Keys :
          q.n \in 0 .. (Pow(Byte, Bytes) - 1) /\ q.e \in 0 .. (Pow(2, ExpBits) - 1)

VARIABLES
    pc,
    size,              \* region_len, the length of the image
    left,              \* bytes of the image sha256_update has yet to take
    hashed,            \* the blocks given to sha256_transform
    buffer,            \* ctx.buffer, with buffer_len as its length
    digest,
    key, n,            \* the public key, and its modulus as a bignum
    n0_inv, r2,        \* of bn_mont_ctx_t; r2 is acc while it is computed
    i,                 \* the loop counter of r2's loop, then modexp's
    s,                 \* the signature as a bignum
    base, acc,         \* base_mont and acc_mont
    result             \* what verify returned

sha == <<size, left, hashed, buffer, digest>>
ctx == <<key, n, n0_inv, r2>>
vars == <<pc, sha, ctx, i, s, base, acc, result>>

-----------------------------------------------------------------------------
(* bignum2048.c: a number is the sequence of its words, the least          *)
(* significant first.                                                      *)
Zero == [k \in 1 .. Limbs |-> 0]
One == [Zero EXCEPT ![1] = 1]

(* Bytes are given most significant first.                                 *)
FromBytes(buf) ==
    [k \in 1 .. Limbs |->
        LET v[j \in 0 .. LimbBytes] ==
                IF j = 0 THEN 0 ELSE v[j - 1] * Byte + buf[Bytes - k * LimbBytes + j]
        IN  v[LimbBytes]]

ToBytes(a) ==
    [b \in 1 .. Bytes |->
        LET up == Bytes - b
        IN  (a[1 + (up \div LimbBytes)] \div Pow(Byte, up % LimbBytes)) % Byte]

AtLeast(a, b) ==
    LET differ == {k \in 1 .. Limbs : a[k] # b[k]}
    IN  differ = {} \/ a[Max(differ)] > b[Max(differ)]

Sub(a, b) ==
    LET step[k \in 0 .. Limbs] ==
            IF k = 0 THEN [words |-> <<>>, borrow |-> 0]
            ELSE LET prev == step[k - 1]
                     owed == b[k] + prev.borrow
                 IN  [words |-> Append(prev.words, (a[k] + (Word - owed)) % Word),
                      borrow |-> IF a[k] >= owed THEN 0 ELSE 1]
    IN  step[Limbs].words

SubIfGe(a, b) == IF AtLeast(a, b) THEN Sub(a, b) ELSE a

-----------------------------------------------------------------------------
(* bn_montgomery.c.                                                        *)
(* -1/n0 modulo Word, each step doubling the bits that are right.          *)
N0Inv(n0) ==
    LET x[k \in 0 .. NewtonSteps] ==
            IF k = 0 THEN n0 ELSE LET y == x[k - 1] IN (y * (2 - n0 * y)) % Word
    IN  (0 - x[NewtonSteps]) % Word

(* Twice a modulo m: what leaves the top word is more than m.              *)
Double(a, m) ==
    LET out(k) == IF k = 0 THEN 0 ELSE a[k] \div (Word \div 2)
        shifted == [k \in 1 .. Limbs |-> ((2 * a[k]) % Word) + out(k - 1)]
    IN  IF out(Limbs) = 1 THEN Sub(shifted, m) ELSE SubIfGe(shifted, m)

(* The array t has a last word for the carry; the word after it is not its.*)
Top == 2 * Limbs + 1

(* Mutant: the carry beyond the multiplier's words is dropped.             *)
AddMulShort(t, row, x, b) ==
    LET step[k \in 0 .. (Top + 1)] ==
            IF k = 0 THEN [words |-> <<>>, carry |-> 0]
            ELSE LET prev == step[k - 1]
                     term == IF k \in (row + 1) .. (row + Limbs) THEN x * b[k - row] ELSE 0
                     sum == term + t[k] + (IF k <= row + Limbs THEN prev.carry ELSE 0)
                 IN  [words |-> Append(prev.words, sum % Word), carry |-> sum \div Word]
    IN  step[Top + 1].words

(* t + x * b shifted by row words, the carry passed on as far as it goes.  *)
AddMul(t, row, x, b) ==
    LET step[k \in 0 .. (Top + 1)] ==
            IF k = 0 THEN [words |-> <<>>, carry |-> 0]
            ELSE LET prev == step[k - 1]
                     term == IF k \in (row + 1) .. (row + Limbs) THEN x * b[k - row] ELSE 0
                     sum == term + t[k] + prev.carry
                 IN  [words |-> Append(prev.words, sum % Word), carry |-> sum \div Word]
    IN  step[Top + 1].words

(* The words of t after the outer loop: each round adds a row of the       *)
(* product and then the multiple of n that clears the row's lowest word.   *)
Rows(a, b, m, inv) ==
    LET t[row \in 0 .. Limbs] ==
            IF row = 0 THEN [k \in 1 .. (Top + 1) |-> 0]
            ELSE LET u == AddMul(t[row - 1], row - 1, a[row], b)
                 IN  AddMul(u, row - 1, (u[row] * inv) % Word, m)
    IN  t[Limbs]

MontMul(a, b, m, inv) ==
    LET t == Rows(a, b, m, inv)
        high == SubSeq(t, Limbs + 1, 2 * Limbs)
    IN  IF t[Top] # 0 THEN Sub(high, m) ELSE SubIfGe(high, m)

Times(a, b) == MontMul(a, b, n, n0_inv)

Bit(e, k) == (e \div Pow(2, k)) % 2

-----------------------------------------------------------------------------
(* A byte of the image stands for itself, apart from the padding's bytes.  *)
ImageByte(k) == Byte + k
ToBig(x) == [k \in 1 .. Limbs |-> (x \div Pow(Word, k - 1)) % Word]

Init ==
    /\ pc = "update"
    /\ size \in Lengths /\ left = size
    /\ hashed = <<>> /\ buffer = <<>> /\ digest = <<>>
    /\ key \in Keys /\ n = ToBig(key.n)
    /\ n0_inv = 0 /\ r2 = Zero /\ i = 0
    /\ s = Zero /\ base = Zero /\ acc = Zero
    /\ result = "none"

(* sha256_update: the buffer is filled, and passed on when it is full.  The*)
(* image is counted from its end.                                          *)
Update ==
    /\ pc = "update" /\ left > 0
    /\ LET copy == Min({Block - Len(buffer), left})
           b == buffer \o [k \in 1 .. copy |-> ImageByte(left - k)]
       IN  /\ left' = left - copy
           /\ IF Len(b) = Block THEN hashed' = Append(hashed, b) /\ buffer' = <<>>
                                ELSE hashed' = hashed /\ buffer' = b
    /\ UNCHANGED <<pc, size, digest, ctx, i, s, base, acc, result>>

(* total_bits in big endian.                                               *)
LengthBytes(total) == [k \in 1 .. LenBytes |-> (total \div Pow(Byte, LenBytes - k)) % Byte]

Zeros(count) == [k \in 1 .. count |-> 0]

(* Mutant: a length that just fits is put in a block of its own.           *)
PadLate(b, total) ==
    LET marked == Append(b, Byte \div 2)
        room == Block - LenBytes
    IN  IF Len(marked) >= room
          THEN <<marked \o Zeros(Block - Len(marked)), Zeros(room) \o LengthBytes(total)>>
          ELSE <<marked \o Zeros(room - Len(marked)) \o LengthBytes(total)>>

(* The end of the message in one block or two.                             *)
Pad(b, total) ==
    LET marked == Append(b, Byte \div 2)
        room == Block - LenBytes
    IN  IF Len(marked) > room
          THEN <<marked \o Zeros(Block - Len(marked)), Zeros(room) \o LengthBytes(total)>>
          ELSE <<marked \o Zeros(room - Len(marked)) \o LengthBytes(total)>>

Final ==
    /\ pc = "update" /\ left = 0
    /\ hashed' = hashed \o Pad(buffer, (Len(hashed) * Block + Len(buffer)) * BitsPerByte)
    /\ buffer' = <<>>
    /\ pc' = "digest"
    /\ UNCHANGED <<size, left, digest, ctx, i, s, base, acc, result>>

(* The digest is all that is kept of the image.                            *)
Digested ==
    /\ pc = "digest" /\ pc' = "key"
    /\ digest' \in Digests
    /\ hashed' = <<>> /\ size' = 0
    /\ UNCHANGED <<left, buffer, ctx, i, s, base, acc, result>>

Return(code) == pc' = "out" /\ result' = code

(* rsa_pkcs1_v15_verify_sha256, with bn_mont_init.                         *)
BadKey ==
    /\ pc = "key"
    /\ n = Zero \/ n[1] % 2 = 0
    /\ Return("BAD_KEY")
    /\ UNCHANGED <<sha, ctx, i, s, base, acc>>

MontInit ==
    /\ pc = "key" /\ pc' = "r2"
    /\ n # Zero /\ n[1] % 2 = 1
    /\ n0_inv' = N0Inv(n[1])
    /\ r2' = SubIfGe(One, n) /\ i' = 0
    /\ UNCHANGED <<sha, key, n, s, base, acc, result>>

R2Step ==
    /\ pc = "r2" /\ i < 2 * Bits
    /\ r2' = Double(r2, n) /\ i' = i + 1
    /\ UNCHANGED <<pc, sha, key, n, n0_inv, s, base, acc, result>>

(* Mutant: a signature that is not reduced is let in.                      *)
AdmitsAny(x) == TRUE

Admits(x) == ~AtLeast(x, n)

(* The signature is read, and modexp begins at the exponent's first 1.     *)
ReadSignature ==
    /\ pc = "r2" /\ i = 2 * Bits
    /\ \E x \in Signatures : s' = FromBytes(ToBytes(ToBig(x)))
    /\ IF Admits(s')
         THEN /\ base' = Times(s', r2) /\ acc' = Times(One, r2)
              /\ i' = IF key.e = 0 THEN 0
                      ELSE 1 + Max({k \in 0 .. (ExpBits - 1) : Bit(key.e, k) = 1})
              /\ pc' = "modexp" /\ UNCHANGED result
         ELSE Return("BAD_PADDING") /\ UNCHANGED <<base, acc, i>>
    /\ UNCHANGED <<sha, ctx>>

(* One bit of the exponent.                                                *)
ModexpStep ==
    /\ pc = "modexp" /\ i > 0
    /\ LET square == Times(acc, acc)
       IN  acc' = IF Bit(key.e, i - 1) = 1 THEN Times(square, base) ELSE square
    /\ i' = i - 1
    /\ UNCHANGED <<pc, sha, ctx, s, base, result>>

(* The first failing check of the padding decides.                         *)
Verdict(em) ==
    LET zeros == {k \in 3 .. Bytes : em[k] = 0}
        end == Min(zeros)
        rest == SubSeq(em, end + 1, Bytes)
        badPadding ==
            \/ em[1] # 0 \/ em[2] # 1
            \/ zeros = {}
            \/ \E k \in 3 .. (end - 1) : em[k] # Byte - 1
            \/ end - 3 < MinPadding
        badDigestInfo ==
            \/ Len(rest) # Len(Prefix) + DigestSize
            \/ SubSeq(rest, 1, Len(Prefix)) # Prefix
    IN  IF badPadding THEN "BAD_PADDING"
        ELSE IF badDigestInfo THEN "BAD_DIGEST_INFO"
        ELSE IF SubSeq(rest, Len(Prefix) + 1, Len(rest)) # digest THEN "MISMATCH"
        ELSE "OK"

(* m: the power back out of Montgomery form; an exponent 0 never went in.  *)
Power == IF key.e = 0 THEN One ELSE Times(acc, One)

CheckPadding ==
    /\ pc = "modexp" /\ i = 0
    /\ Return(Verdict(ToBytes(Power)))
    /\ UNCHANGED <<sha, ctx, i, s, base, acc>>

Next ==
    \/ Update \/ Final \/ Digested
    \/ BadKey \/ MontInit \/ R2Step \/ ReadSignature \/ ModexpStep \/ CheckPadding

Spec == Init /\ [][Next]_vars

-----------------------------------------------------------------------------
(* The number that the lowest count words of a bignum stand for, and a     *)
(* power by repeated multiplication.                                       *)
ValueOf(a, count) ==
    LET v[k \in 0 .. count] == IF k = 0 THEN 0 ELSE v[k - 1] + a[k] * Pow(Word, k - 1)
    IN  v[count]
Value(a) == ValueOf(a, Limbs)

PowerMod(x, e) ==
    LET p[k \in 0 .. e] == IF k = 0 THEN 1 % key.n ELSE (p[k - 1] * x) % key.n
    IN  p[e]

R == Pow(Word, Limbs)

(* What sha256 compresses is the message padded as FIPS 180-4 says: the    *)
(* image, a 1 bit, the least zeros that make whole blocks, and the length. *)
HashesThePaddedImage ==
    pc = "digest" =>
        LET image == [k \in 1 .. size |-> ImageByte(size - k)]
            zeros == CHOOSE z \in 0 .. (Block - 1) : (size + 1 + z + LenBytes) % Block = 0
            padded == image \o <<Byte \div 2>> \o Zeros(zeros) \o LengthBytes(size * BitsPerByte)
        IN  FlattenSeq(hashed) = padded /\ \A k \in DOMAIN hashed : Len(hashed[k]) = Block

(* Every product is exact: in each round of modexp acc is the power of the *)
(* signature by the exponent's bits so far, in Montgomery form and reduced,*)
(* and no carry of a product leaves the words of t.                        *)
RoundsArePowers ==
    pc = "modexp" =>
        /\ Value(base) = (Value(s) * (R % key.n)) % key.n
        /\ Value(acc) = (PowerMod(Value(s), key.e \div Pow(2, i)) * (R % key.n)) % key.n
        /\ \A x, y \in {acc, base, One} : Rows(x, y, n, n0_inv)[Top + 1] = 0

(* The image passes exactly when its signature, a number below n, has the  *)
(* e-th power that encodes the digest as PKCS#1 v1.5 says.                 *)
Encoded ==
    <<0, 1>> \o [k \in 1 .. (Bytes - 3 - Len(Prefix) - DigestSize) |-> Byte - 1]
             \o <<0>> \o Prefix \o digest

PassesExactlyTheSigned ==
    pc = "out" =>
        (result = "OK") =
            /\ key.n % 2 = 1
            /\ Value(s) < key.n
            /\ PowerMod(Value(s), key.e) = Value(FromBytes(Encoded))
=============================================================================
