--------------------------- MODULE VerifierProofs ---------------------------
(***************************************************************************)
(* Proofs about the bytecode verifier for every byte set and code length:  *)
(* a verifier only exists on prepared sources, and Verify's verdict is     *)
(* byte equality.  The second rests on hex.EncodeToString being            *)
(* injective: two bytecodes with the same lower-case hex are the same.     *)
(***************************************************************************)
EXTENDS Verifier, SequenceTheorems, TLAPS

Byte == 0..255

VInv == TypeOK /\ ReadyImpliesPrepared /\ VerifiedIffSameBytes

-----------------------------------------------------------------------------
\* Every bytecode of the model is a sequence of bytes.
LEMMA CodesAreSeqs == Codes \subseteq Seq(Byte)
<1> SUFFICES ASSUME NEW c \in Codes PROVE c \in Seq(Byte)
  OBVIOUS
<1>1. PICK n \in 0..MaxCode : c \in [1..n -> Bytes]
  BY DEF Codes
<1>2. c \in [1..n -> Byte]
  BY <1>1, BoundsAssumption DEF Byte
<1>3. QED  BY <1>1, <1>2, BoundsAssumption, SeqDef

\* The two nibbles of a byte, each plus one, index the 16 hex digits.
LEMMA NibbleRange ==
  ASSUME NEW x \in Byte
  PROVE  /\ (x \div 16) + 1 \in 1..16 /\ (x % 16) + 1 \in 1..16
         /\ x \div 16 \in 0..15 /\ x % 16 \in 0..15
BY DEF Byte

\* A nibble plus one determines the nibble.
LEMMA NibbleCancel ==
  ASSUME NEW x \in 0..15, NEW y \in 0..15, x + 1 = y + 1
  PROVE  x = y
OBVIOUS

\* A byte is determined by its two nibbles.
LEMMA NibblesDetermineByte ==
  ASSUME NEW x \in Byte, NEW y \in Byte, x \div 16 = y \div 16, x % 16 = y % 16
  PROVE  x = y
BY DEF Byte

\* Two different nibbles have two different lower-case hex digits.
LEMMA LowerInjective ==
  ASSUME NEW x \in 1..16, NEW y \in 1..16, Lower[x] = Lower[y]
  PROVE  x = y
BY DEF Lower

\* Digit i of the hex text is a nibble of byte (i + 1) \div 2.
LEMMA HexDigits ==
  ASSUME NEW d, NEW a \in Seq(Byte), NEW j \in 1..Len(a)
  PROVE  /\ DOMAIN Hex(d, a) = 1..(2 * Len(a))
         /\ Hex(d, a)[2 * j - 1] = d[(a[j] \div 16) + 1]
         /\ Hex(d, a)[2 * j] = d[(a[j] % 16) + 1]
<1>1. /\ 2 * j - 1 \in 1..(2 * Len(a)) /\ (2 * j - 1) % 2 = 1 /\ ((2 * j - 1) + 1) \div 2 = j
      /\ 2 * j \in 1..(2 * Len(a)) /\ (2 * j) % 2 = 0 /\ ((2 * j) + 1) \div 2 = j
  BY LenProperties
<1>2. QED  BY <1>1 DEF Hex

\* hex.EncodeToString is injective.
LEMMA HexInjective ==
  ASSUME NEW a \in Seq(Byte), NEW b \in Seq(Byte), Hex(Lower, a) = Hex(Lower, b)
  PROVE  a = b
<1>1. Len(a) = Len(b)
  <2>1. 1..(2 * Len(a)) = 1..(2 * Len(b))
    <3>1. /\ DOMAIN Hex(Lower, a) = 1..(2 * Len(a))
          /\ DOMAIN Hex(Lower, b) = 1..(2 * Len(b))
      BY DEF Hex
    <3>2. QED  BY <3>1
  <2>2. QED  BY <2>1, LenProperties
<1>2. ASSUME NEW j \in 1..Len(a) PROVE a[j] = b[j]
  <2>1. j \in 1..Len(b)
    BY <1>1
  <2>2. a[j] \in Byte /\ b[j] \in Byte
    BY <2>1, ElementOfSeq
  <2>3. /\ Hex(Lower, a)[2 * j - 1] = Lower[(a[j] \div 16) + 1]
        /\ Hex(Lower, a)[2 * j] = Lower[(a[j] % 16) + 1]
    BY HexDigits
  <2>4. /\ Hex(Lower, b)[2 * j - 1] = Lower[(b[j] \div 16) + 1]
        /\ Hex(Lower, b)[2 * j] = Lower[(b[j] % 16) + 1]
    BY <2>1, HexDigits
  <2>5. /\ Lower[(a[j] \div 16) + 1] = Lower[(b[j] \div 16) + 1]
        /\ Lower[(a[j] % 16) + 1] = Lower[(b[j] % 16) + 1]
    BY <2>3, <2>4, Zenon
  <2>6. /\ (a[j] \div 16) + 1 \in 1..16 /\ (b[j] \div 16) + 1 \in 1..16
        /\ (a[j] % 16) + 1 \in 1..16 /\ (b[j] % 16) + 1 \in 1..16
    BY <2>2, NibbleRange
  <2>7. /\ (a[j] \div 16) + 1 = (b[j] \div 16) + 1
        /\ (a[j] % 16) + 1 = (b[j] % 16) + 1
    BY <2>5, <2>6, LowerInjective
  <2>8. /\ a[j] \div 16 \in 0..15 /\ b[j] \div 16 \in 0..15
        /\ a[j] % 16 \in 0..15 /\ b[j] % 16 \in 0..15
    BY <2>2, NibbleRange
  <2>10. a[j] \div 16 = b[j] \div 16
    BY <2>7, <2>8, NibbleCancel
  <2>11. a[j] % 16 = b[j] % 16
    BY <2>7, <2>8, NibbleCancel
  <2>12. QED  BY <2>2, <2>10, <2>11, NibblesDetermineByte
<1>3. QED  BY <1>1, <1>2, SeqEqual

-----------------------------------------------------------------------------
LEMMA InitVInv == Init => VInv
<1> SUFFICES ASSUME Init PROVE VInv
  OBVIOUS
<1>1. <<>> \in Codes
  <2>1. <<>> \in [1..0 -> Bytes] /\ 0 \in 0..MaxCode
    BY BoundsAssumption
  <2>2. QED  BY <2>1 DEF Codes
<1>2. QED
  BY <1>1 DEF Init, VInv, TypeOK, ReadyImpliesPrepared, VerifiedIffSameBytes, Errors

\* NewVerifier touches neither the bytecode nor the result.
LEMMA NewVerifierVInv ==
  ASSUME VInv, NEW c \in BOOLEAN, NEW s \in BOOLEAN, NEW p \in BOOLEAN,
         NEW k \in BOOLEAN, NewVerifier(c, s, p, k)
  PROVE  VInv'
<1>1. UNCHANGED <<bytecode, compiled, result>>
  BY DEF NewVerifier
<1>2. prepared' \in BOOLEAN /\ verifier' \in BOOLEAN /\ err' \in Errors
  BY DEF NewVerifier, VInv, TypeOK, Errors
<1>3. ReadyImpliesPrepared'
  BY DEF NewVerifier, VInv, ReadyImpliesPrepared
<1>4. QED  BY <1>1, <1>2, <1>3 DEF VInv, TypeOK, VerifiedIffSameBytes

\* Verify's verdict compares the encodings, hence the bytes.
LEMMA VerifyVInv ==
  ASSUME VInv, NEW code \in Codes, NEW out \in Codes, NEW ok \in BOOLEAN,
         Verify(code, ok, out)
  PROVE  VInv'
<1>1. UNCHANGED <<prepared, verifier>> /\ bytecode' = code
  BY DEF Verify
<1>2. ReadyImpliesPrepared'
  BY <1>1 DEF VInv, ReadyImpliesPrepared
<1>3. CASE ~ok
  <2>1. result' = NoResult /\ err' = "compile" /\ compiled' = compiled
    BY <1>3 DEF Verify
  <2>2. QED  BY <1>1, <1>2, <2>1 DEF VInv, TypeOK, VerifiedIffSameBytes, Errors
<1>4. CASE ok
  <2> DEFINE match == EncodeToString(code) = CompilerHex(out)
  <2>1. /\ compiled' = out
        /\ result' = [verified |-> match, expected |-> EncodeToString(code), diffs |-> ~match]
        /\ err' = IF match THEN "none" ELSE "mismatch"
    BY <1>4 DEF Verify
  <2>2. match <=> code = out
    <3>1. code \in Seq(Byte) /\ out \in Seq(Byte)
      BY CodesAreSeqs
    <3>2. match => code = out
      BY <3>1, HexInjective DEF EncodeToString, CompilerHex
    <3>3. QED  BY <3>2 DEF EncodeToString, CompilerHex
  <2>3. EncodeToString(code) \in Seq(HexDigit)
    <3>1. code \in Seq(Byte)
      BY CodesAreSeqs
    <3>2. \A i \in 1..(2 * Len(code)) :
             /\ (code[(i + 1) \div 2] \div 16) + 1 \in 1..16
             /\ (code[(i + 1) \div 2] % 16) + 1 \in 1..16
      <4> SUFFICES ASSUME NEW i \in 1..(2 * Len(code))
                   PROVE  code[(i + 1) \div 2] \in Byte
        BY NibbleRange
      <4>1. (i + 1) \div 2 \in 1..Len(code)
        BY <3>1, LenProperties
      <4>2. QED  BY <3>1, <4>1, ElementOfSeq
    <3>3. \A k \in 1..16 : Lower[k] \in HexDigit
      BY DEF HexDigit
    <3>4. 2 * Len(code) \in Nat
      BY <3>1, LenProperties
    <3>5. Hex(Lower, code) \in [1..(2 * Len(code)) -> HexDigit]
      BY <3>2, <3>3 DEF Hex
    <3>6. QED  BY <3>4, <3>5, SeqDef DEF EncodeToString
  <2>4. QED  BY <1>1, <1>2, <2>1, <2>2, <2>3
             DEF VInv, TypeOK, VerifiedIffSameBytes, Errors, NoResult
<1>5. QED  BY <1>3, <1>4

LEMMA NextVInv == VInv /\ [Next]_vars => VInv'
<1> SUFFICES ASSUME VInv, [Next]_vars PROVE VInv'
  OBVIOUS
<1>1. CASE \E c, s, p, k \in BOOLEAN : NewVerifier(c, s, p, k)
  BY <1>1, NewVerifierVInv
<1>2. CASE \E code, out \in Codes, ok \in BOOLEAN : Verify(code, ok, out)
  BY <1>2, VerifyVInv
<1>3. CASE UNCHANGED vars
  BY <1>3 DEF vars, VInv, TypeOK, ReadyImpliesPrepared, VerifiedIffSameBytes
<1>4. QED  BY <1>1, <1>2, <1>3 DEF Next

-----------------------------------------------------------------------------
(***************************************************************************)
(* NewVerifier, however often it fails and is retried, only returns a      *)
(* verifier once the sources are prepared.                                 *)
(***************************************************************************)
THEOREM VerifierOnPreparedSources == Spec => []ReadyImpliesPrepared
<1>1. VInv => ReadyImpliesPrepared
  BY DEF VInv
<1>2. QED  BY <1>1, InitVInv, NextVInv, PTL DEF Spec

(***************************************************************************)
(* Verify reports a bytecode verified exactly when its bytes are the bytes *)
(* solc compiled, the diff being empty then and only then, whatever the    *)
(* bytes and their number.                                                 *)
(***************************************************************************)
THEOREM VerdictIsByteEquality == Spec => []VerifiedIffSameBytes
<1>1. VInv => VerifiedIffSameBytes
  BY DEF VInv
<1>2. QED  BY <1>1, InitVInv, NextVInv, PTL DEF Spec

=============================================================================
