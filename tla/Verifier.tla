------------------------------ MODULE Verifier ------------------------------
(***************************************************************************)
(* The bytecode verifier of solgo (package validation): NewVerifier checks *)
(* its inputs, prepares the sources when they are not prepared and builds  *)
(* a solc compiler; Verify compiles, hex-encodes the given bytecode and    *)
(* compares it with the compiler's.  solc itself is outside: Prepare,      *)
(* NewCompiler and Compile succeed or fail nondeterministically, and a     *)
(* successful compile yields any bytecode of the small input set.  The     *)
(* diff is abstracted to whether it is empty.                              *)
(***************************************************************************)
EXTENDS Naturals, Sequences

CONSTANTS
  Bytes,        \* the byte values bytecode is made of
  MaxCode       \* bytes of a bytecode

ASSUME BoundsAssumption == Bytes \subseteq 0..255 /\ MaxCode \in Nat

\* Every []byte of at most MaxCode bytes.
Codes == UNION {[1..n -> Bytes] : n \in 0..MaxCode}

\* The code's bytes as hex digits of the given alphabet: byte j gives
\* digits 2j - 1 (high nibble) and 2j (low nibble).
Hex(digits, code) ==
  [i \in 1..(2 * Len(code)) |->
     IF i % 2 = 1 THEN digits[(code[(i + 1) \div 2] \div 16) + 1]
                  ELSE digits[(code[(i + 1) \div 2] % 16) + 1]]

\* The hex digits hex.EncodeToString writes: lower case.
Lower == <<"0", "1", "2", "3", "4", "5", "6", "7", "8", "9", "a", "b", "c", "d", "e", "f">>
\* The digits hex.EncodeToString writes.
HexDigit == {Lower[i] : i \in 1..16}
\* solc writes its bytecode in lower-case hex as well.
CompilerHex(code) == Hex(Lower, code)

Upper == <<"0", "1", "2", "3", "4", "5", "6", "7", "8", "9", "A", "B", "C", "D", "E", "F">>
\* Mutation: the bytecode is encoded in upper case.
EncodeToStringUpper(code) == Hex(Upper, code)

\* hex.EncodeToString: two lower-case digits per byte, high nibble first
EncodeToString(code) == Hex(Lower, code)

NoResult == [none |-> TRUE]
Errors == {"none", "config", "sources", "prepare", "compiler", "compile", "mismatch"}

VARIABLES
  prepared,     \* sources.ArePrepared()
  verifier,     \* NewVerifier returned a verifier
  bytecode,     \* the bytecode given to Verify, <<>> before
  compiled,     \* the bytecode the last Compile produced, <<>> before
  result,       \* the VerifyResult returned, NoResult for nil
  err           \* the error returned by the last call, "none" for nil

vars == <<prepared, verifier, bytecode, compiled, result, err>>

Init ==
  /\ prepared \in BOOLEAN
  /\ verifier = FALSE
  /\ bytecode = <<>>
  /\ compiled = <<>>
  /\ result = NoResult
  /\ err = "none"

(***************************************************************************)
(* NewVerifier: a nil config or nil sources is refused; unprepared sources *)
(* are prepared first, and a failed Prepare or NewCompiler is returned.    *)
(***************************************************************************)
\* Mutation: the sources are used as they are, never prepared.
NewVerifierNoPrepare(configSet, sourcesSet, prepareOk, compilerOk) ==
  /\ ~verifier
  /\ CASE ~configSet -> err' = "config" /\ UNCHANGED <<prepared, verifier>>
       [] ~sourcesSet -> err' = "sources" /\ UNCHANGED <<prepared, verifier>>
       [] ~compilerOk -> err' = "compiler" /\ UNCHANGED <<prepared, verifier>>
       [] OTHER -> verifier' = TRUE /\ UNCHANGED <<prepared, err>>
  /\ UNCHANGED <<bytecode, compiled, result>>

NewVerifier(configSet, sourcesSet, prepareOk, compilerOk) ==
  /\ ~verifier
  /\ CASE ~configSet -> err' = "config" /\ UNCHANGED <<prepared, verifier>>
       [] ~sourcesSet -> err' = "sources" /\ UNCHANGED <<prepared, verifier>>
       [] ~prepared /\ ~prepareOk -> err' = "prepare" /\ UNCHANGED <<prepared, verifier>>
       [] ~compilerOk -> err' = "compiler" /\ prepared' = TRUE /\ UNCHANGED verifier
       [] OTHER -> verifier' = TRUE /\ prepared' = TRUE /\ UNCHANGED err
  /\ UNCHANGED <<bytecode, compiled, result>>

(***************************************************************************)
(* Verify: a failed Compile returns its error and no result; otherwise the *)
(* hex-encoded bytecode is compared with the compiler's, and a mismatch    *)
(* returns the result with its diff together with an error.               *)
(***************************************************************************)
Verify(code, compileOk, out) ==
  /\ verifier
  /\ bytecode' = code
  /\ IF ~compileOk
     THEN /\ result' = NoResult
          /\ err' = "compile"
          /\ UNCHANGED compiled
     ELSE /\ compiled' = out
          /\ LET match == EncodeToString(code) = CompilerHex(out)
             IN /\ result' = [verified |-> match, expected |-> EncodeToString(code),
                              diffs |-> ~match]
                /\ err' = IF match THEN "none" ELSE "mismatch"
  /\ UNCHANGED <<prepared, verifier>>

Next ==
  \/ \E c, s, p, k \in BOOLEAN : NewVerifier(c, s, p, k)
  \/ \E code, out \in Codes, ok \in BOOLEAN : Verify(code, ok, out)

Spec == Init /\ [][Next]_vars

-----------------------------------------------------------------------------
TypeOK ==
  /\ prepared \in BOOLEAN /\ verifier \in BOOLEAN
  /\ bytecode \in Codes /\ compiled \in Codes
  /\ result \in {NoResult} \cup [verified: BOOLEAN, expected: Seq(HexDigit), diffs: BOOLEAN]
  /\ err \in Errors

(***************************************************************************)
(* Spec 6 (InputMissing): a verifier is only ever built on prepared        *)
(* sources, whether they came prepared or NewVerifier prepared them.       *)
(***************************************************************************)
ReadyImpliesPrepared == verifier => prepared

(***************************************************************************)
(* Verify says the bytecode is verified exactly when its bytes are the     *)
(* bytes solc produced, with an empty diff then and only then: the         *)
(* comparison of the two hex strings decides byte equality.                *)
(***************************************************************************)
VerifiedIffSameBytes ==
  result # NoResult =>
    /\ result.verified <=> bytecode = compiled
    /\ result.diffs <=> ~result.verified

(***************************************************************************)
(* Spec 6 (StandardMismatch): a bytecode that differs from the compiled    *)
(* one is returned as data with its diff, not raised as an error.          *)
(***************************************************************************)
MismatchIsData == result # NoResult => err = "none"

=============================================================================
