--------------------------- MODULE TypeNormalizer ---------------------------
(***************************************************************************)
(* The type-name helpers of solgo's abis package (abis/helpers.go):        *)
(* normalizeTypeName, normalizeTypeNameWithStatus and parseMappingType.    *)
(* A type name is a sequence of tokens: "[", "]", N (a run of digits, what *)
(* \d+ matches) and words (a run of \w characters, kept as one token, so   *)
(* no two words or numbers are adjacent).  strings.Index is the first      *)
(* position of a token, a slice is SubSeq, + is \o, and the regular        *)
(* expressions are matched by what they accept on these tokens.  A mapping *)
(* text adds the tokens "mapping(", "=>" and ")".                          *)
(*                                                                         *)
(* The state is one call: the argument, chosen among all short inputs, and *)
(* the result once the call has returned.                                  *)
(***************************************************************************)
EXTENDS Naturals, Sequences, SequencesExt

CONSTANTS
  MaxLen,       \* tokens of a type name passed to the normalizers
  MaxDepth      \* nesting depth of a mapping text

ASSUME BoundsAssumption == MaxLen \in Nat /\ MaxDepth \in Nat \ {0}

N == "N"                 \* a run of digits
Panic == <<"panic">>     \* the call panicked (slice bounds out of range)

UintWords == {"uint", "uint8", "uint256"}     \* words with prefix "uint"
IntWords == {"int", "int8", "int256"}         \* words with prefix "int"
BoolWords == {"bool"}
BytesWords == {"bytes32"}
NamedWords == {"string", "address", "addresspayable", "tuple"}
UserWords == {"Foo", "mappingInfo"}           \* user-defined type names
Words == UintWords \cup IntWords \cup BoolWords \cup BytesWords \cup NamedWords \cup UserWords

Tokens == Words \cup {"[", "]", N, "mapping(", "=>", ")"}

\* strings.Contains(name, "mapping") for one token
HasMapping(t) == t \in {"mapping(", "mappingInfo"}

\* No two tokens of \w characters are adjacent: they would be one token.
WellFormed(s) ==
  \A i \in 1..(Len(s) - 1) : ~(s[i] \in Words \cup {N} /\ s[i + 1] \in Words \cup {N})

TypeAlphabet == {"[", "]", N, "uint", "uint8", "int", "bool", "bytes32",
                 "string", "address", "addresspayable", "Foo"}
TypeInputs == {s \in SeqOf(TypeAlphabet, MaxLen) : WellFormed(s)}

\* strings.Index(typeName, t), 1-based, 0 when absent
Index(s, t) == SelectInSeq(s, LAMBDA x : x = t)

\* regexp.MatchString(`\[\d+\]`, typeName): anywhere in the name
IsArray(s) == \E i \in 1..(Len(s) - 2) : s[i] = "[" /\ s[i + 1] = N /\ s[i + 2] = "]"
\* strings.HasPrefix(typeName, "[]")
IsSlice(s) == Len(s) >= 2 /\ s[1] = "[" /\ s[2] = "]"
\* strings.HasPrefix(typeName, p) for the word prefixes of the switch
HasPrefix(s, P) == Len(s) >= 1 /\ s[1] \in P

\* "[" + r, or the panic that r carries
Prefixed(p, r) == IF r = Panic THEN Panic ELSE p \o r

\* The elementary arms of normalizeTypeName's switch, after the array arms.
ElementaryName(s) ==
  IF HasPrefix(s, UintWords) THEN IF s = <<"uint">> THEN <<"uint256">> ELSE s
  ELSE IF HasPrefix(s, IntWords) THEN IF s = <<"int">> THEN <<"int256">> ELSE s
  ELSE IF s = <<"addresspayable">> THEN <<"address">>
  ELSE s

\* Mutation: the rest of an array name keeps its closing bracket.
TypePartKeepsBracket(s) == SubSeq(s, Index(s, "]"), Len(s))

\* typeName[strings.Index(typeName, "]")+1:]
TypePart(s) == SubSeq(s, Index(s, "]") + 1, Len(s))
\* "[" + typeName[strings.Index(typeName, "[")+1 : strings.Index(typeName, "]")] + "]"
NumberPart(s) == <<"[">> \o SubSeq(s, Index(s, "[") + 1, Index(s, "]") - 1) \o <<"]">>
\* the slice low bound passes the high bound: Go panics
SliceOutOfRange(s) == Index(s, "]") < Index(s, "[")

RECURSIVE NormalizeTypeName(_)
NormalizeTypeName(s) ==
  IF IsArray(s)
  THEN IF SliceOutOfRange(s) THEN Panic
       ELSE Prefixed(NumberPart(s), NormalizeTypeName(TypePart(s)))
  ELSE IF IsSlice(s) THEN Prefixed(<<"[", "]">>, NormalizeTypeName(SubSeq(s, 3, Len(s))))
  ELSE ElementaryName(s)

\* Mutation: the copy in normalizeTypeNameWithStatus lost the addresspayable arm.
ElementaryWithStatusNoPayable(s) ==
  IF HasPrefix(s, UintWords) THEN <<IF s = <<"uint">> THEN <<"uint256">> ELSE s, TRUE>>
  ELSE IF HasPrefix(s, IntWords) THEN <<IF s = <<"int">> THEN <<"int256">> ELSE s, TRUE>>
  ELSE IF HasPrefix(s, BoolWords \cup BytesWords) THEN <<s, TRUE>>
  ELSE IF s \in {<<"string">>, <<"address">>, <<"tuple">>} THEN <<s, TRUE>>
  ELSE <<s, FALSE>>

\* The elementary arms of normalizeTypeNameWithStatus, with the status.
ElementaryWithStatus(s) ==
  IF HasPrefix(s, UintWords) THEN <<IF s = <<"uint">> THEN <<"uint256">> ELSE s, TRUE>>
  ELSE IF HasPrefix(s, IntWords) THEN <<IF s = <<"int">> THEN <<"int256">> ELSE s, TRUE>>
  ELSE IF HasPrefix(s, BoolWords \cup BytesWords) THEN <<s, TRUE>>
  ELSE IF s = <<"addresspayable">> THEN <<<<"address">>, TRUE>>
  ELSE IF s \in {<<"string">>, <<"address">>, <<"tuple">>} THEN <<s, TRUE>>
  ELSE <<s, FALSE>>

Recognized(r) == IF r = Panic THEN Panic ELSE <<r, TRUE>>

\* The array arms recurse through normalizeTypeName, not through itself.
NormalizeTypeNameWithStatus(s) ==
  IF IsArray(s)
  THEN IF SliceOutOfRange(s) THEN Panic
       ELSE Recognized(Prefixed(NumberPart(s), NormalizeTypeName(TypePart(s))))
  ELSE IF IsSlice(s) THEN Recognized(Prefixed(<<"[", "]">>, NormalizeTypeName(SubSeq(s, 3, Len(s)))))
  ELSE ElementaryWithStatus(s)

(***************************************************************************)
(* parseMappingType: the leftmost match of                                 *)
(* `mapping\((\w+)\s*=>\s*(.+)\)`, whose greedy (.+) runs to the last ")"; *)
(* a value that contains "mapping" is parsed again and its keys appended,  *)
(* its values taking the place of the value whatever its ok flag says.     *)
(***************************************************************************)
MatchAt(s, i) ==
  /\ s[i] = "mapping(" /\ i + 4 <= Len(s)
  /\ s[i + 1] \in Words /\ s[i + 2] = "=>"
  /\ \E j \in (i + 4)..Len(s) : s[j] = ")"

\* strings.Contains(name, "mapping")
IsMappingType(s) == \E i \in 1..Len(s) : HasMapping(s[i])

NoMatch == <<FALSE, <<>>, <<>>>>

\* Mutation: the key is read from the value's capture group.
MappingKeyFromValueGroup(s, i, j) == SubSeq(s, i + 3, j - 1)

\* matches[1] and matches[2] of the match at i whose ")" is at j
MappingKey(s, i, j) == s[i + 1]
MappingValue(s, i, j) == SubSeq(s, i + 3, j - 1)

\* Mutation: the nested keys replace the outer key instead of following it.
NestedKeysReplace(key, nested) == nested[2]

\* input = append(input, nestedInput...)
NestedKeys(key, nested) == <<key>> \o nested[2]

RECURSIVE ParseMappingType(_)
ParseMappingType(s) ==
  LET starts == {i \in 1..Len(s) : MatchAt(s, i)}
  IN IF starts = {} THEN NoMatch
     ELSE LET i == Min(starts)
              j == SelectLastInSubSeq(s, i + 4, Len(s), LAMBDA t : t = ")")
              key == MappingKey(s, i, j)
              value == MappingValue(s, i, j)
          IN IF IsMappingType(value)
             THEN LET nested == ParseMappingType(value)
                  IN <<TRUE, NestedKeys(key, nested), nested[3]>>
             ELSE <<TRUE, <<key>>, <<value>>>>

\* The text of mapping(k1 => mapping(k2 => ... v)).
RECURSIVE MappingText(_, _)
MappingText(keys, v) ==
  IF keys = <<>> THEN v
  ELSE <<"mapping(", Head(keys), "=>">> \o MappingText(Tail(keys), v) \o <<")">>

(***************************************************************************)
(* Spec 4.1, the reference normalize: the array rule is anchored,          *)
(* ^\[(\d+)\]<rest>, and every other name goes to the elementary rules.   *)
(***************************************************************************)
SpecRenames == [uint |-> "uint256", int |-> "int256", addresspayable |-> "address"]

RECURSIVE SpecNormalize(_)
SpecNormalize(s) ==
  IF Len(s) >= 3 /\ s[1] = "[" /\ s[2] = N /\ s[3] = "]"
  THEN <<"[", N, "]">> \o SpecNormalize(SubSeq(s, 4, Len(s)))
  ELSE IF IsSlice(s) THEN <<"[", "]">> \o SpecNormalize(SubSeq(s, 3, Len(s)))
  ELSE IF Len(s) = 1 /\ s[1] \in DOMAIN SpecRenames THEN <<SpecRenames[s[1]]>>
  ELSE s

(***************************************************************************)
(* normalizeStructTypeName and isStructType.  definedStructs is the set of *)
(* its keys; strings.TrimRight(typeName, "[]") drops every trailing "[" and *)
(* "]" character, one by one, so on tokens it drops trailing brackets.     *)
(***************************************************************************)
Brackets == {"[", "]"}
\* the position of the last token that is not a bracket, 0 when none
LastNonBracket(s) ==
  IF \E i \in 1..Len(s) : s[i] \notin Brackets
  THEN Max({i \in 1..Len(s) : s[i] \notin Brackets})
  ELSE 0
\* strings.TrimRight(typeName, "[]")
TrimRightBrackets(s) == SubSeq(s, 1, LastNonBracket(s))
\* strings.HasSuffix(typeName, "[]")
HasSliceSuffix(s) == Len(s) >= 2 /\ s[Len(s) - 1] = "[" /\ s[Len(s)] = "]"
\* strings.TrimSuffix(typeName, "[]")
TrimSliceSuffix(s) == IF HasSliceSuffix(s) THEN SubSeq(s, 1, Len(s) - 2) ELSE s

\* Mutation: the name is looked up as it is, brackets and all.
IsStructTypeUntrimmed(definedStructs, s) == s \in definedStructs

\* isStructType
IsStructType(definedStructs, s) == TrimRightBrackets(s) \in definedStructs

\* normalizeStructTypeName
NormalizeStructTypeName(definedStructs, s) ==
  IF HasSliceSuffix(s) /\ IsStructType(definedStructs, TrimSliceSuffix(s))
  THEN <<"tuple", "[", "]">>
  ELSE <<"tuple">>

\* The AbiParser's struct registry, and struct-typed names as solc writes
\* them: a type and up to two dimensions, each a slice or a fixed size.
DefinedStructs == {<<"Foo">>}
Dims == {<<>>, <<"[", "]">>, <<"[", N, "]">>}
StructInputs == {<<w>> \o d1 \o d2 : w \in {"Foo", "uint"}, d1 \in Dims, d2 \in Dims}

KeyWords == {"address", "uint256"}
ValueTypes == {<<"bytes32">>, <<"uint", "[", "]">>, <<"mappingInfo">>}
MappingInputs == [keys: SeqOf(KeyWords, MaxDepth), value: ValueTypes]

-----------------------------------------------------------------------------
VARIABLES
  call,     \* the function called: "normalize", "status" or "mapping"
  arg,      \* its argument: a type name, or the keys and value of a mapping
  result    \* what it returned, NotCalled before it returns

vars == <<call, arg, result>>

NotCalled == <<"none">>

Init ==
  \/ /\ call \in {"normalize", "status"}
     /\ arg \in TypeInputs
     /\ result = NotCalled
  \/ /\ call = "mapping"
     /\ arg \in MappingInputs
     /\ result = NotCalled
  \/ /\ call = "struct"
     /\ arg \in StructInputs
     /\ result = NotCalled

Normalize ==
  /\ call = "normalize" /\ result = NotCalled
  /\ result' = NormalizeTypeName(arg)
  /\ UNCHANGED <<call, arg>>

NormalizeWithStatus ==
  /\ call = "status" /\ result = NotCalled
  /\ result' = NormalizeTypeNameWithStatus(arg)
  /\ UNCHANGED <<call, arg>>

ParseMapping ==
  /\ call = "mapping" /\ result = NotCalled
  /\ result' = ParseMappingType(MappingText(arg.keys, arg.value))
  /\ UNCHANGED <<call, arg>>

NormalizeStruct ==
  /\ call = "struct" /\ result = NotCalled
  /\ result' = NormalizeStructTypeName(DefinedStructs, arg)
  /\ UNCHANGED <<call, arg>>

Next == Normalize \/ NormalizeWithStatus \/ ParseMapping \/ NormalizeStruct

Spec == Init /\ [][Next]_vars

-----------------------------------------------------------------------------
TypeOK ==
  /\ call \in {"normalize", "status", "mapping", "struct"}
  /\ arg \in IF call = "mapping" THEN MappingInputs ELSE Seq(Tokens)
  /\ \/ result \in {NotCalled, Panic}
     \/ call \in {"normalize", "struct"} /\ result \in Seq(Tokens)
     \/ call = "status" /\ result \in Seq(Tokens) \X BOOLEAN
     \/ call = "mapping" /\ result \in BOOLEAN \X Seq(Words) \X Seq(Seq(Tokens))

Returned == result # NotCalled

(***************************************************************************)
(* Spec P1: normalizeTypeName is idempotent: a name it returned is         *)
(* returned unchanged when normalized again (the ABI emitter normalizes    *)
(* names that were normalized when the AST was built).                     *)
(***************************************************************************)
Idempotent ==
  call = "normalize" /\ Returned /\ result # Panic =>
    NormalizeTypeName(result) = result

(***************************************************************************)
(* Spec 4.1: normalizeTypeNameWithStatus is normalizeTypeName with a       *)
(* status: its name is the one normalizeTypeName returns, for every input  *)
(* (the two switches are separate copies of the same rules).               *)
(***************************************************************************)
StatusAgrees ==
  call = "status" /\ Returned /\ result # Panic =>
    result[1] = NormalizeTypeName(arg)

(***************************************************************************)
(* Spec 4.1 and S5: parseMappingType flattens nested mappings, every key   *)
(* accumulating left to right.                                             *)
(***************************************************************************)
MappingKeysFlattened ==
  call = "mapping" /\ Returned => result[2] = arg.keys

(***************************************************************************)
(* Spec 4.1 and 7 (an array of structs is emitted as tuple[]), as the      *)
(* code's TrimRight decides it: normalizeStructTypeName says tuple[]       *)
(* exactly for a defined struct followed by slices only, Foo[][] included  *)
(* (its inner dimension is lost); a fixed dimension anywhere, as in        *)
(* Foo[3][], or a type that is no struct, gives tuple.                     *)
(***************************************************************************)
StructArrayClassified ==
  call = "struct" /\ Returned =>
    (result = <<"tuple", "[", "]">> <=>
       \E b \in DefinedStructs : arg \in {b \o <<"[", "]">>, b \o <<"[", "]", "[", "]">>})

(***************************************************************************)
(* Spec 4.1: normalize is total: normalizeTypeName returns for every name. *)
(* Its slices panic when the first "]" precedes the first "[".             *)
(***************************************************************************)
NormalizeTotal == call = "normalize" => result # Panic

(***************************************************************************)
(* Spec 4.1: normalizeTypeName follows the anchored rules, so the element  *)
(* type of "uint256[3]" survives.  The code's regular expression is not    *)
(* anchored and its slices start at the first "[".                         *)
(***************************************************************************)
NormalizeMatchesSpec ==
  call = "normalize" /\ Returned => result = SpecNormalize(arg)

(***************************************************************************)
(* Spec 4.1 and R2: parseMappingType returns the innermost value of a      *)
(* mapping.  A value whose name contains "mapping" is parsed again, and    *)
(* the failed parse's empty values replace it.                             *)
(***************************************************************************)
MappingValueKept ==
  call = "mapping" /\ Returned /\ arg.keys # <<>> => result[3] = <<arg.value>>

=============================================================================
