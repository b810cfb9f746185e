---------------------------- MODULE IrRootProofs ----------------------------
(***************************************************************************)
(* Proofs about processRoot for every number of source units: Eips and    *)
(* ContractTypes never list an entry twice, and processRoot returns only   *)
(* once Eips holds every standard some contract matches.  The inductive    *)
(* invariant ties Eips to the checks processEips has made, and says that   *)
(* no check is made before every contract is lowered.                      *)
(***************************************************************************)
EXTENDS IrRoot, SequenceTheorems, TLAPS

\* The contract types SetContractType appends.
ContractTypeNames == {"token", "nft", "proxy", "upgradeable"}

TypeOK ==
  /\ units \in Seq(SUBSET Standards)
  /\ phase \in {"idle", "lower", "done"}
  /\ contracts \in Seq([id: Nat, matches: SUBSET Standards])
  /\ eips \in Seq(Standards)
  /\ contractTypes \in Seq(ContractTypeNames)
  /\ scanned \in Nat

\* The checks among the first n that find a match.
MatchedChecks(n) == {k \in 1..n : CheckOf(k).s \in contracts[CheckOf(k).c].matches}

\* Eips is the set of standards the checks made so far have matched.
EipsScanned == ToSet(eips) = {CheckOf(k).s : k \in MatchedChecks(scanned)}

\* Before every contract is lowered processEips has not started.
NotStarted ==
  /\ phase = "idle" => contracts = <<>>
  /\ phase # "lower" \/ Len(contracts) < Len(units) =>
       phase = "done" \/ (scanned = 0 /\ eips = <<>> /\ contractTypes = <<>>)
  /\ phase = "done" => scanned = Checks
  /\ scanned <= Checks

\* The set of types ContractTypes lists is the table's types of the Eips.
ContractTypesCoverEips ==
  ToSet(contractTypes) = UNION {ToSet(TypesOf(e)) : e \in ToSet(eips)}

IInv == /\ TypeOK /\ NotStarted /\ EipsScanned
        /\ ContractTypesUnique /\ ContractTypesCoverEips


-----------------------------------------------------------------------------
\* s lists no element twice.
NoDup(s) == \A i, j \in 1..Len(s) : i # j => s[i] # s[j]

\* Appending an element not yet in the sequence keeps it free of repetitions.
LEMMA AppendFresh ==
  ASSUME NEW S, NEW s \in Seq(S), NoDup(s), NEW t \in S, t \notin ToSet(s)
  PROVE  /\ Append(s, t) \in Seq(S)
         /\ NoDup(Append(s, t))
         /\ ToSet(Append(s, t)) = ToSet(s) \cup {t}
<1>1. /\ Append(s, t) \in Seq(S) /\ Len(Append(s, t)) = Len(s) + 1
      /\ \A i \in 1..Len(s) : Append(s, t)[i] = s[i]
      /\ Append(s, t)[Len(s) + 1] = t
      /\ Len(s) \in Nat /\ DOMAIN s = 1..Len(s)
      /\ DOMAIN Append(s, t) = 1..(Len(s) + 1)
  BY AppendProperties, LenProperties
<1>2. \A i \in 1..Len(s) : s[i] # t
  BY <1>1 DEF ToSet
<1>3. NoDup(Append(s, t))
  BY <1>1, <1>2 DEF NoDup
<1>4. ToSet(Append(s, t)) = ToSet(s) \cup {t}
  BY <1>1 DEF ToSet
<1>5. QED  BY <1>1, <1>3, <1>4

\* appendContractType keeps ContractTypes free of repetitions and adds t.
LEMMA AppendContractTypeProps ==
  ASSUME NEW ct \in Seq(ContractTypeNames), NoDup(ct), NEW t \in ContractTypeNames
  PROVE  /\ AppendContractType(ct, t) \in Seq(ContractTypeNames)
         /\ NoDup(AppendContractType(ct, t))
         /\ ToSet(AppendContractType(ct, t)) = ToSet(ct) \cup {t}
<1>1. HasContractType(ct, t) <=> t \in ToSet(ct)
  BY LenProperties DEF HasContractType, Contains, ToSet
<1>2. CASE HasContractType(ct, t)
  BY <1>1, <1>2 DEF AppendContractType
<1>3. CASE ~HasContractType(ct, t)
  BY <1>1, <1>3, AppendFresh DEF AppendContractType
<1>4. QED  BY <1>2, <1>3

\* The standards of the registry.
LEMMA StandardsDef ==
  Standards = {"EIP20", "EIP721", "EIP1155", "EIP1967", "EIP1820"}
BY DEF Standards, ToSet, Registry

\* SetContractType adds exactly the table's types of the standard.
LEMMA SetContractTypeProps ==
  ASSUME NEW ct \in Seq(ContractTypeNames), NoDup(ct), NEW s \in Standards
  PROVE  /\ SetContractType(ct, s) \in Seq(ContractTypeNames)
         /\ NoDup(SetContractType(ct, s))
         /\ ToSet(SetContractType(ct, s)) = ToSet(ct) \cup ToSet(TypesOf(s))
<1>1. CASE s = "EIP20"
  <2>1. SetContractType(ct, s) = AppendContractType(ct, "token")
        /\ ToSet(TypesOf(s)) = {"token"}
    BY <1>1 DEF SetContractType, TypesOf, ToSet
  <2>2. QED  BY <2>1, AppendContractTypeProps DEF ContractTypeNames
<1>2. CASE s \in {"EIP721", "EIP1155"}
  <2>1. SetContractType(ct, s) = AppendContractType(ct, "nft")
        /\ ToSet(TypesOf(s)) = {"nft"}
    BY <1>2 DEF SetContractType, TypesOf, ToSet
  <2>2. QED  BY <2>1, AppendContractTypeProps DEF ContractTypeNames
<1>3. CASE s \in {"EIP1967", "EIP1820"}
  <2> DEFINE ct1 == AppendContractType(ct, "proxy")
  <2>1. SetContractType(ct, s) = AppendContractType(ct1, "upgradeable")
        /\ ToSet(TypesOf(s)) = {"proxy", "upgradeable"}
    BY <1>3 DEF SetContractType, TypesOf, ToSet
  <2>2. ct1 \in Seq(ContractTypeNames) /\ NoDup(ct1) /\ ToSet(ct1) = ToSet(ct) \cup {"proxy"}
    BY AppendContractTypeProps DEF ContractTypeNames
  <2>3. QED  BY <2>1, <2>2, AppendContractTypeProps DEF ContractTypeNames
<1>4. QED  BY <1>1, <1>2, <1>3, StandardsDef


-----------------------------------------------------------------------------
\* The registry has five entries.
LEMMA RegistryLen == Len(Registry) = 5
BY DEF Registry

\* Check k of n * 5 looks at one of the n contracts and one of the 5 standards.
LEMMA CheckRange ==
  ASSUME NEW n \in Nat, NEW k \in 1..(n * 5)
  PROVE  /\ ((k - 1) \div 5) + 1 \in 1..n
         /\ ((k - 1) % 5) + 1 \in 1..5
OBVIOUS

\* Contract i and standard r are looked at by check (i - 1) * 5 + r.
LEMMA CheckHits ==
  ASSUME NEW n \in Nat, NEW i \in 1..n, NEW r \in 1..5
  PROVE  /\ (i - 1) * 5 + r \in 1..(n * 5)
         /\ (((i - 1) * 5 + r - 1) \div 5) + 1 = i
         /\ (((i - 1) * 5 + r - 1) % 5) + 1 = r
OBVIOUS

\* What a check looks at, for the contracts of the model.
LEMMA CheckOfProps ==
  ASSUME contracts \in Seq([id: Nat, matches: SUBSET Standards]),
         NEW k \in 1..Checks
  PROVE  /\ CheckOf(k).c \in 1..Len(contracts)
         /\ CheckOf(k).s \in Standards
<1>1. Len(contracts) \in Nat /\ Checks = Len(contracts) * 5
  BY LenProperties, RegistryLen DEF Checks
<1>2. /\ ((k - 1) \div 5) + 1 \in 1..Len(contracts)
      /\ ((k - 1) % 5) + 1 \in 1..5
  BY <1>1, CheckRange
<1>3. \A r \in 1..5 : Registry[r] \in Standards
  BY DEF Standards, ToSet, Registry
<1>4. QED  BY <1>2, <1>3, RegistryLen DEF CheckOf

\* Once every check is made, the matched standards are those of all contracts.
LEMMA AllChecks ==
  ASSUME contracts \in Seq([id: Nat, matches: SUBSET Standards])
  PROVE  {CheckOf(k).s : k \in MatchedChecks(Checks)}
           = UNION {contracts[i].matches : i \in 1..Len(contracts)}
<1>1. Len(contracts) \in Nat /\ Checks = Len(contracts) * 5
  BY LenProperties, RegistryLen DEF Checks
<1>2. ASSUME NEW k \in MatchedChecks(Checks)
      PROVE  CheckOf(k).s \in UNION {contracts[i].matches : i \in 1..Len(contracts)}
  <2>1. k \in 1..Checks /\ CheckOf(k).s \in contracts[CheckOf(k).c].matches
    BY <1>2 DEF MatchedChecks
  <2>2. CheckOf(k).c \in 1..Len(contracts)
    BY <2>1, CheckOfProps
  <2>3. QED  BY <2>1, <2>2
<1>3. ASSUME NEW i \in 1..Len(contracts), NEW x \in contracts[i].matches
      PROVE  \E k \in MatchedChecks(Checks) : CheckOf(k).s = x
  <2>1. contracts[i] \in [id: Nat, matches: SUBSET Standards]
    BY ElementOfSeq
  <2>2. PICK r \in 1..5 : Registry[r] = x
    BY <2>1 DEF Standards, ToSet, Registry
  <2> DEFINE k == (i - 1) * 5 + r
  <2>3. /\ k \in 1..Checks
        /\ ((k - 1) \div 5) + 1 = i /\ ((k - 1) % 5) + 1 = r
    BY <1>1, CheckHits
  <2>4. CheckOf(k).c = i /\ CheckOf(k).s = x
    BY <2>2, <2>3, RegistryLen DEF CheckOf
  <2>5. k \in MatchedChecks(Checks)
    <3>1. CheckOf(k).s \in contracts[CheckOf(k).c].matches
      BY <2>4
    <3>2. QED  BY <2>3, <3>1 DEF MatchedChecks
  <2>6. QED  BY <2>4, <2>5
<1>4. QED  BY <1>2, <1>3


-----------------------------------------------------------------------------
(***************************************************************************)
(* The invariant holds initially and is kept by every step.               *)
(***************************************************************************)
LEMMA InitIInv == Init => IInv
<1> SUFFICES ASSUME Init PROVE IInv
  OBVIOUS
<1>1. units \in Seq(SUBSET Standards)
  <2>1. PICK n \in 0..MaxUnits : units \in [1..n -> SUBSET Standards]
    BY DEF Init, UnitInputs
  <2>2. QED  BY <2>1, BoundsAssumption, SeqDef
<1>2. /\ contracts = <<>> /\ eips = <<>> /\ contractTypes = <<>> /\ scanned = 0
      /\ phase = "idle"
  BY DEF Init
<1>3. TypeOK
  BY <1>1, <1>2, EmptySeq DEF TypeOK
<1>4. NotStarted
  BY <1>2, EmptySeq, RegistryLen DEF NotStarted, Checks
<1>5. EipsScanned /\ ContractTypesUnique /\ ContractTypesCoverEips
  BY <1>2 DEF EipsScanned, MatchedChecks, ContractTypesUnique, ContractTypesCoverEips, ToSet
<1>6. QED  BY <1>3, <1>4, <1>5 DEF IInv

\* processRoot's early return or the start of its loop.
LEMMA ProcessRootIInv == IInv /\ ProcessRoot => IInv'
<1> SUFFICES ASSUME IInv, ProcessRoot PROVE IInv'
  OBVIOUS
<1>1. /\ contracts = <<>> /\ eips = <<>> /\ contractTypes = <<>> /\ scanned = 0
      /\ UNCHANGED <<units, contracts, eips, contractTypes, scanned>>
      /\ phase' \in {"lower", "done"}
      /\ phase' = "done" => units = <<>>
      /\ phase' = "lower" => units # <<>>
  BY DEF ProcessRoot, IInv, NotStarted
<1>2. Checks = 0
  BY <1>1, EmptySeq, RegistryLen DEF Checks
<1>3. Len(contracts') < Len(units') \/ phase' = "done"
  BY <1>1, EmptySeq, LenProperties DEF IInv, TypeOK
<1>4. TypeOK'
  BY <1>1 DEF IInv, TypeOK
<1>5. NotStarted'
  BY <1>1, <1>2, <1>3 DEF NotStarted, Checks
<1>6. EipsScanned' /\ ContractTypesUnique' /\ ContractTypesCoverEips'
  BY <1>1 DEF EipsScanned, MatchedChecks, ContractTypesUnique, ContractTypesCoverEips, ToSet
<1>7. QED  BY <1>4, <1>5, <1>6 DEF IInv

\* One source unit lowered: processEips has not started yet.
LEMMA ProcessContractIInv == IInv /\ ProcessContract => IInv'
<1> SUFFICES ASSUME IInv, ProcessContract PROVE IInv'
  OBVIOUS
<1> DEFINE k == Len(contracts) + 1
           rec == [id |-> ContractId(k), matches |-> units[k]]
<1>1. /\ phase = "lower" /\ Len(contracts) < Len(units)
      /\ scanned = 0 /\ eips = <<>> /\ contractTypes = <<>>
      /\ contracts' = Append(contracts, rec)
      /\ UNCHANGED <<units, phase, eips, contractTypes, scanned>>
  BY DEF ProcessContract, IInv, NotStarted
<1>2. /\ Len(contracts) \in Nat /\ Len(units) \in Nat
      /\ k \in 1..Len(units)
  BY <1>1, LenProperties DEF IInv, TypeOK
<1>3. rec \in [id: Nat, matches: SUBSET Standards]
  BY <1>2, ElementOfSeq DEF IInv, TypeOK, ContractId
<1>4. contracts' \in Seq([id: Nat, matches: SUBSET Standards])
      /\ Len(contracts') = k
  BY <1>1, <1>3, AppendProperties DEF IInv, TypeOK
<1>5. TypeOK'
  BY <1>1, <1>4 DEF IInv, TypeOK
<1>6. NotStarted'
  <2>1. Checks' \in Nat
    BY <1>4, RegistryLen DEF Checks
  <2>2. QED  BY <1>1, <2>1 DEF NotStarted
<1>7. EipsScanned' /\ ContractTypesUnique' /\ ContractTypesCoverEips'
  BY <1>1 DEF EipsScanned, MatchedChecks, ContractTypesUnique, ContractTypesCoverEips, ToSet
<1>8. QED  BY <1>5, <1>6, <1>7 DEF IInv

\* processRoot returns once every check is made.
LEMMA ReturnIInv == IInv /\ Return => IInv'
<1> SUFFICES ASSUME IInv, Return PROVE IInv'
  OBVIOUS
<1>1. /\ phase' = "done" /\ scanned = Checks
      /\ UNCHANGED <<units, contracts, eips, contractTypes, scanned>>
  BY DEF Return
<1>2. QED
  BY <1>1 DEF IInv, TypeOK, NotStarted, EipsScanned, MatchedChecks, Checks,
              ContractTypesUnique, ContractTypesCoverEips


\* One check of processEips: a new matched standard is recorded with its
\* contract types, a repeated or unmatched one changes nothing.
LEMMA ProcessEipIInv == IInv /\ ProcessEip => IInv'
<1> SUFFICES ASSUME IInv, ProcessEip PROVE IInv'
  OBVIOUS
<1> DEFINE k == scanned + 1
           ch == CheckOf(k)
           hit == ch.s \in contracts[ch.c].matches
<1>1. /\ phase = "lower" /\ Len(contracts) = Len(units) /\ scanned < Checks
      /\ scanned' = k
      /\ UNCHANGED <<units, phase, contracts>>
      /\ IF ~hit \/ HasEIP(ch.s)
         THEN UNCHANGED <<eips, contractTypes>>
         ELSE /\ eips' = Append(eips, ch.s)
              /\ contractTypes' = SetContractType(contractTypes, ch.s)
  BY DEF ProcessEip
<1>2. /\ contracts \in Seq([id: Nat, matches: SUBSET Standards])
      /\ scanned \in Nat /\ Checks \in Nat
      /\ k \in 1..Checks
  BY <1>1, LenProperties, RegistryLen DEF IInv, TypeOK, Checks
<1>3. ch.c \in 1..Len(contracts) /\ ch.s \in Standards
  BY <1>2, CheckOfProps
<1>4. MatchedChecks(k) = MatchedChecks(scanned) \cup (IF hit THEN {k} ELSE {})
  BY <1>2 DEF MatchedChecks
<1>5. HasEIP(ch.s) <=> ch.s \in ToSet(eips)
  BY LenProperties DEF HasEIP, Contains, ToSet, IInv, TypeOK
<1>6. /\ Checks' = Checks
      /\ MatchedChecks(scanned)' = MatchedChecks(k)
  BY <1>1 DEF Checks, MatchedChecks, CheckOf
<1>7. NotStarted'
  <2>1. /\ phase' = "lower" /\ Len(contracts') = Len(units')
        /\ scanned' <= Checks'
    BY <1>1, <1>2, <1>6
  <2>2. QED  BY <2>1 DEF NotStarted
<1>8. CASE ~hit \/ HasEIP(ch.s)
  <2>1. {CheckOf(j).s : j \in MatchedChecks(k)} = {CheckOf(j).s : j \in MatchedChecks(scanned)}
    BY <1>4, <1>5, <1>8 DEF IInv, EipsScanned
  <2>2. EipsScanned'
    BY <1>1, <1>6, <1>8, <2>1 DEF IInv, EipsScanned
  <2>3. QED
    BY <1>1, <1>7, <1>8, <2>2
    DEF IInv, TypeOK, ContractTypesUnique, ContractTypesCoverEips
<1>9. CASE hit /\ ~HasEIP(ch.s)
  <2>1. /\ eips' = Append(eips, ch.s)
        /\ contractTypes' = SetContractType(contractTypes, ch.s)
    BY <1>1, <1>9
  <2>2. /\ eips' \in Seq(Standards)
        /\ ToSet(eips') = ToSet(eips) \cup {ch.s}
    <3>2. ch.s \notin ToSet(eips)
      BY <1>5, <1>9
    <3>3. /\ Append(eips, ch.s) \in Seq(Standards)
          /\ ToSet(Append(eips, ch.s)) = ToSet(eips) \cup {ch.s}
      <4>1. /\ Len(eips) \in Nat /\ DOMAIN eips = 1..Len(eips)
            /\ Append(eips, ch.s) \in Seq(Standards)
            /\ Len(Append(eips, ch.s)) = Len(eips) + 1
            /\ \A i \in 1..Len(eips) : Append(eips, ch.s)[i] = eips[i]
            /\ Append(eips, ch.s)[Len(eips) + 1] = ch.s
        BY <1>3, AppendProperties, LenProperties DEF IInv, TypeOK
      <4>2. DOMAIN Append(eips, ch.s) = 1..(Len(eips) + 1)
        BY <4>1, LenProperties
      <4>3. QED  BY <4>1, <4>2 DEF ToSet
    <3>4. QED  BY <2>1, <3>3
  <2>3. /\ contractTypes' \in Seq(ContractTypeNames)
        /\ NoDup(contractTypes')
        /\ ToSet(contractTypes') = ToSet(contractTypes) \cup ToSet(TypesOf(ch.s))
    <3>1. contractTypes \in Seq(ContractTypeNames) /\ NoDup(contractTypes)
      BY DEF IInv, TypeOK, ContractTypesUnique, NoDup
    <3>2. QED  BY <1>3, <2>1, <3>1, SetContractTypeProps
  <2>4. TypeOK'
    BY <1>1, <2>2, <2>3 DEF IInv, TypeOK
  <2>5. EipsScanned'
    <3>1. {CheckOf(j).s : j \in MatchedChecks(k)}
            = {CheckOf(j).s : j \in MatchedChecks(scanned)} \cup {ch.s}
      BY <1>4, <1>9
    <3>2. QED  BY <1>6, <2>2, <3>1 DEF IInv, EipsScanned
  <2>6. ContractTypesUnique'
    BY <2>3 DEF ContractTypesUnique, NoDup
  <2>7. ContractTypesCoverEips'
    BY <2>2, <2>3 DEF IInv, ContractTypesCoverEips
  <2>8. QED  BY <1>7, <2>4, <2>5, <2>6, <2>7 DEF IInv
<1>10. QED  BY <1>8, <1>9


LEMMA NextIInv == IInv /\ [Next]_vars => IInv'
<1> SUFFICES ASSUME IInv, [Next]_vars PROVE IInv'
  OBVIOUS
<1>1. CASE ProcessRoot
  BY <1>1, ProcessRootIInv
<1>2. CASE ProcessContract
  BY <1>2, ProcessContractIInv
<1>3. CASE ProcessEip
  BY <1>3, ProcessEipIInv
<1>4. CASE Return
  BY <1>4, ReturnIInv
<1>5. CASE UNCHANGED vars
  BY <1>5 DEF vars, IInv, TypeOK, NotStarted, EipsScanned, MatchedChecks, CheckOf,
              Checks, ContractTypesUnique, ContractTypesCoverEips
<1>6. QED  BY <1>1, <1>2, <1>3, <1>4, <1>5 DEF Next

-----------------------------------------------------------------------------
(***************************************************************************)
(* ContractTypes never lists a contract type twice, for any number of      *)
(* source units: appendContractType's HasContractType check holds across   *)
(* all the standards of all the contracts processEips records.             *)
(***************************************************************************)
THEOREM ContractTypesNeverRepeated == Spec => []ContractTypesUnique
<1>1. IInv => ContractTypesUnique
  BY DEF IInv
<1>2. QED  BY <1>1, InitIInv, NextIInv, PTL DEF Spec

(***************************************************************************)
(* The set of types ContractTypes lists is always the set the table of     *)
(* spec 4.3 gives for the standards in Eips: SetContractType adds exactly  *)
(* a standard's types, and processEips calls it once per recorded EIP.     *)
(***************************************************************************)
THEOREM ContractTypesMatchEips == Spec => []ContractTypesCoverEips
<1>1. IInv => ContractTypesCoverEips
  BY DEF IInv
<1>2. QED  BY <1>1, InitIInv, NextIInv, PTL DEF Spec

\* Once every check is made, Eips holds every standard some contract matches.
LEMMA IInvEipsComplete == IInv => EipsCompleteOnReturn
<1> SUFFICES ASSUME IInv, phase = "done"
             PROVE  ToSet(eips) = UNION {contracts[i].matches : i \in 1..Len(contracts)}
  BY DEF EipsCompleteOnReturn
<1>1. scanned = Checks /\ contracts \in Seq([id: Nat, matches: SUBSET Standards])
  BY DEF IInv, NotStarted, TypeOK
<1>2. ToSet(eips) = {CheckOf(k).s : k \in MatchedChecks(Checks)}
  BY <1>1 DEF IInv, EipsScanned
<1>3. QED  BY <1>1, <1>2, AllChecks

(***************************************************************************)
(* Whenever processRoot has returned, Eips holds exactly the standards     *)
(* matched by some contract, for any number of source units: Return waits  *)
(* for processEips to make every check, and a root without units has no   *)
(* contract to check.                                                      *)
(***************************************************************************)
THEOREM ReturnRecordsEveryMatch == Spec => []EipsCompleteOnReturn
BY IInvEipsComplete, InitIInv, NextIInv, PTL DEF Spec

-----------------------------------------------------------------------------
(***************************************************************************)
(* Refinement of IrRootAtomic.  Besides IInv it takes two more facts: the  *)
(* HasEIP check keeps Eips free of repetitions, and the loop over the      *)
(* source units gives contract i the standards of unit i, all of them by   *)
(* the time processRoot returns.                                           *)
(***************************************************************************)
EipsUnique == NoDup(eips)

ContractsFromUnits ==
  /\ Len(contracts) <= Len(units)
  /\ \A i \in 1..Len(contracts) : contracts[i].matches = units[i]
  /\ phase = "done" => Len(contracts) = Len(units)

RInv == IInv /\ EipsUnique /\ ContractsFromUnits

LEMMA InitRInv == Init => RInv
<1> SUFFICES ASSUME Init PROVE RInv
  OBVIOUS
<1>1. IInv  BY InitIInv
<1>2. contracts = <<>> /\ eips = <<>> /\ phase = "idle"
  BY DEF Init
<1>3. Len(units) \in Nat
  BY <1>1, LenProperties DEF IInv, TypeOK
<1>4. QED  BY <1>1, <1>2, <1>3, EmptySeq DEF RInv, EipsUnique, NoDup, ContractsFromUnits

LEMMA NextRInv == RInv /\ [Next]_vars => RInv'
<1> SUFFICES ASSUME RInv, [Next]_vars PROVE RInv'
  OBVIOUS
<1>1. IInv'  BY NextIInv DEF RInv
<1>2. /\ units \in Seq(SUBSET Standards) /\ eips \in Seq(Standards)
      /\ contracts \in Seq([id: Nat, matches: SUBSET Standards])
      /\ Len(units) \in Nat /\ Len(contracts) \in Nat
  BY LenProperties DEF RInv, IInv, TypeOK
<1>3. CASE ProcessRoot
  <2>1. /\ UNCHANGED <<units, contracts, eips>>
        /\ phase' = "done" => units = <<>>
        /\ contracts = <<>>
    BY <1>3 DEF ProcessRoot, RInv, IInv, NotStarted
  <2>2. QED  BY <1>1, <1>2, <2>1, EmptySeq DEF RInv, EipsUnique, ContractsFromUnits
<1>4. CASE ProcessContract
  <2> DEFINE k == Len(contracts) + 1
             rec == [id |-> ContractId(k), matches |-> units[k]]
  <2>1. /\ Len(contracts) < Len(units) /\ phase' = "lower"
        /\ contracts' = Append(contracts, rec)
        /\ UNCHANGED <<units, eips>>
    BY <1>4 DEF ProcessContract
  <2>2. /\ Len(contracts') = k
        /\ \A i \in 1..Len(contracts) : contracts'[i] = contracts[i]
        /\ contracts'[k] = rec
    BY <1>2, <2>1, AppendProperties
  <2>3. ContractsFromUnits'
    BY <1>2, <2>1, <2>2 DEF RInv, ContractsFromUnits
  <2>4. QED  BY <1>1, <2>1, <2>3 DEF RInv, EipsUnique
<1>5. CASE ProcessEip
  <2> DEFINE ch == CheckOf(scanned + 1)
  <2>1. /\ UNCHANGED <<units, contracts, phase>>
        /\ IF ch.s \notin contracts[ch.c].matches \/ HasEIP(ch.s)
           THEN UNCHANGED eips
           ELSE eips' = Append(eips, ch.s)
    BY <1>5 DEF ProcessEip
  <2>2. HasEIP(ch.s) <=> ch.s \in ToSet(eips)
    BY <1>2 DEF HasEIP, Contains, ToSet
  <2>3. ch.s \in Standards
    <3>1. scanned + 1 \in 1..Checks
      BY <1>5, RegistryLen DEF ProcessEip, RInv, IInv, TypeOK, Checks
    <3>2. QED  BY <1>2, <3>1, CheckOfProps
  <2>4. EipsUnique'
    <3>1. CASE ch.s \notin contracts[ch.c].matches \/ HasEIP(ch.s)
      BY <2>1, <3>1 DEF RInv, EipsUnique
    <3>2. CASE ~(ch.s \notin contracts[ch.c].matches \/ HasEIP(ch.s))
      <4>1. eips' = Append(eips, ch.s) /\ ch.s \notin ToSet(eips) /\ NoDup(eips)
        BY <2>1, <2>2, <3>2 DEF RInv, EipsUnique
      <4>2. NoDup(Append(eips, ch.s))
        BY <1>2, <2>3, <4>1, AppendFresh
      <4>3. QED  BY <4>1, <4>2 DEF EipsUnique
    <3>3. QED  BY <3>1, <3>2
  <2>5. QED  BY <1>1, <2>1, <2>4 DEF RInv, ContractsFromUnits
<1>6. CASE Return
  BY <1>1, <1>6 DEF Return, RInv, EipsUnique, ContractsFromUnits
<1>7. CASE UNCHANGED vars
  BY <1>1, <1>7 DEF vars, RInv, EipsUnique, ContractsFromUnits
<1>8. QED  BY <1>3, <1>4, <1>5, <1>6, <1>7 DEF Next

\* Spec 4.3's table, as IrRootAtomic states it, is what TypesOf lists.
LEMMA TableTypesAgree ==
  ASSUME NEW e \in Standards
  PROVE  Atomic!TableTypes(e) = ToSet(TypesOf(e))
<1>1. CASE e = "EIP20"
  BY <1>1 DEF Atomic!TableTypes, TypesOf, ToSet
<1>2. CASE e \in {"EIP721", "EIP1155"}
  BY <1>2 DEF Atomic!TableTypes, TypesOf, ToSet
<1>3. CASE e \in {"EIP1967", "EIP1820"}
  BY <1>3 DEF Atomic!TableTypes, TypesOf, ToSet
<1>4. QED  BY <1>1, <1>2, <1>3, StandardsDef

\* No step changes the source units, and nothing follows processRoot's return.
LEMMA UnitsFixed ==
  ASSUME [Next]_vars
  PROVE  /\ units' = units
         /\ phase = "done" => UNCHANGED vars
BY DEF Next, vars, ProcessRoot, ProcessContract, ProcessEip, Return

(***************************************************************************)
(* processRoot implements IrRootAtomic, for any number of source units:    *)
(* every step before the return is invisible to the caller, and the return *)
(* (or the early return of a root without units) hands back Eips listing   *)
(* each matched standard once and ContractTypes listing their types once. *)
(* The argument is RInv: EipsScanned and AllChecks give the set of Eips at *)
(* the return, ContractsFromUnits turns contracts back into units, and     *)
(* ContractTypesCoverEips with TableTypesAgree gives the types.            *)
(***************************************************************************)
THEOREM ProcessRootRefinesAtomic == Spec => ProcessRootAtomic
<1>1. Init => Atomic!Init
  <2> SUFFICES ASSUME Init PROVE Atomic!Init
    OBVIOUS
  <2>1. units \in Seq(SUBSET Standards)
    BY InitIInv DEF IInv, TypeOK
  <2>2. phase = "idle"
    BY DEF Init
  <2>3. QED  BY <2>1, <2>2 DEF Atomic!Init
<1>2. RInv /\ RInv' /\ EipsCompleteOnReturn' /\ [Next]_vars => [Atomic!Lower]_Atomic!vars
  <2> SUFFICES ASSUME RInv, RInv', EipsCompleteOnReturn', [Next]_vars
               PROVE  [Atomic!Lower]_Atomic!vars
    OBVIOUS
  <2>1. units' = units /\ (phase = "done" => UNCHANGED vars)
    BY UnitsFixed
  <2>2. CASE phase # "done" /\ phase' = "done"
    <3>1. eips' \in Seq(Standards) /\ Atomic!Distinct(eips')
      BY DEF RInv, IInv, TypeOK, EipsUnique, NoDup, Atomic!Distinct
    <3>2. ToSet(eips') = UNION {units'[i] : i \in DOMAIN units'}
      <4>1. ToSet(eips') = UNION {contracts'[i].matches : i \in 1..Len(contracts')}
        BY <2>2 DEF EipsCompleteOnReturn
      <4>2. /\ Len(contracts') = Len(units')
            /\ \A i \in 1..Len(contracts') : contracts'[i].matches = units'[i]
        BY <2>2 DEF RInv, ContractsFromUnits
      <4>3. DOMAIN units' = 1..Len(units')
        BY DEF RInv, IInv, TypeOK
      <4>4. QED  BY <4>1, <4>2, <4>3
    <3>3. Atomic!Distinct(contractTypes')
      BY DEF RInv, IInv, ContractTypesUnique, Atomic!Distinct
    <3>4. ToSet(contractTypes') = UNION {Atomic!TableTypes(e) : e \in ToSet(eips')}
      <4>1. ToSet(contractTypes') = UNION {ToSet(TypesOf(e)) : e \in ToSet(eips')}
        BY DEF RInv, IInv, ContractTypesCoverEips
      <4>2. ToSet(eips') \subseteq Standards
        BY <3>1 DEF ToSet
      <4>3. QED  BY <4>1, <4>2, TableTypesAgree
    <3>5. /\ (IF phase = "done" THEN eips ELSE <<>>)' = eips'
          /\ (IF phase = "done" THEN contractTypes ELSE <<>>)' = contractTypes'
      BY <2>2
    <3>6. \A x : Atomic!ToSet(x) = ToSet(x)
      BY DEF Atomic!ToSet, ToSet
    <3>7. QED  BY <2>1, <2>2, <3>1, <3>2, <3>3, <3>4, <3>5, <3>6 DEF Atomic!Lower
  <2>3. CASE phase = "done"
    BY <2>1, <2>3 DEF vars, Atomic!vars
  <2>4. CASE phase # "done" /\ phase' # "done"
    BY <2>1, <2>4 DEF Atomic!vars
  <2>5. QED  BY <2>2, <2>3, <2>4
<1>3. RInv => EipsCompleteOnReturn
  BY IInvEipsComplete DEF RInv
<1>4. QED
  BY <1>1, <1>2, <1>3, InitRInv, NextRInv, PTL
  DEF Spec, ProcessRootAtomic, Atomic!Spec

-----------------------------------------------------------------------------
(***************************************************************************)
(* The order of ContractTypes.  SlotsIn(es, t) is TypeSlots(t) for an     *)
(* arbitrary list es of recorded EIPs, and OrderedIn(ct, es) the order    *)
(* half of ContractTypesFollowEips.                                        *)
(***************************************************************************)
SlotsIn(es, t) ==
  {sl \in (1..Len(es)) \X {1, 2} :
     sl[2] <= Len(TypesOf(es[sl[1]])) /\ TypesOf(es[sl[1]])[sl[2]] = t}

OrderedIn(ct, es) ==
  \A i, j \in 1..Len(ct) : i < j =>
    \A b \in SlotsIn(es, ct[j]) : \E a \in SlotsIn(es, ct[i]) : SlotBefore(a, b)

\* The table's types of a standard: one or two distinct names.
LEMMA TypesOfProps ==
  ASSUME NEW s \in Standards
  PROVE  /\ TypesOf(s) \in Seq(ContractTypeNames)
         /\ Len(TypesOf(s)) \in {1, 2}
         /\ Len(TypesOf(s)) = 2 =>
              TypesOf(s) = <<"proxy", "upgradeable">> /\ s \in {"EIP1967", "EIP1820"}
         /\ Len(TypesOf(s)) = 1 => s \in {"EIP20", "EIP721", "EIP1155"}
<1>1. CASE s = "EIP20"
  BY <1>1 DEF TypesOf, ContractTypeNames
<1>2. CASE s \in {"EIP721", "EIP1155"}
  BY <1>2 DEF TypesOf, ContractTypeNames
<1>3. CASE s \in {"EIP1967", "EIP1820"}
  <2>1. TypesOf(s) = <<"proxy", "upgradeable">>
    BY <1>3 DEF TypesOf
  <2>2. <<"proxy", "upgradeable">> \in Seq(ContractTypeNames)
    BY DEF ContractTypeNames
  <2>3. QED  BY <1>3, <2>1, <2>2
<1>4. QED  BY <1>1, <1>2, <1>3, StandardsDef

\* Recording standard s adds the slots of its types at index Len(es) + 1.
LEMMA SlotsAppend ==
  ASSUME NEW es \in Seq(Standards), NEW s \in Standards, NEW t
  PROVE  SlotsIn(Append(es, s), t)
           = SlotsIn(es, t) \cup
             {sl \in {Len(es) + 1} \X {1, 2} :
                sl[2] <= Len(TypesOf(s)) /\ TypesOf(s)[sl[2]] = t}
<1>1. /\ Len(es) \in Nat /\ Len(Append(es, s)) = Len(es) + 1
      /\ \A n \in 1..Len(es) : Append(es, s)[n] = es[n]
      /\ Append(es, s)[Len(es) + 1] = s
  BY AppendProperties, LenProperties
<1>2. QED  BY <1>1 DEF SlotsIn

\* A type has a slot exactly when some recorded EIP's table lists it.
LEMMA SlotsOfListed ==
  ASSUME NEW es \in Seq(Standards), NEW t
  PROVE  t \in UNION {ToSet(TypesOf(e)) : e \in ToSet(es)} <=> SlotsIn(es, t) # {}
<1>1. Len(es) \in Nat /\ DOMAIN es = 1..Len(es)
  BY LenProperties
<1>2. ASSUME NEW e \in ToSet(es), t \in ToSet(TypesOf(e))
      PROVE  SlotsIn(es, t) # {}
  <2>1. PICK n \in 1..Len(es) : es[n] = e
    BY <1>1, <1>2 DEF ToSet
  <2>2. e \in Standards
    BY <2>1, ElementOfSeq
  <2>3. PICK p \in DOMAIN TypesOf(e) : TypesOf(e)[p] = t
    BY <1>2 DEF ToSet
  <2>4. p \in {1, 2} /\ p <= Len(TypesOf(e))
    BY <2>2, <2>3, TypesOfProps, LenProperties
  <2>5. <<n, p>> \in SlotsIn(es, t)
    BY <2>1, <2>3, <2>4 DEF SlotsIn
  <2>6. QED  BY <2>5
<1>3. ASSUME NEW sl \in SlotsIn(es, t)
      PROVE  t \in UNION {ToSet(TypesOf(e)) : e \in ToSet(es)}
  <2>1. /\ sl[1] \in 1..Len(es) /\ sl[2] \in {1, 2}
        /\ sl[2] <= Len(TypesOf(es[sl[1]])) /\ TypesOf(es[sl[1]])[sl[2]] = t
    BY DEF SlotsIn
  <2>2. es[sl[1]] \in ToSet(es) /\ es[sl[1]] \in Standards
    BY <1>1, <2>1, ElementOfSeq DEF ToSet
  <2>3. sl[2] \in DOMAIN TypesOf(es[sl[1]])
    BY <2>1, <2>2, TypesOfProps, LenProperties
  <2>4. t \in ToSet(TypesOf(es[sl[1]]))
    BY <2>1, <2>3 DEF ToSet
  <2>5. QED  BY <2>2, <2>4
<1>4. QED  BY <1>2, <1>3

\* Recording another standard keeps the order of types that already occur.
LEMMA OrderedExtend ==
  ASSUME NEW ct \in Seq(ContractTypeNames), NEW es \in Seq(Standards),
         NEW s \in Standards, OrderedIn(ct, es),
         \A x \in ToSet(ct) : SlotsIn(es, x) # {}
  PROVE  OrderedIn(ct, Append(es, s))
<1> SUFFICES ASSUME NEW i \in 1..Len(ct), NEW j \in 1..Len(ct), i < j,
                    NEW b \in SlotsIn(Append(es, s), ct[j])
             PROVE  \E a \in SlotsIn(Append(es, s), ct[i]) : SlotBefore(a, b)
  BY DEF OrderedIn
<1>1. Len(es) \in Nat /\ ct[i] \in ToSet(ct)
  BY LenProperties DEF ToSet
<1>2. b \in SlotsIn(es, ct[j]) \/ b[1] = Len(es) + 1
  BY SlotsAppend
<1>3. \A x : SlotsIn(es, x) \subseteq SlotsIn(Append(es, s), x)
  BY SlotsAppend
<1>4. CASE b \in SlotsIn(es, ct[j])
  <2>1. PICK a \in SlotsIn(es, ct[i]) : SlotBefore(a, b)
    BY <1>4 DEF OrderedIn
  <2>2. QED  BY <1>3, <2>1
<1>5. CASE b[1] = Len(es) + 1
  <2>1. PICK a \in SlotsIn(es, ct[i]) : TRUE
    BY <1>1
  <2>2. a[1] \in 1..Len(es)
    BY <1>1 DEF SlotsIn
  <2>3. SlotBefore(a, b)
    BY <1>1, <1>5, <2>2 DEF SlotBefore
  <2>4. QED  BY <1>3, <2>3
<1>6. QED  BY <1>2, <1>4, <1>5

\* appendContractType keeps the order when a type it appends occurs after
\* every type already listed.
LEMMA AppendContractTypeOrdered ==
  ASSUME NEW ct \in Seq(ContractTypeNames), NEW es, NEW t \in ContractTypeNames,
         OrderedIn(ct, es),
         t \notin ToSet(ct) =>
           \A x \in ToSet(ct) : \A b \in SlotsIn(es, t) :
             \E a \in SlotsIn(es, x) : SlotBefore(a, b)
  PROVE  OrderedIn(AppendContractType(ct, t), es)
<1>1. HasContractType(ct, t) <=> t \in ToSet(ct)
  BY LenProperties DEF HasContractType, Contains, ToSet
<1>2. CASE t \in ToSet(ct)
  BY <1>1, <1>2 DEF AppendContractType
<1>3. CASE t \notin ToSet(ct)
  <2> DEFINE ct2 == Append(ct, t)
  <2>1. AppendContractType(ct, t) = ct2
    BY <1>1, <1>3 DEF AppendContractType
  <2>2. /\ Len(ct) \in Nat /\ Len(ct2) = Len(ct) + 1
        /\ \A k \in 1..Len(ct) : ct2[k] = ct[k]
        /\ ct2[Len(ct) + 1] = t
    BY AppendProperties, LenProperties
  <2>3. SUFFICES ASSUME NEW i \in 1..Len(ct2), NEW j \in 1..Len(ct2), i < j,
                        NEW b \in SlotsIn(es, ct2[j])
                 PROVE  \E a \in SlotsIn(es, ct2[i]) : SlotBefore(a, b)
    BY <2>1 DEF OrderedIn
  <2>4. i \in 1..Len(ct)
    BY <2>2, <2>3
  <2>5. CASE j \in 1..Len(ct)
    BY <2>2, <2>3, <2>4, <2>5 DEF OrderedIn
  <2>6. CASE j = Len(ct) + 1
    <3>1. ct2[i] = ct[i] /\ ct[i] \in ToSet(ct) /\ ct2[j] = t
      BY <2>2, <2>4, <2>6 DEF ToSet
    <3>2. QED  BY <1>3, <2>3, <3>1
  <2>7. QED  BY <2>2, <2>3, <2>5, <2>6
<1>4. QED  BY <1>2, <1>3

\* ContractTypes lists its types in the order they occur.
TypesOrdered == OrderedIn(contractTypes, eips)

\* Recording a fresh standard s with SetContractType keeps ContractTypes
\* ordered: every type listed so far occurs in an earlier EIP than any type
\* first brought by s, and s's own types come in the table's order.
LEMMA SetContractTypeOrdered ==
  ASSUME NEW ct \in Seq(ContractTypeNames), NoDup(ct), NEW es \in Seq(Standards),
         NEW s \in Standards, OrderedIn(ct, es),
         ToSet(ct) = UNION {ToSet(TypesOf(e)) : e \in ToSet(es)}
  PROVE  OrderedIn(SetContractType(ct, s), Append(es, s))
<1> DEFINE es2 == Append(es, s)
           L == Len(es)
<1>1. L \in Nat
  BY LenProperties
<1>2. OrderedIn(ct, es2)
  <2>1. \A x \in ToSet(ct) : SlotsIn(es, x) # {}
    BY SlotsOfListed
  <2>2. QED  BY <2>1, OrderedExtend
<1>3. \A x \in ToSet(ct) : \E a \in SlotsIn(es2, x) : a[1] \in 1..L
  <2>1. SUFFICES ASSUME NEW x \in ToSet(ct)
                 PROVE  \E a \in SlotsIn(es2, x) : a[1] \in 1..L
    OBVIOUS
  <2>2. PICK a \in SlotsIn(es, x) : TRUE
    BY SlotsOfListed
  <2>3. a \in SlotsIn(es2, x) /\ a[1] \in 1..L
    BY <2>2, SlotsAppend DEF SlotsIn
  <2>4. QED  BY <2>3
<1>4. ASSUME NEW t, t \notin ToSet(ct), NEW b \in SlotsIn(es2, t)
      PROVE  /\ b[1] = L + 1 /\ b[2] \in {1, 2}
             /\ b[2] <= Len(TypesOf(s)) /\ TypesOf(s)[b[2]] = t
  <2>1. SlotsIn(es, t) = {}
    BY <1>4, SlotsOfListed
  <2>2. QED  BY <1>4, <2>1, SlotsAppend
\* The condition of AppendContractTypeOrdered for a type s brings.
<1>5. ASSUME NEW t \in ContractTypeNames
      PROVE  t \notin ToSet(ct) =>
               \A x \in ToSet(ct) : \A b \in SlotsIn(es2, t) :
                 \E a \in SlotsIn(es2, x) : SlotBefore(a, b)
  BY <1>1, <1>3, <1>4 DEF SlotBefore
<1>6. CASE Len(TypesOf(s)) = 1
  <2> DEFINE t == TypesOf(s)[1]
  <2>1. SetContractType(ct, s) = AppendContractType(ct, t) /\ t \in ContractTypeNames
    <3>1. s \in {"EIP20", "EIP721", "EIP1155"}
      BY <1>6, TypesOfProps
    <3>2. QED  BY <3>1 DEF SetContractType, TypesOf, ContractTypeNames
  <2>2. QED  BY <1>2, <1>5, <2>1, AppendContractTypeOrdered
<1>7. CASE Len(TypesOf(s)) = 2
  <2> DEFINE ct1 == AppendContractType(ct, "proxy")
  <2>1. /\ TypesOf(s) = <<"proxy", "upgradeable">>
        /\ SetContractType(ct, s) = AppendContractType(ct1, "upgradeable")
    <3>1. TypesOf(s) = <<"proxy", "upgradeable">> /\ s \in {"EIP1967", "EIP1820"}
      BY <1>7, TypesOfProps
    <3>2. QED  BY <3>1 DEF SetContractType
  <2>2. OrderedIn(ct1, es2)
    BY <1>2, <1>5, AppendContractTypeOrdered DEF ContractTypeNames
  <2>3. ct1 \in Seq(ContractTypeNames) /\ ToSet(ct1) = ToSet(ct) \cup {"proxy"}
    BY AppendContractTypeProps DEF ContractTypeNames
  <2>4. <<L + 1, 1>> \in SlotsIn(es2, "proxy")
    BY <1>1, <2>1, SlotsAppend DEF SlotsIn
  <2>5. "upgradeable" \notin ToSet(ct1) =>
          \A x \in ToSet(ct1) : \A b \in SlotsIn(es2, "upgradeable") :
            \E a \in SlotsIn(es2, x) : SlotBefore(a, b)
    <3>1. SUFFICES ASSUME "upgradeable" \notin ToSet(ct1), NEW x \in ToSet(ct1),
                          NEW b \in SlotsIn(es2, "upgradeable")
                   PROVE  \E a \in SlotsIn(es2, x) : SlotBefore(a, b)
      OBVIOUS
    <3>2. b[1] = L + 1 /\ b[2] = 2
      <4>1. "upgradeable" \notin ToSet(ct)
        BY <2>3, <3>1
      <4>2. /\ b[1] = L + 1 /\ b[2] \in {1, 2}
            /\ TypesOf(s)[b[2]] = "upgradeable"
        BY <3>1, <4>1, <1>4
      <4>3. QED  BY <2>1, <4>2
    <3>3. CASE x \in ToSet(ct)
      BY <1>1, <1>3, <3>2, <3>3 DEF SlotBefore
    <3>4. CASE x = "proxy"
      BY <1>1, <2>4, <3>2, <3>4 DEF SlotBefore
    <3>5. QED  BY <2>3, <3>3, <3>4
  <2>6. QED  BY <2>1, <2>2, <2>3, <2>5, AppendContractTypeOrdered DEF ContractTypeNames
<1>8. QED  BY <1>6, <1>7, TypesOfProps

\* Every step keeps ContractTypes ordered; only a check that records a new
\* standard changes Eips or ContractTypes.
LEMMA NextTypesOrdered == IInv /\ TypesOrdered /\ [Next]_vars => TypesOrdered'
<1> SUFFICES ASSUME IInv, TypesOrdered, [Next]_vars PROVE TypesOrdered'
  OBVIOUS
<1>1. CASE UNCHANGED <<eips, contractTypes>>
  BY <1>1 DEF TypesOrdered
<1>2. CASE ProcessEip /\ ~UNCHANGED <<eips, contractTypes>>
  <2> DEFINE ch == CheckOf(scanned + 1)
  <2>1. /\ ch.s \in contracts[ch.c].matches /\ ~HasEIP(ch.s)
        /\ eips' = Append(eips, ch.s)
        /\ contractTypes' = SetContractType(contractTypes, ch.s)
    BY <1>2 DEF ProcessEip
  <2>2. ch.s \in Standards
    <3>1. scanned + 1 \in 1..Checks
      BY <1>2, RegistryLen, LenProperties DEF ProcessEip, IInv, TypeOK, Checks
    <3>2. QED  BY <3>1, CheckOfProps DEF IInv, TypeOK
  <2>3. /\ contractTypes \in Seq(ContractTypeNames) /\ NoDup(contractTypes)
        /\ eips \in Seq(Standards)
        /\ ToSet(contractTypes) = UNION {ToSet(TypesOf(e)) : e \in ToSet(eips)}
    BY DEF IInv, TypeOK, ContractTypesUnique, NoDup, ContractTypesCoverEips
  <2>4. QED
    BY <2>1, <2>2, <2>3, SetContractTypeOrdered DEF TypesOrdered
<1>3. QED
  BY <1>1, <1>2 DEF Next, vars, ProcessRoot, ProcessContract, Return

(***************************************************************************)
(* ContractTypes always lists exactly the table's types of the recorded    *)
(* EIPs, each once, in the order they first occur when the EIPs' types are *)
(* listed in the order the EIPs were recorded, for any number of source    *)
(* units: SetContractType appends a standard's types in the table's order, *)
(* and appendContractType skips a type already listed, which by            *)
(* ContractTypesCoverEips occurs in an earlier EIP.                        *)
(***************************************************************************)
THEOREM ContractTypesInEipOrder == Spec => []ContractTypesFollowEips
<1>1. Init => TypesOrdered
  BY EmptySeq DEF Init, TypesOrdered, OrderedIn
<1>2. IInv /\ TypesOrdered => ContractTypesFollowEips
  BY DEF IInv, ContractTypesCoverEips, TypesOrdered, OrderedIn, SlotsIn,
         ContractTypesFollowEips, TypeSlots
<1>3. QED  BY <1>1, <1>2, InitIInv, NextIInv, NextTypesOrdered, PTL DEF Spec
=============================================================================
