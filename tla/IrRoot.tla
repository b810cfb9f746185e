------------------------------- MODULE IrRoot -------------------------------
(***************************************************************************)
(* The IR root of solgo (ir/root.go): Builder.processRoot turns the AST's  *)
(* RootNode into a RootSourceUnit, one IR contract per source unit, then   *)
(* processEips records the standards each contract matches and, through    *)
(* SetContractType, the contract types they imply.  processContract and   *)
(* processEips are not in src/: they are modelled from spec.md section     *)
(* 4.3, with the matching itself abstracted to the set of standards each   *)
(* unit's contract matches.  Ids follow AstBuilder: a unit and the         *)
(* contract it holds have different ids.                                   *)
(***************************************************************************)
EXTENDS Naturals, Sequences, SequencesExt

CONSTANTS
  MaxUnits      \* source units of the RootNode

ASSUME BoundsAssumption == MaxUnits \in Nat

\* eip.Standard values in the detector's registry order
Registry == <<"EIP20", "EIP721", "EIP1155", "EIP1967", "EIP1820">>
Standards == ToSet(Registry)

\* The ids of unit i and of the contract it holds (never equal: AstBuilder
\* gives the unit nextId and the contract an id after its pragmas, imports
\* and the unit's Src).
UnitId(i) == 2 * i
ContractId(i) == 2 * i + 1

\* A source unit of the AST: its position and the standards its contract matches.
UnitInputs == UNION {[1..n -> SUBSET Standards] : n \in 0..MaxUnits}

VARIABLES
  units,          \* the RootNode's source units: unit i -> standards matched
  entry,          \* the position of the entry source unit
  phase,          \* "idle" before processRoot, "lower" in it, "done" after
  contracts,      \* RootSourceUnit.Contracts: the IR contracts' ids and matches
  entryId,        \* RootSourceUnit.EntryContractId
  contractTypes,  \* RootSourceUnit.ContractTypes
  eips,           \* RootSourceUnit.Eips: the standards recorded
  scanned         \* the matches processEips has gone through

vars == <<units, entry, phase, contracts, entryId, contractTypes, eips, scanned>>

Init ==
  /\ units \in UnitInputs
  /\ entry \in IF units = <<>> THEN {0} ELSE DOMAIN units
  /\ phase = "idle"
  /\ contracts = <<>>
  /\ entryId = 0
  /\ contractTypes = <<>>
  /\ eips = <<>>
  /\ scanned = 0

(***************************************************************************)
(* processRoot up to its loop: a root without source units is returned     *)
(* as it is; otherwise EntryContractId is set from the entry source unit.  *)
(***************************************************************************)
ProcessRoot ==
  /\ phase = "idle"
  /\ IF units = <<>>
     THEN /\ phase' = "done"
          /\ UNCHANGED entryId
     ELSE /\ phase' = "lower"
          /\ entryId' = UnitId(entry)
  /\ UNCHANGED <<units, entry, contracts, contractTypes, eips, scanned>>

(***************************************************************************)
(* One iteration of the loop over the source units: processContract's IR   *)
(* contract is appended.                                                   *)
(***************************************************************************)
ProcessContract ==
  /\ phase = "lower"
  /\ Len(contracts) < Len(units)
  /\ LET k == Len(contracts) + 1
     IN contracts' = Append(contracts, [id |-> ContractId(k), matches |-> units[k]])
  /\ UNCHANGED <<units, entry, phase, entryId, contractTypes, eips, scanned>>

\* processEips checks every standard of the registry against every
\* contract, contract by contract, in registry order: check k looks at
\* contract c for standard s.
Checks == Len(contracts) * Len(Registry)
CheckOf(k) == [c |-> ((k - 1) \div Len(Registry)) + 1,
               s |-> Registry[((k - 1) % Len(Registry)) + 1]]

\* Mutation: processEips records a standard without looking in Eips first.
HasEIPSkipped(s) == FALSE

\* HasEIP: the standard is already recorded.
HasEIP(s) == Contains(eips, s)
\* HasContractType
HasContractType(ct, t) == Contains(ct, t)

\* Mutation: appendContractType without its HasContractType check.
AppendContractTypeUnchecked(ct, t) == Append(ct, t)

\* appendContractType: append unless already present
AppendContractType(ct, t) == IF HasContractType(ct, t) THEN ct ELSE Append(ct, t)

\* Mutation: the proxy arm appends its two types the other way round.
SetContractTypeSwapped(ct, s) ==
  CASE s = "EIP20" -> AppendContractType(ct, "token")
    [] s \in {"EIP721", "EIP1155"} -> AppendContractType(ct, "nft")
    [] s \in {"EIP1967", "EIP1820"} ->
         AppendContractType(AppendContractType(ct, "upgradeable"), "proxy")

\* SetContractType: the contract types the switch appends for a standard
SetContractType(ct, s) ==
  CASE s = "EIP20" -> AppendContractType(ct, "token")
    [] s \in {"EIP721", "EIP1155"} -> AppendContractType(ct, "nft")
    [] s \in {"EIP1967", "EIP1820"} ->
         AppendContractType(AppendContractType(ct, "proxy"), "upgradeable")

(***************************************************************************)
(* processEips, one check at a time: a matched standard not yet recorded   *)
(* is appended to Eips and SetContractType called with it.                 *)
(***************************************************************************)
ProcessEip ==
  /\ phase = "lower"
  /\ Len(contracts) = Len(units)
  /\ scanned < Checks
  /\ LET ch == CheckOf(scanned + 1)
     IN IF ch.s \notin contracts[ch.c].matches \/ HasEIP(ch.s)
        THEN UNCHANGED <<eips, contractTypes>>
        ELSE /\ eips' = Append(eips, ch.s)
             /\ contractTypes' = SetContractType(contractTypes, ch.s)
  /\ scanned' = scanned + 1
  /\ UNCHANGED <<units, entry, phase, contracts, entryId>>

\* Mutation: processRoot returns without waiting for processEips to finish.
ReturnEarly ==
  /\ phase = "lower"
  /\ Len(contracts) = Len(units)
  /\ phase' = "done"
  /\ UNCHANGED <<units, entry, contracts, entryId, contractTypes, eips, scanned>>

\* processRoot returns the root.
Return ==
  /\ phase = "lower"
  /\ Len(contracts) = Len(units)
  /\ scanned = Checks
  /\ phase' = "done"
  /\ UNCHANGED <<units, entry, contracts, entryId, contractTypes, eips, scanned>>

Next == ProcessRoot \/ ProcessContract \/ ProcessEip \/ Return

(***************************************************************************)
(* processRoot is one synchronous call: once made, each of its steps is    *)
(* taken while it is enabled, so Next is weakly fair.                      *)
(***************************************************************************)
Spec == Init /\ [][Next]_vars /\ WF_vars(Next)

\* The nil *Contract.
Nil == [id |-> -1, matches |-> {}]

\* GetContractById: the first contract, in order, with the given id, or nil.
GetContractById(id) ==
  LET found == {i \in 1..Len(contracts) : contracts[i].id = id}
  IN IF found = {} THEN Nil ELSE contracts[Min(found)]

\* GetEntryContract: the contract whose id is EntryContractId.
GetEntryContract == GetContractById(entryId)

-----------------------------------------------------------------------------
\* The contract types of spec 4.3's table, in the order listed.
TypesOf(s) ==
  CASE s = "EIP20" -> <<"token">>
    [] s \in {"EIP721", "EIP1155"} -> <<"nft">>
    [] s \in {"EIP1967", "EIP1820"} -> <<"proxy", "upgradeable">>

\* Where type t occurs when the table's types of Eips are listed one after
\* the other: <<n, p>> is position p among the types of the n-th recorded EIP.
TypeSlots(t) ==
  {sl \in (1..Len(eips)) \X {1, 2} :
     sl[2] <= Len(TypesOf(eips[sl[1]])) /\ TypesOf(eips[sl[1]])[sl[2]] = t}

\* Slot a comes before slot b in that listing.
SlotBefore(a, b) == a[1] < b[1] \/ (a[1] = b[1] /\ a[2] < b[2])

(***************************************************************************)
(* Spec P7: ContractTypes never lists a type twice, however many standards *)
(* of however many contracts imply it.                                     *)
(***************************************************************************)
ContractTypesUnique ==
  \A i, j \in 1..Len(contractTypes) : i # j => contractTypes[i] # contractTypes[j]

(***************************************************************************)
(* Spec 4.3 and P7: ContractTypes is the table's types of the recorded     *)
(* EIPs, in the order the EIPs were recorded, each at its first insertion: *)
(* it lists exactly those types, and a type comes before another only if  *)
(* it occurs first, in the table's types of Eips listed one after another *)
(* (so none comes twice).                                                  *)
(***************************************************************************)
ContractTypesFollowEips ==
  /\ ToSet(contractTypes) = UNION {ToSet(TypesOf(e)) : e \in ToSet(eips)}
  /\ \A i, j \in 1..Len(contractTypes) : i < j =>
       \A b \in TypeSlots(contractTypes[j]) :
         \E a \in TypeSlots(contractTypes[i]) : SlotBefore(a, b)

(***************************************************************************)
(* Spec 4.3: processRoot returns only after processEips has checked every  *)
(* standard against every contract: Eips then holds exactly the standards  *)
(* some contract matches.                                                  *)
(***************************************************************************)
EipsCompleteOnReturn ==
  phase = "done" => ToSet(eips) = UNION {contracts[i].matches : i \in 1..Len(contracts)}

\* processRoot as its caller sees it: nothing before it returns.
Atomic == INSTANCE IrRootAtomic
            WITH done <- phase = "done",
                 eips <- IF phase = "done" THEN eips ELSE <<>>,
                 contractTypes <- IF phase = "done" THEN contractTypes ELSE <<>>

(***************************************************************************)
(* Refinement of IrRootAtomic: processRoot, its loop over the source units *)
(* and processEips, taken together, are one call that returns every        *)
(* matched standard in Eips once and their types in ContractTypes once.    *)
(* A return before processEips is through, or a standard recorded twice,   *)
(* breaks it.                                                              *)
(***************************************************************************)
ProcessRootAtomic == Atomic!Spec

(***************************************************************************)
(* GetEntryContract finds the entry contract of a root that has contracts. *)
(* processRoot sets EntryContractId to the entry source unit's id, and     *)
(* GetEntryContract looks it up among the contracts' ids.                  *)
(***************************************************************************)
EntryContractFound ==
  phase = "done" /\ contracts # <<>> => GetEntryContract # Nil

(***************************************************************************)
(* Spec 4.3: processRoot returns, and from then on every source unit has   *)
(* its IR contract and every standard some contract matches is recorded    *)
(* in Eips, however the matches repeat across contracts.                   *)
(***************************************************************************)
LoweringCompletes ==
  <>[](/\ phase = "done"
       /\ Len(contracts) = Len(units)
       /\ ToSet(eips) = UNION {units[i] : i \in DOMAIN units})

=============================================================================
