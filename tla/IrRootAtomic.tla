---------------------------- MODULE IrRootAtomic ----------------------------
(***************************************************************************)
(* What Builder.processRoot promises its caller, abstractly: one call that *)
(* turns the RootNode's source units into a RootSourceUnit whose Eips list *)
(* every standard some unit's contract matches, once, and whose            *)
(* ContractTypes list the types spec 4.3's table gives those standards,    *)
(* once each.  Neither list is visible before the call returns.  IrRoot    *)
(* refines this specification (IrRoot!Atomic).                             *)
(***************************************************************************)
EXTENDS Naturals, Sequences, SequencesExt

CONSTANT Standards    \* the standards the detector knows

VARIABLES
  units,          \* the source units: unit i -> the standards its contract matches
  done,           \* processRoot has returned
  eips,           \* RootSourceUnit.Eips
  contractTypes   \* RootSourceUnit.ContractTypes

vars == <<units, done, eips, contractTypes>>

\* s lists no element twice.
Distinct(s) == \A i, j \in 1..Len(s) : i # j => s[i] # s[j]

\* Spec 4.3's table: the contract types a standard implies.
TableTypes(s) ==
  CASE s = "EIP20" -> {"token"}
    [] s \in {"EIP721", "EIP1155"} -> {"nft"}
    [] s \in {"EIP1967", "EIP1820"} -> {"proxy", "upgradeable"}

Init ==
  /\ units \in Seq(SUBSET Standards)
  /\ ~done
  /\ eips = <<>>
  /\ contractTypes = <<>>

\* processRoot, as one step.
Lower ==
  /\ ~done
  /\ done'
  /\ eips' \in Seq(Standards)
  /\ Distinct(eips')
  /\ ToSet(eips') = UNION {units[i] : i \in DOMAIN units}
  /\ Distinct(contractTypes')
  /\ ToSet(contractTypes') = UNION {TableTypes(e) : e \in ToSet(eips')}
  /\ UNCHANGED units

Spec == Init /\ [][Lower]_vars

=============================================================================
