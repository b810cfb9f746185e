----------------------------- MODULE IdAllocator -----------------------------
(***************************************************************************)
(* What the AST builder's GetNextID promises its parsers, abstractly: a    *)
(* counter that only moves forward, and a set of issued ids, each kept by  *)
(* one holder (a record with at least an id field).  A step issues a batch *)
(* of holders whose ids all lie in the range the counter moves over, no    *)
(* two with one id, and never takes back an issued one.  Ids may be left   *)
(* unused.  AstBuilder refines this specification (AstBuilder!Allocator).  *)
(***************************************************************************)
EXTENDS Naturals, TLAPS

VARIABLES
  next,     \* the next id the counter hands out
  issued    \* the holders of the ids handed out so far

vars == <<next, issued>>

\* Every holder of S has an id in lo..(hi - 1).
InRange(S, lo, hi) == \A h \in S : h.id \in lo..(hi - 1)

\* No two holders of S keep the same id.
Unique(S) == \A h1, h2 \in S : h1.id = h2.id => h1 = h2

Init ==
  /\ next \in Nat \ {0}
  /\ InRange(issued, 1, next)
  /\ Unique(issued)

\* One allocation: the counter moves from next to next', and the batch
\* issued in between is uniquely kept with ids from that range.
Allocate ==
  /\ next' \in Nat
  /\ next < next'
  /\ issued \subseteq issued'
  /\ InRange(issued' \ issued, next, next')
  /\ Unique(issued' \ issued)

Spec == Init /\ [][Allocate]_vars

-----------------------------------------------------------------------------
AInv == next \in Nat \ {0} /\ InRange(issued, 1, next) /\ Unique(issued)

\* An allocation issues ids above every id issued before it.
LEMMA AllocateAInv == AInv /\ [Allocate]_vars => AInv'
<1> SUFFICES ASSUME AInv, [Allocate]_vars PROVE AInv'
  OBVIOUS
<1>1. CASE Allocate
  <2>1. next' \in Nat \ {0}
    BY <1>1 DEF Allocate, AInv
  <2>2. InRange(issued', 1, next')
    BY <1>1, <2>1 DEF Allocate, AInv, InRange
  <2>3. Unique(issued')
    <3>1. \A h1 \in issued, h2 \in issued' \ issued : h1.id # h2.id
      BY <1>1 DEF Allocate, AInv, InRange
    <3>2. QED  BY <1>1, <3>1 DEF Allocate, AInv, Unique
  <2>4. QED  BY <2>1, <2>2, <2>3 DEF AInv
<1>2. CASE UNCHANGED vars
  BY <1>2 DEF vars, AInv, InRange, Unique
<1>3. QED  BY <1>1, <1>2

(***************************************************************************)
(* However many batches are issued, no id is ever kept by two holders:     *)
(* this is what the parsers rely on when they take ids from GetNextID.     *)
(***************************************************************************)
THEOREM AllocatorNeverShares == Spec => []Unique(issued)
<1>1. Init => AInv
  BY DEF Init, AInv
<1>2. AInv => Unique(issued)
  BY DEF AInv
<1>3. QED  BY <1>1, <1>2, AllocateAInv, PTL DEF Spec

=============================================================================
