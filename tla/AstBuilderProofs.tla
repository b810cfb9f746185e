-------------------------- MODULE AstBuilderProofs --------------------------
(***************************************************************************)
(* Proofs about AstBuilder for every value of the bounds: the build stays  *)
(* well typed, and no id GetNextID hands out is ever kept by two holders.  *)
(* Neither TypeOK nor IdsUnique is inductive alone: uniqueness needs every *)
(* kept id to lie below the counter (a conjunct of TypeOK), and the typing *)
(* of the new nodes needs cur to name a contract.  Their conjunction is.   *)
(***************************************************************************)
EXTENDS AstBuilder, SequenceTheorems, TLAPS

Parts == {"node", "src"}
HolderSet(I) == [id: I, of: Nat, part: Parts]
Unique(H) == \A h1, h2 \in H : h1.id = h2.id => h1 = h2

IInv == TypeOK /\ IdsUnique

-----------------------------------------------------------------------------
(***************************************************************************)
(* Allocation: ids kept so far lie below n, the new ones in n..(m - 1).    *)
(***************************************************************************)
LEMMA Alloc ==
  ASSUME NEW H, NEW N, NEW n \in Nat \ {0}, NEW m \in Nat, n <= m,
         H \subseteq HolderSet(1..(n - 1)), Unique(H),
         N \subseteq HolderSet(n..(m - 1)), Unique(N)
  PROVE  /\ H \cup N \subseteq HolderSet(1..(m - 1))
         /\ Unique(H \cup N)
<1>1. H \cup N \subseteq HolderSet(1..(m - 1))
  BY DEF HolderSet
<1>2. Unique(H \cup N)
  BY DEF Unique, HolderSet
<1>3. QED  BY <1>1, <1>2

\* Kept ids of two disjoint ranges never collide.
LEMMA UniqueUnion ==
  ASSUME NEW A, NEW B, NEW IA, NEW IB, IA \cap IB = {},
         A \subseteq HolderSet(IA), B \subseteq HolderSet(IB), Unique(A), Unique(B)
  PROVE  Unique(A \cup B)
BY DEF HolderSet, Unique

\* The holders of nodes with ids in S lie in I and share no id.
LEMMA NodeHoldersProps ==
  ASSUME NEW S, NEW I, S \subseteq I, I \subseteq Nat
  PROVE  /\ NodeHolders(S) \subseteq HolderSet(I)
         /\ Unique(NodeHolders(S))
         /\ \A h \in NodeHolders(S) : h.id \in S
BY DEF NodeHolders, Holder, HolderSet, Unique, Parts

\* Adding one Src holder whose id no node of S takes keeps them apart.
LEMMA WithSrc ==
  ASSUME NEW S, NEW I, NEW j, NEW o \in Nat, S \subseteq I, I \subseteq Nat,
         j \in I, j \notin S
  PROVE  /\ NodeHolders(S) \cup {Holder(j, o, "src")} \subseteq HolderSet(I)
         /\ Unique(NodeHolders(S) \cup {Holder(j, o, "src")})
BY NodeHoldersProps DEF NodeHolders, Holder, HolderSet, Unique, Parts

\* The node records the parsers build are NodeRecs.
LEMMA NodeType ==
  ASSUME NEW k \in Kinds, NEW p \in Nat, NEW o \in Nat, NEW w \in Nat
  PROVE  /\ Node(k, p, o) \in NodeRec
         /\ Typed(k, p, o, w) \in NodeRec
BY DEF Node, Typed, NodeRec

\* The ParentIndex closure returns an id.
LEMMA ParentIndexType ==
  ASSUME NEW a \in Nat, NEW b \in Nat, NEW c \in Nat, NEW d \in Nat, NEW e \in Nat
  PROVE  ParentIndex(a, b, c, d, e) \in Nat
BY DEF ParentIndex

\* BitXorOperation.Parse keeps ids x+1..x+4 (x itself dropped), none twice.
LEMMA XorHoldersProps ==
  ASSUME NEW x \in Nat
  PROVE  /\ XorHolders(x) \subseteq HolderSet(x..(x + 4))
         /\ Unique(XorHolders(x))
<1>1. /\ {x + 1, x + 3, x + 4} \subseteq x..(x + 4) /\ x..(x + 4) \subseteq Nat
      /\ x + 2 \in x..(x + 4) /\ x + 2 \notin {x + 1, x + 3, x + 4}
      /\ x + 1 \in Nat
  OBVIOUS
<1>2. QED  BY <1>1, WithSrc, Zenon DEF XorHolders

\* The xor node and its two operands are NodeRecs.
LEMMA XorNodesType ==
  ASSUME NEW x \in Nat, NEW v \in Nat, NEW b \in Nat, NEW fn \in Nat,
         NEW w1 \in Nat, NEW w2 \in Nat, cur \in Nat
  PROVE  XorNodes(x, v, b, fn, w1, w2) \in [{x + 1, x + 3, x + 4} -> NodeRec]
<1>1. /\ ParentIndex(v, NoId, b, fn, cur) \in Nat
      /\ ParentIndex(v, x + 1, b, fn, cur) \in Nat
  BY ParentIndexType DEF NoId
<1>2. (IF v # NoId THEN v ELSE b) \in Nat
  OBVIOUS
<1>3. /\ Typed("xor", ParentIndex(v, NoId, b, fn, cur), IF v # NoId THEN v ELSE b, w1) \in NodeRec
      /\ Typed("ident", ParentIndex(v, x + 1, b, fn, cur), x + 1, w1) \in NodeRec
      /\ Typed("ident", ParentIndex(v, x + 1, b, fn, cur), x + 1, w2) \in NodeRec
  BY <1>1, <1>2, NodeType DEF Kinds
<1>4. QED  BY <1>3 DEF XorNodes

\* Counting one body element keeps the contracts typed.
LEMMA CountedType ==
  ASSUME TypeOK, cur # NoId, NEW ok \in BOOLEAN
  PROVE  /\ Counted(ok) \in [DOMAIN contracts -> ContractRec]
         /\ DOMAIN Counted(ok) = DOMAIN contracts
<1>1. cur \in DOMAIN contracts /\ contracts[cur] \in ContractRec
  BY DEF TypeOK
<1>2. [contracts[cur] EXCEPT !.elems = @ + 1, !.fi = @ /\ ok] \in ContractRec
  <2> DEFINE r == contracts[cur]
  <2>1. r.elems + 1 \in Nat /\ (r.fi /\ ok) \in BOOLEAN
    BY <1>1 DEF ContractRec
  <2>2. QED  BY <1>1, <2>1, Zenon DEF ContractRec
<1>3. Counted(ok) = [contracts EXCEPT ![cur] = [contracts[cur] EXCEPT !.elems = @ + 1, !.fi = @ /\ ok]]
  BY <1>1 DEF Counted
<1>4. QED  BY <1>1, <1>2, <1>3 DEF TypeOK

-----------------------------------------------------------------------------
(***************************************************************************)
(* Refinement of IdAllocator.  Every step that touches ids is an           *)
(* allocation step: the holders grow by a batch N whose ids lie between    *)
(* the old and the new counter, one holder each.                           *)
(***************************************************************************)
AllocStep(N) ==
  /\ holders' = holders \cup N
  /\ nextId' \in Nat /\ nextId < nextId'
  /\ N \subseteq HolderSet(nextId..(nextId' - 1))
  /\ Unique(N)

\* An allocation step is a step of the abstract allocator.
\* An allocation step keeps every kept id below the counter, none twice.
LEMMA AllocKeeps ==
  ASSUME IInv, NEW N, AllocStep(N)
  PROVE  holders' \subseteq HolderSet(1..(nextId' - 1)) /\ Unique(holders')
<1>1. /\ holders \subseteq HolderSet(1..(nextId - 1)) /\ Unique(holders)
      /\ nextId \in Nat \ {0}
  BY DEF IInv, TypeOK, IdsUnique, HolderSet, Parts, Unique
<1>2. nextId' \in Nat /\ nextId <= nextId'
  BY <1>1 DEF AllocStep
<1>3. /\ holders \cup N \subseteq HolderSet(1..(nextId' - 1))
      /\ Unique(holders \cup N)
  BY <1>1, <1>2, Alloc DEF AllocStep
<1>4. QED  BY <1>3 DEF AllocStep

LEMMA AllocRefines ==
  ASSUME NEW N, AllocStep(N)
  PROVE  Allocator!Allocate
<1>1. holders' \ holders \subseteq N
  BY DEF AllocStep
<1>2. QED  BY <1>1 DEF AllocStep, Allocator!Allocate, Allocator!InRange,
                       Allocator!Unique, HolderSet, Unique

\* A function definition takes one id.
LEMMA FunctionAlloc ==
  ASSUME IInv, NEW impl \in BOOLEAN, FunctionElement(impl)
  PROVE  AllocStep(NodeHolders({nextId}))
<1>1. /\ nextId \in Nat \ {0} /\ nextId' = nextId + 1
      /\ holders' = holders \cup NodeHolders({nextId})
  BY DEF FunctionElement, IInv, TypeOK
<1>2. {nextId} \subseteq nextId..(nextId' - 1) /\ nextId..(nextId' - 1) \subseteq Nat
  BY <1>1
<1>3. /\ NodeHolders({nextId}) \subseteq HolderSet(nextId..(nextId' - 1))
      /\ Unique(NodeHolders({nextId}))
  BY <1>2, NodeHoldersProps
<1>4. QED  BY <1>1, <1>3 DEF AllocStep

\* An enum takes ids for itself, its Src and its values.
LEMMA EnumAlloc ==
  ASSUME IInv, NEW k \in 1..MaxEnumValues, EnumElement(k)
  PROVE  AllocStep(NodeHolders({nextId} \cup {EnumMemberId(nextId, i) : i \in 1..k})
                   \cup {Holder(nextId + 1, nextId, "src")})
<1> DEFINE e == nextId
           S == {e} \cup {EnumMemberId(e, i) : i \in 1..k}
           I == e..(e + 2 + k - 1)
<1>1. /\ nextId \in Nat \ {0} /\ k \in Nat
      /\ nextId' = e + 2 + k
      /\ holders' = holders \cup (NodeHolders(S) \cup {Holder(e + 1, e, "src")})
  BY BoundsAssumption DEF EnumElement, IInv, TypeOK
<1>2. /\ S \subseteq I /\ I \subseteq Nat
      /\ e + 1 \in I /\ e + 1 \notin S
  BY <1>1 DEF EnumMemberId
<1>3. /\ NodeHolders(S) \cup {Holder(e + 1, e, "src")} \subseteq HolderSet(I)
      /\ Unique(NodeHolders(S) \cup {Holder(e + 1, e, "src")})
  BY <1>1, <1>2, WithSrc
<1>4. I = nextId..(nextId' - 1)
  BY <1>1
<1>5. QED  BY <1>1, <1>3, <1>4 DEF AllocStep

\* A state variable with an xor takes ids for the variable and the xor.
LEMMA StateVarXorAlloc ==
  ASSUME IInv, NEW w1 \in Widths, NEW w2 \in Widths, StateVarXor(w1, w2)
  PROVE  AllocStep(NodeHolders({nextId}) \cup XorHolders(nextId + 1))
<1>1. /\ nextId \in Nat \ {0} /\ nextId' = nextId + 6
      /\ holders' = holders \cup (NodeHolders({nextId}) \cup XorHolders(nextId + 1))
  BY DEF StateVarXor, IInv, TypeOK
<1>2. /\ NodeHolders({nextId}) \subseteq HolderSet(nextId..nextId)
      /\ Unique(NodeHolders({nextId}))
  <2>1. {nextId} \subseteq nextId..nextId /\ nextId..nextId \subseteq Nat
    BY <1>1
  <2>2. QED  BY <2>1, NodeHoldersProps
<1>3. XorHolders(nextId + 1) \subseteq HolderSet((nextId + 1)..(nextId + 5))
      /\ Unique(XorHolders(nextId + 1))
  <2>1. nextId + 1 \in Nat /\ nextId + 1 + 4 = nextId + 5
    BY <1>1
  <2>2. QED  BY <2>1, XorHoldersProps
<1>4. /\ nextId..nextId \cap (nextId + 1)..(nextId + 5) = {}
      /\ nextId..nextId \subseteq nextId..(nextId' - 1)
      /\ (nextId + 1)..(nextId + 5) \subseteq nextId..(nextId' - 1)
  BY <1>1
<1>5. NodeHolders({nextId}) \cup XorHolders(nextId + 1) \subseteq HolderSet(nextId..(nextId' - 1))
  BY <1>2, <1>3, <1>4 DEF HolderSet
<1>6. Unique(NodeHolders({nextId}) \cup XorHolders(nextId + 1))
  BY <1>2, <1>3, <1>4, UniqueUnion
<1>7. nextId' \in Nat /\ nextId < nextId'
  BY <1>1
<1>8. QED  BY <1>1, <1>5, <1>6, <1>7, Zenon DEF AllocStep

\* A function whose body is an xor takes ids for the function, its body and the xor.
LEMMA FunctionXorAlloc ==
  ASSUME IInv, NEW w1 \in Widths, NEW w2 \in Widths, FunctionXor(w1, w2)
  PROVE  AllocStep(NodeHolders({nextId, nextId + 1}) \cup XorHolders(nextId + 2))
<1>1. /\ nextId \in Nat \ {0} /\ nextId' = nextId + 7
      /\ holders' = holders \cup (NodeHolders({nextId, nextId + 1}) \cup XorHolders(nextId + 2))
  BY DEF FunctionXor, IInv, TypeOK
<1>2. /\ NodeHolders({nextId, nextId + 1}) \subseteq HolderSet(nextId..(nextId + 1))
      /\ Unique(NodeHolders({nextId, nextId + 1}))
  <2>1. {nextId, nextId + 1} \subseteq nextId..(nextId + 1) /\ nextId..(nextId + 1) \subseteq Nat
    BY <1>1
  <2>2. QED  BY <2>1, NodeHoldersProps
<1>3. XorHolders(nextId + 2) \subseteq HolderSet((nextId + 2)..(nextId + 6))
      /\ Unique(XorHolders(nextId + 2))
  <2>1. nextId + 2 \in Nat /\ nextId + 2 + 4 = nextId + 6
    BY <1>1
  <2>2. QED  BY <2>1, XorHoldersProps
<1>4. /\ nextId..(nextId + 1) \cap (nextId + 2)..(nextId + 6) = {}
      /\ nextId..(nextId + 1) \subseteq nextId..(nextId' - 1)
      /\ (nextId + 2)..(nextId + 6) \subseteq nextId..(nextId' - 1)
  BY <1>1
<1>5. NodeHolders({nextId, nextId + 1}) \cup XorHolders(nextId + 2) \subseteq HolderSet(nextId..(nextId' - 1))
  BY <1>2, <1>3, <1>4 DEF HolderSet
<1>6. Unique(NodeHolders({nextId, nextId + 1}) \cup XorHolders(nextId + 2))
  BY <1>2, <1>3, <1>4, UniqueUnion
<1>7. nextId' \in Nat /\ nextId < nextId'
  BY <1>1
<1>8. QED  BY <1>1, <1>5, <1>6, <1>7, Zenon DEF AllocStep

-----------------------------------------------------------------------------
(***************************************************************************)
(* The invariant holds initially and is kept by every action.              *)
(***************************************************************************)
LEMMA InitIInv == Init => IInv
<1> SUFFICES ASSUME Init PROVE IInv
  OBVIOUS
<1>1. TypeOK
  BY NodeType DEF Init, TypeOK, NodeHolders, Holder, RootId, NoId, Kinds
<1>2. IdsUnique
  BY DEF Init, IdsUnique, NodeHolders, Holder
<1>3. QED  BY <1>1, <1>2 DEF IInv

\* A skipped (empty or nil) body element keeps the invariant.
LEMMA SkippedIInv == IInv /\ SkippedElement => IInv'
<1> SUFFICES ASSUME IInv, SkippedElement PROVE IInv'
  OBVIOUS
<1>1. cur # NoId
  BY DEF SkippedElement, InBody
<1>2. TypeOK'
  BY <1>1, CountedType DEF IInv, SkippedElement, TypeOK
<1>3. IdsUnique'
  BY DEF IInv, SkippedElement, IdsUnique
<1>4. QED  BY <1>2, <1>3 DEF IInv

\* The end of Contract.Parse keeps the invariant.
LEMMA FinishIInv == IInv /\ FinishContract => IInv'
<1> SUFFICES ASSUME IInv, FinishContract PROVE IInv'
  OBVIOUS
<1>1. TypeOK'
  BY DEF IInv, FinishContract, TypeOK, NodeRec, ContractRec
<1>2. IdsUnique'
  BY DEF IInv, FinishContract, IdsUnique
<1>3. QED  BY <1>1, <1>2 DEF IInv

\* A function definition keeps the invariant.
LEMMA FunctionIInv ==
  ASSUME IInv, NEW impl \in BOOLEAN, FunctionElement(impl)
  PROVE  IInv'
<1>1. /\ cur # NoId /\ cur \in DOMAIN contracts /\ cur \in Nat
      /\ nextId \in Nat \ {0}
  BY DEF FunctionElement, InBody, IInv, TypeOK
<1>2. /\ holders' \subseteq HolderSet(1..(nextId' - 1))
      /\ Unique(holders')
  <2>1. AllocStep(NodeHolders({nextId}))
    BY FunctionAlloc
  <2>2. QED  BY <2>1, AllocKeeps
<1>3. /\ nodes' \in [DOMAIN nodes' -> NodeRec]
      /\ DOMAIN nodes' \subseteq 1..(nextId' - 1)
  <2> DEFINE g == [x \in {nextId} |-> [Node("function", cur, cur) EXCEPT !.impl = impl]]
  <2>1. Node("function", cur, cur) \in NodeRec
    BY <1>1, NodeType DEF Kinds
  <2>2. g \in [DOMAIN g -> NodeRec] /\ DOMAIN g = {nextId}
    BY <2>1 DEF NodeRec
  <2>3. nodes \in [DOMAIN nodes -> NodeRec] /\ DOMAIN nodes \subseteq 1..(nextId - 1)
    BY DEF IInv, TypeOK
  <2>4. Grow(nodes, g) \in [DOMAIN nodes \cup DOMAIN g -> NodeRec]
        /\ DOMAIN Grow(nodes, g) = DOMAIN nodes \cup DOMAIN g
    BY <2>2, <2>3 DEF Grow
  <2>5. nodes' = Grow(nodes, g) /\ nextId' = nextId + 1
    BY DEF FunctionElement
  <2>6. QED  BY <1>1, <2>2, <2>3, <2>4, <2>5
<1>4. /\ contracts' \in [DOMAIN contracts' -> ContractRec]
      /\ DOMAIN contracts' = DOMAIN contracts
  BY <1>1, CountedType DEF FunctionElement, IInv
<1>5. /\ nextId' \in Nat \ {0}
      /\ cur' \in DOMAIN contracts' \cup {NoId}
      /\ enums' \in Seq(Nat)
      /\ DOMAIN contracts' \subseteq Nat
  BY <1>1, <1>4 DEF FunctionElement, IInv, TypeOK
<1>6. QED
  BY <1>2, <1>3, <1>4, <1>5
  DEF IInv, TypeOK, IdsUnique, HolderSet, Parts, Unique

\* EnumDefinition.Parse keeps the invariant: its Src id is not a node's.
LEMMA EnumIInv ==
  ASSUME IInv, NEW k \in 1..MaxEnumValues, EnumElement(k)
  PROVE  IInv'
<1> DEFINE e == nextId
           members == {EnumMemberId(e, i) : i \in 1..k}
           S == {e} \cup members
           I == e..(e + 2 + k - 1)
<1>1. /\ cur # NoId /\ cur \in DOMAIN contracts /\ cur \in Nat
      /\ nextId \in Nat \ {0} /\ k \in Nat
  BY BoundsAssumption DEF EnumElement, InBody, IInv, TypeOK
<1>2. /\ S \subseteq I /\ I \subseteq Nat
      /\ e + 1 \in I /\ e + 1 \notin S
  BY <1>1 DEF EnumMemberId
<1>3. /\ holders' \subseteq HolderSet(1..(nextId' - 1))
      /\ Unique(holders')
  <2>1. AllocStep(NodeHolders(S) \cup {Holder(e + 1, e, "src")})
    BY EnumAlloc
  <2>2. QED  BY <2>1, AllocKeeps
<1>4. /\ nodes' \in [DOMAIN nodes' -> NodeRec]
      /\ DOMAIN nodes' \subseteq 1..(nextId' - 1)
  <2> DEFINE g == [x \in S |-> IF x = e THEN Node("enum", cur, cur)
                                       ELSE Node("enumValue", e, e)]
  <2>1. Node("enum", cur, cur) \in NodeRec /\ Node("enumValue", e, e) \in NodeRec
    BY <1>1, NodeType DEF Kinds
  <2>2. g \in [DOMAIN g -> NodeRec] /\ DOMAIN g = S
    BY <2>1
  <2>3. nodes \in [DOMAIN nodes -> NodeRec] /\ DOMAIN nodes \subseteq 1..(nextId - 1)
    BY DEF IInv, TypeOK
  <2>4. Grow(nodes, g) \in [DOMAIN nodes \cup S -> NodeRec]
        /\ DOMAIN Grow(nodes, g) = DOMAIN nodes \cup S
    BY <2>2, <2>3 DEF Grow
  <2>5. nodes' = Grow(nodes, g) /\ nextId' = e + 2 + k
    BY DEF EnumElement
  <2>6. QED  BY <1>1, <1>2, <2>3, <2>4, <2>5
<1>5. /\ contracts' \in [DOMAIN contracts' -> ContractRec]
      /\ DOMAIN contracts' = DOMAIN contracts
  BY <1>1, CountedType DEF EnumElement, IInv
<1>6. enums' \in Seq(Nat)
  BY <1>1 DEF EnumElement, IInv, TypeOK
<1>7. nextId' \in Nat \ {0}
  <2>1. nextId' = nextId + 2 + k
    BY DEF EnumElement
  <2>2. QED  BY <1>1, <2>1
<1>8. cur' \in DOMAIN contracts' \cup {NoId} /\ DOMAIN contracts' \subseteq Nat
  <2>1. cur' = cur
    BY DEF EnumElement
  <2>2. QED  BY <1>1, <1>5, <2>1 DEF IInv, TypeOK
<1>9. QED
  BY <1>3, <1>4, <1>5, <1>6, <1>7, <1>8
  DEF IInv, TypeOK, IdsUnique, HolderSet, Parts, Unique

\* A state variable initialised by an xor keeps the invariant.
LEMMA StateVarXorIInv ==
  ASSUME IInv, NEW w1 \in Widths, NEW w2 \in Widths, StateVarXor(w1, w2)
  PROVE  IInv'
<1>1. /\ cur # NoId /\ cur \in DOMAIN contracts /\ cur \in Nat
      /\ nextId \in Nat \ {0} /\ w1 \in Nat /\ w2 \in Nat
  BY WidthsAssumption DEF StateVarXor, InBody, IInv, TypeOK
<1>2. /\ nextId' = nextId + 6
      /\ holders' = holders \cup NodeHolders({nextId}) \cup XorHolders(nextId + 1)
      /\ nodes' = Grow(Grow(nodes, [y \in {nextId} |-> Node("var", cur, cur)]),
                        XorNodes(nextId + 1, nextId, NoId, NoId, w1, w2))
      /\ contracts' = Counted(TRUE)
      /\ cur' = cur /\ enums' = enums
  BY <1>1 DEF StateVarXor
<1>3. /\ holders' \subseteq HolderSet(1..(nextId' - 1))
      /\ Unique(holders')
  <2>1. AllocStep(NodeHolders({nextId}) \cup XorHolders(nextId + 1))
    BY StateVarXorAlloc
  <2>2. QED  BY <2>1, AllocKeeps
<1>4. /\ nodes' \in [DOMAIN nodes' -> NodeRec]
      /\ DOMAIN nodes' \subseteq 1..(nextId' - 1)
  <2> DEFINE g1 == [y \in {nextId} |-> Node("var", cur, cur)]
             g2 == XorNodes(nextId + 1, nextId, NoId, NoId, w1, w2)
  <2>1. g1 \in [{nextId} -> NodeRec]
    BY <1>1, NodeType DEF Kinds
  <2>2. g2 \in [{nextId + 2, nextId + 4, nextId + 5} -> NodeRec]
    <3>1. /\ nextId + 1 \in Nat /\ NoId \in Nat
          /\ {nextId + 1 + 1, nextId + 1 + 3, nextId + 1 + 4} = {nextId + 2, nextId + 4, nextId + 5}
      BY <1>1 DEF NoId
    <3>2. QED  BY <1>1, <3>1, XorNodesType
  <2>3. nodes \in [DOMAIN nodes -> NodeRec] /\ DOMAIN nodes \subseteq 1..(nextId - 1)
    BY DEF IInv, TypeOK
  <2>4. Grow(Grow(nodes, g1), g2) \in [DOMAIN nodes \cup {nextId} \cup {nextId + 2, nextId + 4, nextId + 5} -> NodeRec]
        /\ DOMAIN Grow(Grow(nodes, g1), g2) = DOMAIN nodes \cup {nextId} \cup {nextId + 2, nextId + 4, nextId + 5}
    BY <2>1, <2>2, <2>3 DEF Grow
  <2>5. QED  BY <1>1, <1>2, <2>3, <2>4
<1>5. /\ contracts' \in [DOMAIN contracts' -> ContractRec]
      /\ DOMAIN contracts' = DOMAIN contracts
  BY <1>1, <1>2, CountedType DEF IInv
<1>6. /\ nextId' \in Nat \ {0}
      /\ cur' \in DOMAIN contracts' \cup {NoId} /\ DOMAIN contracts' \subseteq Nat
      /\ enums' \in Seq(Nat)
  <2>1. nextId' \in Nat \ {0}
    BY <1>1, <1>2
  <2>2. cur' \in DOMAIN contracts' \cup {NoId} /\ DOMAIN contracts' \subseteq Nat
    BY <1>1, <1>2, <1>5 DEF IInv, TypeOK
  <2>3. enums' \in Seq(Nat)
    BY <1>2 DEF IInv, TypeOK
  <2>4. QED  BY <2>1, <2>2, <2>3
<1>7. QED
  BY <1>3, <1>4, <1>5, <1>6
  DEF IInv, TypeOK, IdsUnique, HolderSet, Parts, Unique

\* A function whose body evaluates an xor keeps the invariant.
LEMMA FunctionXorIInv ==
  ASSUME IInv, NEW w1 \in Widths, NEW w2 \in Widths, FunctionXor(w1, w2)
  PROVE  IInv'
<1>1. /\ cur # NoId /\ cur \in DOMAIN contracts /\ cur \in Nat
      /\ nextId \in Nat \ {0} /\ w1 \in Nat /\ w2 \in Nat
  BY WidthsAssumption DEF FunctionXor, InBody, IInv, TypeOK
<1>2. /\ nextId' = nextId + 7
      /\ holders' = holders \cup NodeHolders({nextId, nextId + 1}) \cup XorHolders(nextId + 2)
      /\ nodes' = Grow(Grow(nodes, [y \in {nextId, nextId + 1} |->
                                      IF y = nextId THEN Node("function", cur, cur)
                                                    ELSE Node("body", nextId, nextId)]),
                        XorNodes(nextId + 2, NoId, nextId + 1, nextId, w1, w2))
      /\ contracts' = Counted(TRUE)
      /\ cur' = cur /\ enums' = enums
  BY <1>1 DEF FunctionXor
<1>3. /\ holders' \subseteq HolderSet(1..(nextId' - 1))
      /\ Unique(holders')
  <2>1. AllocStep(NodeHolders({nextId, nextId + 1}) \cup XorHolders(nextId + 2))
    BY FunctionXorAlloc
  <2>2. QED  BY <2>1, AllocKeeps
<1>4. /\ nodes' \in [DOMAIN nodes' -> NodeRec]
      /\ DOMAIN nodes' \subseteq 1..(nextId' - 1)
  <2> DEFINE g1 == [y \in {nextId, nextId + 1} |->
                     IF y = nextId THEN Node("function", cur, cur)
                                   ELSE Node("body", nextId, nextId)]
             g2 == XorNodes(nextId + 2, NoId, nextId + 1, nextId, w1, w2)
  <2>1. g1 \in [{nextId, nextId + 1} -> NodeRec]
    <3>1. Node("function", cur, cur) \in NodeRec /\ Node("body", nextId, nextId) \in NodeRec
      BY <1>1, NodeType DEF Kinds
    <3>2. QED  BY <3>1
  <2>2. g2 \in [{nextId + 3, nextId + 5, nextId + 6} -> NodeRec]
    <3>1. /\ nextId + 2 \in Nat /\ nextId + 1 \in Nat /\ NoId \in Nat
          /\ {nextId + 2 + 1, nextId + 2 + 3, nextId + 2 + 4} = {nextId + 3, nextId + 5, nextId + 6}
      BY <1>1 DEF NoId
    <3>2. QED  BY <1>1, <3>1, XorNodesType
  <2>3. nodes \in [DOMAIN nodes -> NodeRec] /\ DOMAIN nodes \subseteq 1..(nextId - 1)
    BY DEF IInv, TypeOK
  <2>4. Grow(Grow(nodes, g1), g2) \in [DOMAIN nodes \cup {nextId, nextId + 1} \cup {nextId + 3, nextId + 5, nextId + 6} -> NodeRec]
        /\ DOMAIN Grow(Grow(nodes, g1), g2) = DOMAIN nodes \cup {nextId, nextId + 1} \cup {nextId + 3, nextId + 5, nextId + 6}
    BY <2>1, <2>2, <2>3 DEF Grow
  <2>5. nodes' = Grow(Grow(nodes, g1), g2) /\ nextId' - 1 = nextId + 6
    BY <1>1, <1>2
  <2>6. QED  BY <1>1, <2>3, <2>4, <2>5
<1>5. /\ contracts' \in [DOMAIN contracts' -> ContractRec]
      /\ DOMAIN contracts' = DOMAIN contracts
  BY <1>1, <1>2, CountedType DEF IInv
<1>6. /\ nextId' \in Nat \ {0}
      /\ cur' \in DOMAIN contracts' \cup {NoId} /\ DOMAIN contracts' \subseteq Nat
      /\ enums' \in Seq(Nat)
  <2>1. nextId' \in Nat \ {0}
    BY <1>1, <1>2
  <2>2. cur' \in DOMAIN contracts' \cup {NoId} /\ DOMAIN contracts' \subseteq Nat
    BY <1>1, <1>2, <1>5 DEF IInv, TypeOK
  <2>3. enums' \in Seq(Nat)
    BY <1>2 DEF IInv, TypeOK
  <2>4. QED  BY <2>1, <2>2, <2>3
<1>7. QED
  BY <1>3, <1>4, <1>5, <1>6
  DEF IInv, TypeOK, IdsUnique, HolderSet, Parts, Unique

\* NewSourceUnit and Contract.Parse up to the body loop keep the invariant.
LEMMA ParseContractIInv ==
  ASSUME IInv, NEW np \in 0..MaxPragmas, NEW ni \in 0..MaxImports,
         NEW bs \in BaseChoices, ParseContract(np, ni, bs)
  PROVE  IInv' /\ \E N : AllocStep(N)
<1> DEFINE u == nextId
           pragmas == (u + 2)..(u + 1 + np)
           imports == [i \in 1..ni |-> u + 1 + np + i]
           importSet == {imports[i] : i \in 1..ni}
           c == u + 2 + np + ni
           baseNodes == (c + 1)..(c + Len(bs))
           new == {u, c} \cup pragmas \cup importSet \cup baseNodes
           N == NodeHolders(new) \cup {Holder(u + 1, u, "src")}
           rec == [unit |-> u, fi |-> TRUE, lin |-> <<c>> \o imports, deps |-> imports,
                   bases |-> bs, elems |-> 0, finished |-> FALSE]
<1>1. /\ nextId \in Nat \ {0} /\ np \in Nat /\ ni \in Nat
      /\ cur = NoId /\ DOMAIN contracts \subseteq Nat
  BY BoundsAssumption DEF ParseContract, IInv, TypeOK
<1>2. bs \in Seq(Nat) /\ Len(bs) \in {0, 1}
  <2>1. Finished \cup {NoId} \subseteq Nat
    BY <1>1 DEF Finished, NoId
  <2>2. CASE bs = <<>>
    BY <2>2
  <2>3. CASE bs # <<>>
    <3>1. PICK b \in Finished \cup {NoId} : bs = <<b>>
      BY <2>3 DEF BaseChoices
    <3>2. QED  BY <2>1, <3>1
  <2>4. QED  BY <2>2, <2>3
<1>3. /\ nextId' = c + 1 + Len(bs)
      /\ holders' = holders \cup {Holder(u + 1, u, "src")} \cup NodeHolders(new)
      /\ nodes' = Grow(nodes, [x \in new |->
                      CASE x = u -> Node("unit", RootId, RootId)
                        [] x = c -> Node("contract", u, NoId)
                        [] x \in pragmas -> Node("pragma", u, u)
                        [] x \in importSet -> Node("import", u, u)
                        [] OTHER -> Node("base", c, c)])
      /\ contracts' = Grow(contracts, [x \in {c} |-> rec])
      /\ cur' = c /\ enums' = enums
  BY DEF ParseContract
<1>4. /\ new \subseteq u..(c + Len(bs)) /\ u..(c + Len(bs)) \subseteq Nat
      /\ u + 1 \in u..(c + Len(bs)) /\ u + 1 \notin new
      /\ c \in Nat /\ c + Len(bs) = nextId' - 1
  <2>1. importSet \subseteq (u + 2 + np)..(u + 1 + np + ni)
    <3>1. \A i \in 1..ni : imports[i] \in (u + 2 + np)..(u + 1 + np + ni)
      BY <1>1
    <3>2. QED  BY <3>1
  <2>2. /\ pragmas \subseteq (u + 2)..(c + Len(bs))
        /\ (u + 2 + np)..(u + 1 + np + ni) \subseteq (u + 2)..(c + Len(bs))
        /\ baseNodes \subseteq (u + 2)..(c + Len(bs))
        /\ c \in (u + 2)..(c + Len(bs))
    BY <1>1, <1>2
  <2>3. new \subseteq {u} \cup (u + 2)..(c + Len(bs))
    BY <2>1, <2>2
  <2>4. c \in Nat /\ c + Len(bs) = nextId' - 1 /\ u + 1 <= c
    BY <1>1, <1>2, <1>3
  <2>5. QED  BY <1>1, <2>3, <2>4
<1>5. /\ AllocStep(N)
      /\ holders' \subseteq HolderSet(1..(nextId' - 1))
      /\ Unique(holders')
  <2>1. N \subseteq HolderSet(u..(c + Len(bs))) /\ Unique(N)
    BY <1>1, <1>4, WithSrc
  <2>2. holders' = holders \cup N
    BY <1>3
  <2>3. /\ nextId' \in Nat /\ nextId < nextId'
        /\ u..(c + Len(bs)) = nextId..(nextId' - 1)
    <3>1. /\ c + Len(bs) = nextId' - 1 /\ c \in Nat /\ Len(bs) \in Nat
          /\ u + 1 \in u..(c + Len(bs))
      BY <1>2, <1>4
    <3>2. nextId' = c + 1 + Len(bs)
      BY <1>3
    <3>3. QED  BY <1>1, <3>1, <3>2
  <2>4. AllocStep(N)
    BY <2>1, <2>2, <2>3, Zenon DEF AllocStep
  <2>5. QED  BY <2>4, AllocKeeps
<1>6. /\ nodes' \in [DOMAIN nodes' -> NodeRec]
      /\ DOMAIN nodes' \subseteq 1..(nextId' - 1)
  <2> DEFINE g == [x \in new |->
                      CASE x = u -> Node("unit", RootId, RootId)
                        [] x = c -> Node("contract", u, NoId)
                        [] x \in pragmas -> Node("pragma", u, u)
                        [] x \in importSet -> Node("import", u, u)
                        [] OTHER -> Node("base", c, c)]
  <2>1. /\ Node("unit", RootId, RootId) \in NodeRec
        /\ Node("contract", u, NoId) \in NodeRec
        /\ Node("pragma", u, u) \in NodeRec
        /\ Node("import", u, u) \in NodeRec
        /\ Node("base", c, c) \in NodeRec
    <3>1. RootId \in Nat /\ NoId \in Nat /\ u \in Nat /\ c \in Nat
      BY <1>1, <1>4 DEF RootId, NoId
    <3>2. QED  BY <3>1, NodeType DEF Kinds
  <2>2. g \in [new -> NodeRec]
    BY <2>1
  <2>3. nodes \in [DOMAIN nodes -> NodeRec] /\ DOMAIN nodes \subseteq 1..(nextId - 1)
    BY DEF IInv, TypeOK
  <2>4. Grow(nodes, g) \in [DOMAIN nodes \cup new -> NodeRec]
        /\ DOMAIN Grow(nodes, g) = DOMAIN nodes \cup new
    BY <2>2, <2>3 DEF Grow
  <2>5. nodes' = Grow(nodes, g)
    BY <1>3
  <2>6. new \subseteq 1..(nextId' - 1)
    BY <1>1, <1>4
  <2>7. nodes' \in [DOMAIN nodes \cup new -> NodeRec] /\ DOMAIN nodes' = DOMAIN nodes \cup new
    BY <2>4, <2>5, Zenon
  <2>8. 1..(nextId - 1) \subseteq 1..(nextId' - 1)
    BY <1>1, <1>4
  <2>9. QED  BY <2>3, <2>6, <2>7, <2>8, Zenon
<1>7. /\ contracts' \in [DOMAIN contracts' -> ContractRec]
      /\ DOMAIN contracts' = DOMAIN contracts \cup {c}
  <2>1. imports \in Seq(Nat) /\ <<c>> \in Seq(Nat)
    BY <1>1, <1>4
  <2>2. <<c>> \o imports \in Seq(Nat)
    BY <2>1, ConcatProperties
  <2>3. rec \in ContractRec
    BY <1>1, <1>2, <1>4, <2>1, <2>2 DEF ContractRec
  <2>4. contracts \in [DOMAIN contracts -> ContractRec]
    BY DEF IInv, TypeOK
  <2>5. QED  BY <1>3, <2>3, <2>4 DEF Grow
<1>8. /\ nextId' \in Nat \ {0}
      /\ cur' \in DOMAIN contracts' \cup {NoId} /\ DOMAIN contracts' \subseteq Nat
      /\ enums' \in Seq(Nat)
  <2>1. nextId' \in Nat \ {0}
    BY <1>1, <1>2, <1>3
  <2>2. cur' \in DOMAIN contracts' \cup {NoId} /\ DOMAIN contracts' \subseteq Nat
    BY <1>1, <1>3, <1>4, <1>7
  <2>3. enums' \in Seq(Nat)
    BY <1>3 DEF IInv, TypeOK
  <2>4. QED  BY <2>1, <2>2, <2>3
<1>9. IInv'
  BY <1>5, <1>6, <1>7, <1>8
  DEF IInv, TypeOK, IdsUnique, HolderSet, Parts, Unique
<1>10. QED  BY <1>5, <1>9, Zenon


-----------------------------------------------------------------------------

\* IInv is inductive: every step of the build keeps it.
LEMMA NextIInv == IInv /\ [Next]_vars => IInv'
<1> SUFFICES ASSUME IInv, [Next]_vars PROVE IInv'
  OBVIOUS
<1>1. CASE \E np \in 0..MaxPragmas, ni \in 0..MaxImports, bs \in BaseChoices :
             ParseContract(np, ni, bs)
  <2>1. PICK np \in 0..MaxPragmas, ni \in 0..MaxImports, bs \in BaseChoices :
          ParseContract(np, ni, bs)
    BY <1>1
  <2>2. QED  BY <2>1, ParseContractIInv
<1>2. CASE SkippedElement
  BY <1>2, SkippedIInv
<1>3. CASE \E impl \in BOOLEAN : FunctionElement(impl)
  BY <1>3, FunctionIInv
<1>4. CASE \E k \in 1..MaxEnumValues : EnumElement(k)
  BY <1>4, EnumIInv
<1>5. CASE \E w1, w2 \in Widths : StateVarXor(w1, w2)
  BY <1>5, StateVarXorIInv
<1>6. CASE \E w1, w2 \in Widths : FunctionXor(w1, w2)
  BY <1>6, FunctionXorIInv
<1>7. CASE FinishContract
  BY <1>7, FinishIInv
<1>8. CASE UNCHANGED vars
  BY <1>8 DEF vars, IInv, TypeOK, IdsUnique
<1>9. QED  BY <1>1, <1>2, <1>3, <1>4, <1>5, <1>6, <1>7, <1>8 DEF Next

(***************************************************************************)
(* Every state of a build is well typed: the counter stays positive, every *)
(* kept id lies below it, and every node and contract record has the      *)
(* fields Contract.Parse, EnumDefinition.Parse and BitXorOperation.Parse   *)
(* fill in.                                                                *)
(***************************************************************************)
THEOREM TypeCorrect == Spec => []TypeOK
<1>1. Init => IInv
  BY InitIInv
<1>2. IInv => TypeOK
  BY DEF IInv
<1>3. QED  BY <1>1, <1>2, NextIInv, PTL DEF Spec

(***************************************************************************)
(* Spec P2 (no duplicates), for every bound: across Contract.Parse,        *)
(* the body loop, EnumDefinition.Parse and BitXorOperation.Parse, no id    *)
(* GetNextID hands out is ever kept by two nodes or Srcs.                  *)
(***************************************************************************)
THEOREM IdsNeverShared == Spec => []IdsUnique
<1>1. Init => IInv
  BY InitIInv
<1>2. IInv => IdsUnique
  BY DEF IInv
<1>3. QED  BY <1>1, <1>2, NextIInv, PTL DEF Spec


\* Every step of the build is an allocation or leaves the counter and the
\* holders alone.
LEMMA NextRefines == IInv /\ [Next]_vars => [Allocator!Allocate]_(Allocator!vars)
<1> SUFFICES ASSUME IInv, [Next]_vars PROVE [Allocator!Allocate]_(Allocator!vars)
  OBVIOUS
<1>1. CASE \E np \in 0..MaxPragmas, ni \in 0..MaxImports, bs \in BaseChoices :
             ParseContract(np, ni, bs)
  <2>1. PICK np \in 0..MaxPragmas, ni \in 0..MaxImports, bs \in BaseChoices :
          ParseContract(np, ni, bs)
    BY <1>1
  <2>2. PICK N : AllocStep(N)
    BY <2>1, ParseContractIInv
  <2>3. QED  BY <2>2, AllocRefines
<1>2. CASE SkippedElement
  BY <1>2 DEF SkippedElement, Allocator!vars
<1>3. CASE \E impl \in BOOLEAN : FunctionElement(impl)
  BY <1>3, FunctionAlloc, AllocRefines
<1>4. CASE \E k \in 1..MaxEnumValues : EnumElement(k)
  BY <1>4, EnumAlloc, AllocRefines
<1>5. CASE \E w1, w2 \in Widths : StateVarXor(w1, w2)
  BY <1>5, StateVarXorAlloc, AllocRefines
<1>6. CASE \E w1, w2 \in Widths : FunctionXor(w1, w2)
  BY <1>6, FunctionXorAlloc, AllocRefines
<1>7. CASE FinishContract
  BY <1>7 DEF FinishContract, Allocator!vars
<1>8. CASE UNCHANGED vars
  BY <1>8 DEF vars, Allocator!vars
<1>9. QED  BY <1>1, <1>2, <1>3, <1>4, <1>5, <1>6, <1>7, <1>8 DEF Next

(***************************************************************************)
(* For every bound, the builder implements IdAllocator under the mapping   *)
(* next <- nextId, issued <- holders: GetNextID only moves forward, no     *)
(* parser takes an issued id back, and each batch of ids a parser keeps    *)
(* lies between the counter's old and new value, one holder each.         *)
(***************************************************************************)
THEOREM RefinesIdAllocator == Spec => IdAllocation
<1>1. Init => Allocator!Init
  BY DEF Init, Allocator!Init, Allocator!InRange, Allocator!Unique,
         NodeHolders, Holder, RootId
<1>2. QED  BY <1>1, InitIInv, NextIInv, NextRefines, PTL
           DEF Spec, IdAllocation, Allocator!Spec

=============================================================================
