----------------------------- MODULE AstBuilder -----------------------------
(***************************************************************************)
(* The AST builder of solgo (package ast): Contract.Parse, its loop over   *)
(* the contract's body elements, EnumDefinition.Parse and                  *)
(* BitXorOperation.Parse, all drawing ids from the builder's one counter   *)
(* GetNextID.  A build is sequential: a step is one call of the builder,   *)
(* and the body loop takes one step per element.  Names, source ranges    *)
(* and type strings are abstracted away: a node keeps its kind, its        *)
(* Src.ParentIndex, the node whose list holds it (its owner), the bit      *)
(* width of its type for integer expressions, and whether a function has   *)
(* a body.  Code of the builder that is not in src/ (NewSourceUnit, the    *)
(* pragma, import, inheritance and function parsers, the identifier        *)
(* parser) is modelled from spec.md sections 4.2 and 3.4.                  *)
(***************************************************************************)
EXTENDS Naturals, Sequences, FiniteSets

CONSTANTS
  MaxUnits,       \* contracts in a build (solgo makes one source unit per contract)
  MaxPragmas,     \* pragmas parsed before a contract
  MaxImports,     \* imports parsed before a contract
  MaxElements,    \* body elements of one contract
  MaxEnumValues,  \* values of one enum
  Widths          \* bit widths of the integer operands of an expression

ASSUME BoundsAssumption ==
  {MaxUnits, MaxPragmas, MaxImports, MaxElements, MaxEnumValues} \subseteq Nat
ASSUME WidthsAssumption == Widths \subseteq Nat \ {0}

NoId == 0     \* the nil node: no parent, or not yet appended to any list
RootId == 1   \* the RootNode, the first id of a build

VARIABLES
  nextId,     \* the id GetNextID returns next
  holders,    \* the ids handed out and kept: [id, of, part], part "node" or "src"
  nodes,      \* node id -> [kind, parent, owner, width, impl]
  contracts,  \* contract id -> the Contract fields Parse fills in
  cur,        \* the contract whose body is being parsed, NoId between contracts
  enums       \* the builder's currentEnums registry

vars == <<nextId, holders, nodes, contracts, cur, enums>>

Kinds == {"root", "unit", "pragma", "import", "contract", "base", "function",
          "body", "enum", "enumValue", "var", "xor", "ident"}
NodeRec == [kind: Kinds, parent: Nat, owner: Nat, width: Nat, impl: BOOLEAN]
ContractRec == [unit: Nat, fi: BOOLEAN, lin: Seq(Nat), deps: Seq(Nat),
                bases: Seq(Nat), elems: Nat, finished: BOOLEAN]

Node(k, p, o) == [kind |-> k, parent |-> p, owner |-> o, width |-> 0, impl |-> TRUE]
Typed(k, p, o, w) == [Node(k, p, o) EXCEPT !.width = w]
Holder(i, n, p) == [id |-> i, of |-> n, part |-> p]
NodeHolders(S) == {Holder(i, i, "node") : i \in S}

\* f extended with g, g winning where both are defined
Grow(f, g) == [x \in DOMAIN f \cup DOMAIN g |-> IF x \in DOMAIN g THEN g[x] ELSE f[x]]

Finished == {c \in DOMAIN contracts : contracts[c].finished}

\* The ParentIndex closure of the expression parsers: the first of
\* vDeclar, expNode, bodyNode, fnNode that is not nil, else the contract.
ParentIndex(vDeclar, expNode, bodyNode, fnNode, contractNode) ==
  IF vDeclar # NoId THEN vDeclar
  ELSE IF expNode # NoId THEN expNode
  ELSE IF bodyNode # NoId THEN bodyNode
  ELSE IF fnNode # NoId THEN fnNode
  ELSE contractNode

(***************************************************************************)
(* The build starts from the RootNode, the parent of every source unit.    *)
(***************************************************************************)
Init ==
  /\ nextId = RootId + 1
  /\ holders = NodeHolders({RootId})
  /\ nodes = [x \in {RootId} |-> Node("root", NoId, NoId)]
  /\ contracts = [x \in {} |-> CHOOSE r \in ContractRec : TRUE]
  /\ cur = NoId
  /\ enums = <<>>

(***************************************************************************)
(* Contract.Parse up to its body loop, with the NewSourceUnit call that    *)
(* precedes it: the unit, its Src, the pragmas, the imports, the contract  *)
(* and its base contracts take consecutive ids.  A base refers to a        *)
(* contract seen before, or is unresolved (NoId).  The linearization is    *)
(* the contract itself followed by the imports.                            *)
(***************************************************************************)
BaseChoices == {<<>>} \cup {<<b>> : b \in Finished \cup {NoId}}

ParseContract(np, ni, bs) ==
  /\ cur = NoId
  /\ Cardinality(DOMAIN contracts) < MaxUnits
  /\ LET u == nextId
         pragmas == (u + 2)..(u + 1 + np)
         imports == [i \in 1..ni |-> u + 1 + np + i]
         importSet == {imports[i] : i \in 1..ni}
         c == u + 2 + np + ni
         baseNodes == (c + 1)..(c + Len(bs))
         new == {u, c} \cup pragmas \cup importSet \cup baseNodes
     IN /\ nextId' = c + 1 + Len(bs)
        /\ holders' = holders \cup {Holder(u + 1, u, "src")} \cup NodeHolders(new)
        /\ nodes' = Grow(nodes, [x \in new |->
                      CASE x = u -> Node("unit", RootId, RootId)
                        [] x = c -> Node("contract", u, NoId)
                        [] x \in pragmas -> Node("pragma", u, u)
                        [] x \in importSet -> Node("import", u, u)
                        [] OTHER -> Node("base", c, c)])
        /\ contracts' = Grow(contracts, [x \in {c} |->
              [unit |-> u, fi |-> TRUE, lin |-> <<c>> \o imports, deps |-> imports,
               bases |-> bs, elems |-> 0, finished |-> FALSE]])
        /\ cur' = c
        /\ UNCHANGED enums

\* One more body element of the current contract; ok is FALSE when it
\* clears FullyImplemented.
InBody == cur # NoId /\ contracts[cur].elems < MaxElements
\* Mutation: the body loop never clears FullyImplemented.
CountedKeepsFi(ok) == [contracts EXCEPT ![cur].elems = @ + 1]
\* Mutation: the flag is set from the element instead of cleared by it.
CountedAssignsFi(ok) == [contracts EXCEPT ![cur].elems = @ + 1, ![cur].fi = ok]
Counted(ok) == [contracts EXCEPT ![cur].elems = @ + 1, ![cur].fi = @ /\ ok]

(***************************************************************************)
(* An empty body element, or one ParseDefinitions returns nil for: the     *)
(* contract is no longer fully implemented.                                *)
(***************************************************************************)
SkippedElement ==
  /\ InBody
  /\ contracts' = Counted(FALSE)
  /\ UNCHANGED <<nextId, holders, nodes, cur, enums>>

\* Mutation: the function's id is taken without advancing the counter.
FunctionElementNoAdvance(impl) ==
  /\ InBody
  /\ holders' = holders \cup NodeHolders({nextId})
  /\ nodes' = Grow(nodes, [x \in {nextId} |->
                 [Node("function", cur, cur) EXCEPT !.impl = impl]])
  /\ contracts' = Counted(impl)
  /\ UNCHANGED <<nextId, cur, enums>>

(***************************************************************************)
(* A function definition, with or without a body; one without clears       *)
(* FullyImplemented.                                                       *)
(***************************************************************************)
FunctionElement(impl) ==
  /\ InBody
  /\ nextId' = nextId + 1
  /\ holders' = holders \cup NodeHolders({nextId})
  /\ nodes' = Grow(nodes, [x \in {nextId} |->
                 [Node("function", cur, cur) EXCEPT !.impl = impl]])
  /\ contracts' = Counted(impl)
  /\ UNCHANGED <<cur, enums>>

\* Mutation: value ids start one past the Src's successor.
EnumMemberIdPastEnd(e, i) == e + 2 + i

\* The id of value i of an enum e: the i-th GetNextID after the Src's.
EnumMemberId(e, i) == e + 1 + i

(***************************************************************************)
(* An enum: NewEnumDefinition takes an id, Parse one for the Src and one   *)
(* per value; every value is a child of the enum, the enum a child of the  *)
(* contract, and the enum is appended to currentEnums.                     *)
(***************************************************************************)
EnumElement(k) ==
  /\ InBody
  /\ LET e == nextId
         members == {EnumMemberId(e, i) : i \in 1..k}
     IN /\ nextId' = e + 2 + k
        /\ holders' = holders \cup {Holder(e + 1, e, "src")}
                        \cup NodeHolders({e} \cup members)
        /\ nodes' = Grow(nodes, [x \in {e} \cup members |->
                      IF x = e THEN Node("enum", cur, cur)
                               ELSE Node("enumValue", e, e)])
        /\ contracts' = Counted(TRUE)
        /\ enums' = Append(enums, e)
        /\ UNCHANGED cur

(***************************************************************************)
(* The nodes of a BitXorOperation whose constructor took id x: Parse takes *)
(* x + 1 for the node and x + 2 for its Src, leaving x unused; its two     *)
(* operands follow.  ParentIndex gives the node's parent and, with the     *)
(* xor as expNode, its operands'.  The node's type is its first operand's. *)
(* v is the enclosing variable declaration, b and fn the enclosing body    *)
(* and function, NoId when absent.                                         *)
(***************************************************************************)
\* Mutation: the operands are put in the list of the id the constructor took.
XorNodesOperandsOnCtorId(x, v, b, fn, w1, w2) ==
  LET f == x + 1
  IN [y \in {f, x + 3, x + 4} |->
        IF y = f
        THEN Typed("xor", ParentIndex(v, NoId, b, fn, cur),
                   IF v # NoId THEN v ELSE b, w1)
        ELSE Typed("ident", ParentIndex(v, f, b, fn, cur), x,
                   IF y = x + 3 THEN w1 ELSE w2)]
XorNodes(x, v, b, fn, w1, w2) ==
  LET f == x + 1
  IN [y \in {f, x + 3, x + 4} |->
        IF y = f
        THEN Typed("xor", ParentIndex(v, NoId, b, fn, cur),
                   IF v # NoId THEN v ELSE b, w1)
        ELSE Typed("ident", ParentIndex(v, f, b, fn, cur), f,
                   IF y = x + 3 THEN w1 ELSE w2)]
\* Mutation: the Src takes the node's id instead of a fresh one.
XorHoldersSrcReusesId(x) == NodeHolders({x + 1, x + 3, x + 4}) \cup {Holder(x + 1, x + 1, "src")}
XorHolders(x) == NodeHolders({x + 1, x + 3, x + 4}) \cup {Holder(x + 2, x + 1, "src")}

\* A state variable whose initial value is an xor of two operands.
StateVarXor(w1, w2) ==
  /\ InBody
  /\ LET v == nextId
         x == nextId + 1
     IN /\ nextId' = x + 5
        /\ holders' = holders \cup NodeHolders({v}) \cup XorHolders(x)
        /\ nodes' = Grow(Grow(nodes, [y \in {v} |-> Node("var", cur, cur)]),
                         XorNodes(x, v, NoId, NoId, w1, w2))
        /\ contracts' = Counted(TRUE)
        /\ UNCHANGED <<cur, enums>>

\* A function whose body is the statement evaluating an xor of two operands.
FunctionXor(w1, w2) ==
  /\ InBody
  /\ LET fn == nextId
         b == nextId + 1
         x == nextId + 2
     IN /\ nextId' = x + 5
        /\ holders' = holders \cup NodeHolders({fn, b}) \cup XorHolders(x)
        /\ nodes' = Grow(Grow(nodes, [y \in {fn, b} |->
                               IF y = fn THEN Node("function", cur, cur)
                                         ELSE Node("body", fn, fn)]),
                         XorNodes(x, NoId, b, fn, w1, w2))
        /\ contracts' = Counted(TRUE)
        /\ UNCHANGED <<cur, enums>>

\* Mutation: the contract is never appended to its unit.
FinishContractUnattached ==
  /\ cur # NoId
  /\ contracts' = [contracts EXCEPT ![cur].finished = TRUE]
  /\ cur' = NoId
  /\ UNCHANGED <<nextId, holders, nodes, enums>>

(***************************************************************************)
(* The end of Contract.Parse: the contract is appended to its unit.        *)
(***************************************************************************)
FinishContract ==
  /\ cur # NoId
  /\ nodes' = [nodes EXCEPT ![cur].owner = contracts[cur].unit]
  /\ contracts' = [contracts EXCEPT ![cur].finished = TRUE]
  /\ cur' = NoId
  /\ UNCHANGED <<nextId, holders, enums>>

Next ==
  \/ \E np \in 0..MaxPragmas, ni \in 0..MaxImports, bs \in BaseChoices :
       ParseContract(np, ni, bs)
  \/ SkippedElement
  \/ \E impl \in BOOLEAN : FunctionElement(impl)
  \/ \E k \in 1..MaxEnumValues : EnumElement(k)
  \/ \E w1, w2 \in Widths : StateVarXor(w1, w2)
  \/ \E w1, w2 \in Widths : FunctionXor(w1, w2)
  \/ FinishContract

Spec == Init /\ [][Next]_vars

-----------------------------------------------------------------------------
TypeOK ==
  /\ nextId \in Nat \ {0}
  /\ holders \subseteq [id: 1..(nextId - 1), of: Nat, part: {"node", "src"}]
  /\ DOMAIN nodes \subseteq 1..(nextId - 1)
  /\ nodes \in [DOMAIN nodes -> NodeRec]
  /\ DOMAIN contracts \subseteq Nat
  /\ contracts \in [DOMAIN contracts -> ContractRec]
  /\ cur \in DOMAIN contracts \cup {NoId}
  /\ enums \in Seq(Nat)

\* The nodes whose lists hold n, directly or through other nodes.
AncestorsOf[n \in DOMAIN nodes] ==
  LET o == nodes[n].owner
  IN IF o \in DOMAIN nodes /\ o < n THEN {o} \cup AncestorsOf[o] ELSE {}

(***************************************************************************)
(* Spec P2 (no duplicates): no id GetNextID hands out is kept by two       *)
(* holders, nodes or Srcs, across all the parsers that share the counter.  *)
(***************************************************************************)
IdsUnique == \A h1, h2 \in holders : h1.id = h2.id => h1 = h2

(***************************************************************************)
(* Spec P3 and 3.4: whenever no contract is half-built, every node hangs   *)
(* off the RootNode, and every node in the tree names as ParentIndex a     *)
(* node that holds it, directly or transitively.                           *)
(***************************************************************************)
TreeWellFormed ==
  /\ cur = NoId => \A n \in DOMAIN nodes \ {RootId} : RootId \in AncestorsOf[n]
  /\ \A n \in DOMAIN nodes \ {RootId} :
       RootId \in AncestorsOf[n] => nodes[n].parent \in AncestorsOf[n]

\* n is in the list of a node with a smaller id.
OwnedByEarlier(n) == nodes[n].owner \in DOMAIN nodes /\ nodes[n].owner < n

\* n is linked into the tree: by its owner, or as the contract being parsed.
Linked(n) ==
  \/ /\ OwnedByEarlier(n)
     /\ \/ nodes[n].parent = nodes[n].owner
        \/ /\ OwnedByEarlier(nodes[n].owner)
           /\ nodes[n].parent = nodes[nodes[n].owner].owner
  \/ /\ n = cur
     /\ nodes[n].owner = NoId
     /\ nodes[n].parent = contracts[cur].unit

(***************************************************************************)
(* Spec 3.4, one link at a time: every node but the RootNode is in the     *)
(* list of an earlier node, and its ParentIndex is that node or, for an    *)
(* operand of an xor that initialises a variable, that node's owner; the   *)
(* one exception is the contract being parsed, which Contract.Parse        *)
(* appends to its unit, its parent, only at the end.  TreeWellFormed       *)
(* follows by induction along the owner chain.                             *)
(***************************************************************************)
TreeLinked == \A n \in DOMAIN nodes \ {RootId} : Linked(n)

(***************************************************************************)
(* Spec I3, the direction the code keeps: a contract that says it is fully *)
(* implemented holds no function without a body.                           *)
(***************************************************************************)
FullyImplementedSound ==
  \A c \in DOMAIN contracts, n \in DOMAIN nodes :
    contracts[c].fi /\ nodes[n].kind = "function" /\ nodes[n].owner = c
      => nodes[n].impl

(***************************************************************************)
(* The body loop only ever clears FullyImplemented: once a contract is not *)
(* fully implemented, no later element, implemented function or finish of *)
(* Contract.Parse makes it fully implemented again.                        *)
(***************************************************************************)
FullyImplementedNeverRestored ==
  [][\A c \in DOMAIN contracts : ~contracts[c].fi => ~contracts'[c].fi]_vars

(***************************************************************************)
(* Spec P2 (dense): the ids handed out in a build are exactly 1..N.        *)
(* BitXorOperation.Parse draws a second id for the node and drops the one  *)
(* its constructor drew.                                                   *)
(***************************************************************************)
IdsDense == {h.id : h \in holders} = 1..(nextId - 1)

\* GetNextID and the holders of its ids, seen as the abstract allocator.
Allocator == INSTANCE IdAllocator WITH next <- nextId, issued <- holders

(***************************************************************************)
(* Refinement of IdAllocator: every step of the build either leaves the    *)
(* ids alone or moves the counter forward and hands the ids in between to  *)
(* new holders, one id each, never taking an issued id back.  A parser     *)
(* that keeps an id without calling GetNextID, or that keeps one past the  *)
(* counter, breaks it.                                                     *)
(***************************************************************************)
IdAllocation == Allocator!Spec

(***************************************************************************)
(* Spec I1: a node's ParentIndex is the node whose list holds it.  The     *)
(* expression parsers rank vDeclar above expNode, so the operands of an    *)
(* xor inside a variable declaration name the declaration.                 *)
(***************************************************************************)
DirectParent ==
  \A n \in DOMAIN nodes : nodes[n].owner # NoId => nodes[n].parent = nodes[n].owner

(***************************************************************************)
(* Spec I3: "false propagates through inheritance": a contract inheriting  *)
(* from one that is not fully implemented is not fully implemented.        *)
(***************************************************************************)
FullyImplementedInherited ==
  \A c \in Finished : \A i \in 1..Len(contracts[c].bases) :
    LET b == contracts[c].bases[i]
    IN contracts[c].fi /\ b # NoId => contracts[b].fi

=============================================================================
