------------------------ MODULE AstBuilderTreeProofs ------------------------
(***************************************************************************)
(* A proof, for every bound, that every node the AST builder makes is      *)
(* linked into the tree (TreeLinked): it sits in the list of an earlier    *)
(* node, its owner, and its ParentIndex is its owner or its owner's owner; *)
(* only the contract being parsed has no owner yet.  TreeLinked alone is   *)
(* not inductive: FinishContract makes the contract's unit its owner,      *)
(* which needs the unit to be an earlier node (CurUnit), and the unit      *)
(* ParseContract makes is owned by the RootNode, which must still exist    *)
(* (RootKept).                                                             *)
(***************************************************************************)
EXTENDS AstBuilderFIProofs

\* The RootNode is never dropped.
RootKept == RootId \in DOMAIN nodes

\* The contract being parsed is in no list yet; its parent is its unit, an
\* earlier node.
CurUnit ==
  cur # NoId =>
    /\ contracts[cur].unit \in DOMAIN nodes /\ contracts[cur].unit < cur
    /\ nodes[cur].owner = NoId /\ nodes[cur].parent = contracts[cur].unit

TInv == FInv /\ RootKept /\ CurUnit /\ TreeLinked

-----------------------------------------------------------------------------
\* A step that keeps every node, and the contract being parsed with its
\* unit, keeps every node linked.
LEMMA OldLinked ==
  ASSUME TypeOK, TreeLinked,
         DOMAIN nodes \subseteq DOMAIN nodes',
         \A n \in DOMAIN nodes : nodes'[n] = nodes[n],
         cur' = cur \/ cur = NoId,
         cur # NoId => contracts'[cur].unit = contracts[cur].unit
  PROVE  \A n \in DOMAIN nodes \ {RootId} : Linked(n)'
<1> SUFFICES ASSUME NEW n \in DOMAIN nodes \ {RootId} PROVE Linked(n)'
  OBVIOUS
<1>1. n \in Nat \ {0} /\ nodes'[n] = nodes[n]
  BY DEF TypeOK
<1>2. CASE OwnedByEarlier(n)
  <2> DEFINE o == nodes[n].owner
  <2>1. o \in DOMAIN nodes /\ nodes'[o] = nodes[o] /\ OwnedByEarlier(n)'
    BY <1>1, <1>2 DEF OwnedByEarlier
  <2>2. OwnedByEarlier(o) => OwnedByEarlier(o)'
    BY <2>1 DEF OwnedByEarlier
  <2>3. \/ nodes[n].parent = o
        \/ OwnedByEarlier(o) /\ nodes[n].parent = nodes[o].owner
    <3>1. NoId \notin DOMAIN nodes
      BY DEF TypeOK, NoId
    <3>2. QED  BY <1>2, <2>1, <3>1 DEF TreeLinked, Linked
  <2>4. nodes'[n].parent = nodes[n].parent /\ nodes'[n].owner = o
        /\ nodes'[o].owner = nodes[o].owner
    BY <1>1, <2>1
  <2>5. QED  BY <2>1, <2>2, <2>3, <2>4 DEF Linked
<1>3. CASE ~OwnedByEarlier(n)
  <2>1. n = cur /\ nodes[n].owner = NoId /\ nodes[n].parent = contracts[cur].unit
    BY <1>3 DEF TreeLinked, Linked
  <2>2. cur' = cur /\ contracts'[cur].unit = contracts[cur].unit
    BY <1>1, <2>1 DEF NoId
  <2>3. QED  BY <1>1, <2>1, <2>2 DEF Linked
<1>4. QED  BY <1>2, <1>3

\* After the step, x is in the list of o, an earlier node, and o is its parent.
ChildOf(x, o) ==
  nodes'[x].owner = o /\ o \in DOMAIN nodes' /\ o < x /\ nodes'[x].parent = o

\* A new node whose parent is its owner, an earlier node, is linked.
LEMMA LinkedByOwner ==
  ASSUME NEW x, NEW o, ChildOf(x, o)
  PROVE  Linked(x)'
BY DEF Linked, OwnedByEarlier, ChildOf

\* After the step, x is in the list of o, o in the list of g, all in id
\* order, and g is the parent of x.
GrandChildOf(x, o, g) ==
  /\ nodes'[x].owner = o /\ o \in DOMAIN nodes' /\ o < x
  /\ nodes'[o].owner = g /\ g \in DOMAIN nodes' /\ g < o
  /\ nodes'[x].parent = g

\* A new node whose parent is its owner's owner, both earlier, is linked.
LEMMA LinkedByGrandOwner ==
  ASSUME NEW x, NEW o, NEW g, GrandChildOf(x, o, g)
  PROVE  Linked(x)'
BY DEF Linked, OwnedByEarlier, GrandChildOf

\* A body-loop step that keeps every node and adds the linked nodes New.
BodyAdds(New, ok) ==
  /\ cur # NoId /\ cur' = cur
  /\ DOMAIN nodes' = DOMAIN nodes \cup New
  /\ \A n \in DOMAIN nodes : nodes'[n] = nodes[n]
  /\ contracts' = Counted(ok)
  /\ \A x \in New : Linked(x)'

\* Such a step keeps the invariant's new part.
LEMMA BodyLinked ==
  ASSUME TInv, NEW New, NEW ok \in BOOLEAN, BodyAdds(New, ok)
  PROVE  RootKept' /\ CurUnit' /\ TreeLinked'
<1> USE DEF BodyAdds
<1>1. TypeOK /\ TreeLinked /\ RootKept /\ CurUnit
  BY DEF TInv, FInv, IInv
<1>2. contracts'[cur].unit = contracts[cur].unit
  BY <1>1, CountedFacts DEF TypeOK
<1>3. \A n \in DOMAIN nodes \ {RootId} : Linked(n)'
  BY <1>1, <1>2, OldLinked
<1>4. TreeLinked'
  BY <1>3 DEF TreeLinked
<1>5. cur \in DOMAIN nodes
  BY DEF TInv, FInv, IInv, ContractNodes, TypeOK
<1>6. nodes'[cur] = nodes[cur]
  BY <1>5
<1>7. QED  BY <1>1, <1>2, <1>4, <1>6 DEF RootKept, CurUnit

-----------------------------------------------------------------------------
\* What every body-loop action may use: cur is an earlier contract node.
LEMMA CurNode ==
  ASSUME TInv, cur # NoId
  PROVE  /\ cur \in DOMAIN nodes /\ cur \in Nat /\ cur < nextId
         /\ nextId \in Nat \ {0}
         /\ \A n \in DOMAIN nodes : n < nextId
BY DEF TInv, FInv, IInv, TypeOK, ContractNodes

\* A function: its parent and owner are cur.
LEMMA FunctionTInv ==
  ASSUME TInv, NEW impl \in BOOLEAN, FunctionElement(impl)
  PROVE  RootKept' /\ CurUnit' /\ TreeLinked'
<1> PICK x : x = nextId
  OBVIOUS
<1>1. /\ cur # NoId /\ cur' = cur /\ contracts' = Counted(impl)
      /\ nodes' = Grow(nodes, [y \in {x} |-> [Node("function", cur, cur) EXCEPT !.impl = impl]])
  BY DEF FunctionElement, InBody
<1>2. /\ cur \in DOMAIN nodes /\ cur \in Nat /\ cur < x /\ x \in Nat
      /\ \A n \in DOMAIN nodes : n < x
  BY <1>1, CurNode
<1>3. /\ DOMAIN nodes' = DOMAIN nodes \cup {x}
      /\ \A n \in DOMAIN nodes : nodes'[n] = nodes[n]
      /\ nodes'[x].owner = cur /\ nodes'[x].parent = cur
  <2>1. nodes'[x] = [Node("function", cur, cur) EXCEPT !.impl = impl]
    BY <1>1 DEF Grow
  <2>2. QED  BY <1>1, <1>2, <2>1 DEF Grow, Node
<1>4. Linked(x)'
  <2>1. ChildOf(x, cur)
    BY <1>2, <1>3 DEF ChildOf
  <2>2. QED  BY <2>1, LinkedByOwner
<1>5. BodyAdds({x}, impl)
  BY <1>1, <1>3, <1>4 DEF BodyAdds
<1>6. QED  BY <1>5, BodyLinked

\* An enum is a child of cur, and each value a child of the enum.
LEMMA EnumTInv ==
  ASSUME TInv, NEW k \in 1..MaxEnumValues, EnumElement(k)
  PROVE  RootKept' /\ CurUnit' /\ TreeLinked'
<1> PICK e : e = nextId
  OBVIOUS
<1> DEFINE members == {EnumMemberId(e, i) : i \in 1..k}
<1>1. /\ cur # NoId /\ cur' = cur /\ contracts' = Counted(TRUE)
      /\ nodes' = Grow(nodes, [x \in {e} \cup members |->
                      IF x = e THEN Node("enum", cur, cur)
                               ELSE Node("enumValue", e, e)])
  BY DEF EnumElement, InBody
<1>2. /\ cur \in DOMAIN nodes /\ cur \in Nat /\ cur < e /\ e \in Nat
      /\ \A n \in DOMAIN nodes : n < e
  BY <1>1, CurNode
<1>3. \A m \in members : m \in Nat /\ e < m
  BY <1>2 DEF EnumMemberId
<1>4. /\ DOMAIN nodes' = DOMAIN nodes \cup ({e} \cup members)
      /\ \A n \in DOMAIN nodes : nodes'[n] = nodes[n]
  BY <1>1, <1>2, <1>3 DEF Grow
<1>5. /\ nodes'[e].owner = cur /\ nodes'[e].parent = cur
      /\ \A m \in members : nodes'[m].owner = e /\ nodes'[m].parent = e
  BY <1>1, <1>2, <1>3 DEF Grow, Node
<1>6. \A x \in {e} \cup members : Linked(x)'
  <2>1. ChildOf(e, cur)
    BY <1>2, <1>4, <1>5 DEF ChildOf
  <2>2. ASSUME NEW m \in members PROVE ChildOf(m, e)
    BY <1>3, <1>4, <1>5 DEF ChildOf
  <2>3. QED  BY <2>1, <2>2, LinkedByOwner
<1>7. BodyAdds({e} \cup members, TRUE)
  BY <1>1, <1>4, <1>6 DEF BodyAdds
<1>8. QED  BY <1>7, BodyLinked

\* A skipped element adds no node.
LEMMA SkippedTInv ==
  ASSUME TInv, SkippedElement
  PROVE  RootKept' /\ CurUnit' /\ TreeLinked'
<1>1. /\ cur # NoId /\ cur' = cur /\ contracts' = Counted(FALSE)
      /\ nodes' = nodes
  BY DEF SkippedElement, InBody
<1>2. BodyAdds({}, FALSE)
  BY <1>1 DEF BodyAdds
<1>3. QED  BY <1>2, BodyLinked

\* A state variable with an xor initializer: the variable is a child of
\* cur, the xor a child of the variable, and the operands, in the xor's
\* list, have the variable as parent.
LEMMA StateVarXorTInv ==
  ASSUME TInv, NEW w1 \in Widths, NEW w2 \in Widths, StateVarXor(w1, w2)
  PROVE  RootKept' /\ CurUnit' /\ TreeLinked'
<1> PICK v : v = nextId
  OBVIOUS
<1> DEFINE S == {v, v + 2, v + 4, v + 5}
           g1 == [y \in {v} |-> Node("var", cur, cur)]
           g2 == XorNodes(v + 1, v, NoId, NoId, w1, w2)
<1>1. /\ cur # NoId /\ cur' = cur /\ contracts' = Counted(TRUE)
      /\ nodes' = Grow(Grow(nodes, g1), g2)
  BY DEF StateVarXor, InBody
<1>2. /\ cur \in DOMAIN nodes /\ cur \in Nat /\ cur < v /\ v \in Nat
      /\ \A n \in DOMAIN nodes : n < v
  BY <1>1, CurNode
<1>3. DOMAIN g2 = {v + 2, v + 4, v + 5}
  <2>1. {v + 1 + 1, v + 1 + 3, v + 1 + 4} = {v + 2, v + 4, v + 5}
    BY <1>2
  <2>2. QED  BY <2>1 DEF XorNodes
<1>4. /\ g2[v + 2].owner = v /\ g2[v + 2].parent = v
      /\ g2[v + 4].owner = v + 2 /\ g2[v + 4].parent = v
      /\ g2[v + 5].owner = v + 2 /\ g2[v + 5].parent = v
  BY <1>2 DEF XorNodes, Typed, Node, NoId, ParentIndex
<1>5. /\ DOMAIN nodes' = DOMAIN nodes \cup S
      /\ \A n \in DOMAIN nodes : nodes'[n] = nodes[n]
      /\ nodes'[v] = Node("var", cur, cur)
      /\ \A x \in DOMAIN g2 : nodes'[x] = g2[x]
  BY <1>1, <1>2, <1>3 DEF Grow
<1>6. \A x \in S : Linked(x)'
  <2>1. ChildOf(v, cur)
    BY <1>2, <1>5 DEF ChildOf, Node
  <2>2. ChildOf(v + 2, v)
    BY <1>2, <1>3, <1>4, <1>5 DEF ChildOf
  <2>3. GrandChildOf(v + 4, v + 2, v) /\ GrandChildOf(v + 5, v + 2, v)
    BY <1>2, <1>3, <1>4, <1>5 DEF GrandChildOf
  <2>4. QED  BY <2>1, <2>2, <2>3, LinkedByOwner, LinkedByGrandOwner
<1>7. BodyAdds(S, TRUE)
  BY <1>1, <1>5, <1>6 DEF BodyAdds
<1>8. QED  BY <1>7, BodyLinked

\* A function whose body evaluates an xor: the body is a child of the
\* function, the xor a child of the body, the operands children of the xor.
LEMMA FunctionXorTInv ==
  ASSUME TInv, NEW w1 \in Widths, NEW w2 \in Widths, FunctionXor(w1, w2)
  PROVE  RootKept' /\ CurUnit' /\ TreeLinked'
<1> PICK fn : fn = nextId
  OBVIOUS
<1> DEFINE S == {fn, fn + 1, fn + 3, fn + 5, fn + 6}
           g1 == [y \in {fn, fn + 1} |-> IF y = fn THEN Node("function", cur, cur)
                                                   ELSE Node("body", fn, fn)]
           g2 == XorNodes(fn + 2, NoId, fn + 1, fn, w1, w2)
<1>1. /\ cur # NoId /\ cur' = cur /\ contracts' = Counted(TRUE)
      /\ nodes' = Grow(Grow(nodes, g1), g2)
  BY DEF FunctionXor, InBody
<1>2. /\ cur \in DOMAIN nodes /\ cur \in Nat /\ cur < fn /\ fn \in Nat
      /\ \A n \in DOMAIN nodes : n < fn
  BY <1>1, CurNode
<1>3. DOMAIN g2 = {fn + 3, fn + 5, fn + 6}
  <2>1. {fn + 2 + 1, fn + 2 + 3, fn + 2 + 4} = {fn + 3, fn + 5, fn + 6}
    BY <1>2
  <2>2. QED  BY <2>1 DEF XorNodes
<1>4. /\ g2[fn + 3].owner = fn + 1 /\ g2[fn + 3].parent = fn + 1
      /\ g2[fn + 5].owner = fn + 3 /\ g2[fn + 5].parent = fn + 3
      /\ g2[fn + 6].owner = fn + 3 /\ g2[fn + 6].parent = fn + 3
  BY <1>2 DEF XorNodes, Typed, Node, NoId, ParentIndex
<1>5. /\ DOMAIN nodes' = DOMAIN nodes \cup S
      /\ \A n \in DOMAIN nodes : nodes'[n] = nodes[n]
      /\ nodes'[fn] = Node("function", cur, cur)
      /\ nodes'[fn + 1] = Node("body", fn, fn)
      /\ \A x \in DOMAIN g2 : nodes'[x] = g2[x]
  BY <1>1, <1>2, <1>3 DEF Grow
<1>6. \A x \in S : Linked(x)'
  <2>1. ChildOf(fn, cur) /\ ChildOf(fn + 1, fn)
    BY <1>2, <1>5 DEF ChildOf, Node
  <2>2. ChildOf(fn + 3, fn + 1)
    BY <1>2, <1>3, <1>4, <1>5 DEF ChildOf
  <2>3. ChildOf(fn + 5, fn + 3) /\ ChildOf(fn + 6, fn + 3)
    BY <1>2, <1>3, <1>4, <1>5 DEF ChildOf
  <2>4. QED  BY <2>1, <2>2, <2>3, LinkedByOwner
<1>7. BodyAdds(S, TRUE)
  BY <1>1, <1>5, <1>6 DEF BodyAdds
<1>8. QED  BY <1>7, BodyLinked

\* FinishContract puts the contract in its unit's list: its parent was
\* already the unit.  A node in the contract's list has it as parent, since
\* the contract had no owner when the node was made.
LEMMA FinishTInv ==
  ASSUME TInv, FinishContract
  PROVE  RootKept' /\ CurUnit' /\ TreeLinked'
<1> PICK c : c = cur
  OBVIOUS
<1> PICK u : u = contracts[c].unit
  OBVIOUS
<1>1. /\ c # NoId /\ c \in DOMAIN nodes /\ c \in Nat
      /\ nodes \in [DOMAIN nodes -> NodeRec]
      /\ NoId \notin DOMAIN nodes
      /\ u \in DOMAIN nodes /\ u < c
      /\ nodes[c].owner = NoId /\ nodes[c].parent = u
  BY DEF FinishContract, TInv, FInv, IInv, TypeOK, ContractNodes, CurUnit, NoId
<1>2. /\ DOMAIN nodes' = DOMAIN nodes
      /\ \A n \in DOMAIN nodes \ {c} : nodes'[n] = nodes[n]
      /\ nodes'[c].owner = u /\ nodes'[c].parent = u
  BY <1>1 DEF FinishContract, NodeRec
<1>3. Linked(c)'
  <2>1. ChildOf(c, u)
    BY <1>1, <1>2 DEF ChildOf
  <2>2. QED  BY <2>1, LinkedByOwner
<1>4. ASSUME NEW n \in DOMAIN nodes \ {RootId, c} PROVE Linked(n)'
  <2>1. n \in Nat /\ nodes'[n] = nodes[n] /\ Linked(n) /\ n # c
    BY <1>2 DEF TInv, FInv, IInv, TreeLinked, TypeOK
  <2>2. ~OwnedByEarlier(c)
    BY <1>1 DEF OwnedByEarlier
  <2>3. OwnedByEarlier(n)
    BY <2>1 DEF Linked
  <2>4. DEFINE o == nodes[n].owner
  <2>5. o \in DOMAIN nodes /\ o < n /\ nodes'[n].owner = o
    BY <2>1, <2>3 DEF OwnedByEarlier
  <2>6. CASE nodes[n].parent = o
    BY <1>2, <2>1, <2>5, <2>6 DEF Linked, OwnedByEarlier
  <2>7. CASE OwnedByEarlier(o) /\ nodes[n].parent = nodes[o].owner
    <3>1. o # c
      BY <2>2, <2>7
    <3>2. nodes'[o] = nodes[o]
      BY <1>2, <2>5, <3>1
    <3>3. QED  BY <1>2, <2>1, <2>5, <2>7, <3>2 DEF Linked, OwnedByEarlier
  <2>8. QED  BY <2>1, <2>3, <2>6, <2>7 DEF Linked
<1>5. QED  BY <1>2, <1>3, <1>4 DEF FinishContract, TInv, RootKept, CurUnit, TreeLinked

\* ParseContract: the unit goes in the RootNode's list, the pragmas and
\* imports in the unit's, the bases in the contract's, all made after their
\* owner; the contract itself, in no list yet, becomes the one being parsed
\* with the unit as parent.
LEMMA ParseContractTInv ==
  ASSUME TInv, NEW np \in 0..MaxPragmas, NEW ni \in 0..MaxImports,
         NEW bs \in BaseChoices, ParseContract(np, ni, bs)
  PROVE  RootKept' /\ CurUnit' /\ TreeLinked'
<1> PICK u : u = nextId
  OBVIOUS
<1> DEFINE pragmas == (u + 2)..(u + 1 + np)
           imports == [i \in 1..ni |-> u + 1 + np + i]
           importSet == {imports[i] : i \in 1..ni}
           baseNodes == (u + 2 + np + ni + 1)..(u + 2 + np + ni + Len(bs))
           new == {u, u + 2 + np + ni} \cup pragmas \cup importSet \cup baseNodes
<1> PICK c : c = u + 2 + np + ni
  OBVIOUS
<1> DEFINE g == [x \in new |->
                   CASE x = u -> Node("unit", RootId, RootId)
                     [] x = c -> Node("contract", u, NoId)
                     [] x \in pragmas -> Node("pragma", u, u)
                     [] x \in importSet -> Node("import", u, u)
                     [] OTHER -> Node("base", c, c)]
           rec == [unit |-> u, fi |-> TRUE, lin |-> <<c>> \o imports, deps |-> imports,
                   bases |-> bs, elems |-> 0, finished |-> FALSE]
<1>1. /\ u \in Nat \ {0} /\ np \in Nat /\ ni \in Nat /\ Len(bs) \in Nat
      /\ \A n \in DOMAIN nodes : n < u
      /\ RootId \in DOMAIN nodes /\ RootId < u
      /\ cur = NoId /\ TypeOK /\ TreeLinked
  <2>1. np \in Nat /\ ni \in Nat
    BY BoundsAssumption
  <2>2. Len(bs) \in Nat
    BY DEF BaseChoices
  <2>3. TypeOK /\ TreeLinked /\ RootKept
    BY DEF TInv, FInv, IInv
  <2>4. cur = NoId
    BY DEF ParseContract
  <2>5. u \in Nat \ {0} /\ \A n \in DOMAIN nodes : n < u
    BY <2>3 DEF TypeOK
  <2>6. RootId \in DOMAIN nodes /\ RootId < u
    BY <2>3, <2>5 DEF RootKept, RootId
  <2>7. QED  BY <2>1, <2>2, <2>3, <2>4, <2>5, <2>6
<1>2. /\ nodes' = Grow(nodes, g)
      /\ contracts' = Grow(contracts, [x \in {c} |-> rec])
      /\ cur' = c
  BY DEF ParseContract
<1>3. /\ u < c /\ c \in Nat
      /\ \A x \in pragmas \cup importSet : x \in Nat /\ u < x /\ x # c
      /\ \A x \in baseNodes : x \in Nat /\ c < x /\ x \notin pragmas \cup importSet
      /\ u \notin pragmas \cup importSet \cup baseNodes
  BY <1>1
<1>4. /\ DOMAIN nodes' = DOMAIN nodes \cup new
      /\ \A n \in DOMAIN nodes : nodes'[n] = nodes[n]
      /\ \A x \in new : nodes'[x] = g[x]
  <2>1. \A n \in DOMAIN nodes : n \notin new
    BY <1>1, <1>3
  <2>2. DOMAIN nodes' = DOMAIN nodes \cup new
    BY <1>2 DEF Grow
  <2>3. \A n \in DOMAIN nodes : nodes'[n] = nodes[n]
    BY <1>2, <2>1 DEF Grow
  <2>4. \A x \in new : nodes'[x] = g[x]
    BY <1>2 DEF Grow
  <2>5. QED  BY <2>2, <2>3, <2>4
<1>5. /\ nodes'[u] = Node("unit", RootId, RootId)
      /\ nodes'[c] = Node("contract", u, NoId)
      /\ \A x \in pragmas \cup importSet : nodes'[x].owner = u /\ nodes'[x].parent = u
      /\ \A x \in baseNodes : nodes'[x].owner = c /\ nodes'[x].parent = c
  <2>1. nodes'[u] = Node("unit", RootId, RootId)
    <3>1. u \in new /\ g[u] = Node("unit", RootId, RootId)
      BY <1>3
    <3>2. QED  BY <1>4, <3>1
  <2>2. nodes'[c] = Node("contract", u, NoId)
    <3>1. c \in new /\ c # u
      BY <1>3
    <3>2. g[c] = Node("contract", u, NoId)
      BY <1>3, <3>1
    <3>3. QED  BY <1>4, <3>1, <3>2
  <2>3. ASSUME NEW x \in pragmas \cup importSet
        PROVE  nodes'[x].owner = u /\ nodes'[x].parent = u
    <3>1. x # u /\ x # c
      BY <1>3
    <3>2. nodes'[x] \in {Node("pragma", u, u), Node("import", u, u)}
      BY <1>4, <3>1
    <3>3. QED  BY <3>2 DEF Node
  <2>4. ASSUME NEW x \in baseNodes
        PROVE  nodes'[x].owner = c /\ nodes'[x].parent = c
    <3>1. x # u /\ x # c /\ x \notin pragmas /\ x \notin importSet
      BY <1>3
    <3>2. nodes'[x] = Node("base", c, c)
      BY <1>4, <3>1
    <3>3. QED  BY <3>2 DEF Node
  <2>5. QED  BY <2>1, <2>2, <2>3, <2>4
<1>6. contracts'[c].unit = u
  BY <1>2 DEF Grow
<1>7. \A n \in DOMAIN nodes \ {RootId} : Linked(n)'
  <2>1. DOMAIN nodes \subseteq DOMAIN nodes'
    BY <1>4
  <2>2. cur' = cur \/ cur = NoId
    BY <1>1
  <2>3. cur # NoId => contracts'[cur].unit = contracts[cur].unit
    BY <1>1
  <2>4. QED  BY <1>1, <1>4, <2>1, <2>2, <2>3, OldLinked
<1>8. \A x \in new : Linked(x)'
  <2>1. ChildOf(u, RootId)
    BY <1>1, <1>4, <1>5 DEF ChildOf, Node
  <2>2. Linked(c)'
    <3>1. nodes'[c].owner = NoId /\ nodes'[c].parent = u
      BY <1>5 DEF Node
    <3>2. c = cur' /\ contracts'[cur'].unit = u
      BY <1>2, <1>6
    <3>3. QED  BY <3>1, <3>2 DEF Linked
  <2>3. \A x \in pragmas \cup importSet : ChildOf(x, u)
    BY <1>3, <1>4, <1>5 DEF ChildOf
  <2>4. \A x \in baseNodes : ChildOf(x, c)
    BY <1>3, <1>4, <1>5 DEF ChildOf
  <2>5. QED  BY <2>1, <2>2, <2>3, <2>4, LinkedByOwner
<1>9. CurUnit'
  <2>1. cur' = c /\ contracts'[c].unit = u
    BY <1>2, <1>6
  <2>2. u \in DOMAIN nodes'
    BY <1>4
  <2>3. nodes'[c].owner = NoId /\ nodes'[c].parent = u
    BY <1>5 DEF Node
  <2>4. QED  BY <1>3, <2>1, <2>2, <2>3 DEF CurUnit
<1>10. QED  BY <1>1, <1>4, <1>7, <1>8, <1>9 DEF RootKept, TreeLinked

-----------------------------------------------------------------------------
LEMMA InitTInv == Init => TInv
<1> SUFFICES ASSUME Init PROVE TInv
  OBVIOUS
<1>1. FInv
  BY InitFInv
<1>2. DOMAIN nodes = {RootId} /\ cur = NoId
  BY DEF Init
<1>3. QED  BY <1>1, <1>2 DEF TInv, RootKept, CurUnit, TreeLinked

LEMMA NextTInv == TInv /\ [Next]_vars => TInv'
<1> SUFFICES ASSUME TInv, [Next]_vars PROVE TInv'
  OBVIOUS
<1>1. FInv'
  BY NextFInv DEF TInv
<1>2. RootKept' /\ CurUnit' /\ TreeLinked'
  <2>1. CASE \E np \in 0..MaxPragmas, ni \in 0..MaxImports, bs \in BaseChoices :
               ParseContract(np, ni, bs)
    BY <2>1, ParseContractTInv
  <2>2. CASE SkippedElement
    BY <2>2, SkippedTInv
  <2>3. CASE \E impl \in BOOLEAN : FunctionElement(impl)
    BY <2>3, FunctionTInv
  <2>4. CASE \E k \in 1..MaxEnumValues : EnumElement(k)
    BY <2>4, EnumTInv
  <2>5. CASE \E w1, w2 \in Widths : StateVarXor(w1, w2)
    BY <2>5, StateVarXorTInv
  <2>6. CASE \E w1, w2 \in Widths : FunctionXor(w1, w2)
    BY <2>6, FunctionXorTInv
  <2>7. CASE FinishContract
    BY <2>7, FinishTInv
  <2>8. CASE UNCHANGED vars
    BY <2>8 DEF vars, TInv, RootKept, CurUnit, TreeLinked, Linked, OwnedByEarlier
  <2>9. QED  BY <2>1, <2>2, <2>3, <2>4, <2>5, <2>6, <2>7, <2>8 DEF Next
<1>3. QED  BY <1>1, <1>2 DEF TInv

(***************************************************************************)
(* Whatever the number of units, pragmas, imports, body elements and enum  *)
(* values, every node the builder makes other than the RootNode sits in    *)
(* the list of an earlier node and has that node, or the one whose list    *)
(* holds it, as ParentIndex; only the contract whose body is being parsed  *)
(* is in no list yet, and its parent is its source unit.  The xor operands *)
(* of a state variable initializer are the one case where the parent is    *)
(* the owner's owner.                                                      *)
(***************************************************************************)
THEOREM TreeLinkedAlways == Spec => []TreeLinked
<1>1. TInv => TreeLinked
  BY DEF TInv
<1>2. QED  BY <1>1, InitTInv, NextTInv, PTL DEF Spec
=============================================================================
