------------------------- MODULE AstBuilderFIProofs -------------------------
(***************************************************************************)
(* A proof, for every bound, that a contract Contract.Parse leaves fully   *)
(* implemented holds no function without a body.  The invariant is not    *)
(* inductive alone: ParseContract starts a contract with FullyImplemented  *)
(* TRUE, which is sound only if no node already names the new id as its   *)
(* owner (every owner lies below the counter), and FinishContract rewrites *)
(* the owner of cur, which is harmless only if cur is a contract node.     *)
(***************************************************************************)
EXTENDS AstBuilderProofs

\* Every owner, contract and unit lies below the counter.
OwnedBelow ==
  /\ \A n \in DOMAIN nodes : nodes[n].owner < nextId
  /\ DOMAIN contracts \subseteq 1..(nextId - 1)
  /\ \A c \in DOMAIN contracts : contracts[c].unit < nextId

\* Every contract record belongs to a contract node.
ContractNodes ==
  \A c \in DOMAIN contracts : c \in DOMAIN nodes /\ nodes[c].kind = "contract"

FInv == IInv /\ OwnedBelow /\ ContractNodes /\ FullyImplementedSound

-----------------------------------------------------------------------------
\* Counting a body element changes only cur's count and FullyImplemented,
\* which it can clear and never set.
LEMMA CountedFacts ==
  ASSUME TypeOK, cur # NoId, NEW ok \in BOOLEAN
  PROVE  /\ DOMAIN Counted(ok) = DOMAIN contracts
         /\ \A c \in DOMAIN contracts :
              /\ Counted(ok)[c].unit = contracts[c].unit
              /\ Counted(ok)[c].fi => contracts[c].fi
         /\ Counted(ok)[cur].fi => ok
<1>1. cur \in DOMAIN contracts /\ contracts[cur] \in ContractRec
  BY DEF TypeOK
<1>2. QED  BY <1>1 DEF Counted, ContractRec

(***************************************************************************)
(* The body-loop actions add nodes with fresh ids and keep every contract. *)
(* Under these conditions the invariant's last three conjuncts carry over: *)
(* a new node has its owner below the new counter and is either no        *)
(* function, or has a body, or is a function of cur whose contract no     *)
(* longer claims to be fully implemented.                                  *)
(***************************************************************************)
BodyCond(New, ok) ==
  /\ cur # NoId
  /\ nextId' \in Nat /\ nextId <= nextId'
  /\ New \subseteq nextId..(nextId' - 1)
  /\ DOMAIN nodes' = DOMAIN nodes \cup New
  /\ \A n \in DOMAIN nodes : nodes'[n] = nodes[n]
  /\ contracts' = Counted(ok) /\ cur' = cur
  /\ \A x \in New :
       /\ nodes'[x].owner < nextId'
       /\ nodes'[x].kind # "contract"
       /\ nodes'[x].kind = "function" => nodes'[x].impl \/ (nodes'[x].owner = cur /\ ~ok)

LEMMA BodyStep ==
  ASSUME FInv, NEW New, NEW ok \in BOOLEAN, BodyCond(New, ok)
  PROVE  OwnedBelow' /\ ContractNodes' /\ FullyImplementedSound'
<1> USE DEF BodyCond
<1>1. /\ nextId \in Nat \ {0}
      /\ DOMAIN nodes \subseteq 1..(nextId - 1)
      /\ DOMAIN nodes \cap New = {}
  BY DEF FInv, IInv, TypeOK
<1>2. /\ DOMAIN contracts' = DOMAIN contracts
      /\ \A c \in DOMAIN contracts :
           /\ contracts'[c].unit = contracts[c].unit
           /\ contracts'[c].fi => contracts[c].fi
      /\ contracts'[cur].fi => ok
  BY CountedFacts DEF FInv, IInv
<1>3. \A n \in DOMAIN nodes' : n \in DOMAIN nodes \/ n \in New
  OBVIOUS
<1>4. OwnedBelow'
  <2>1. \A n \in DOMAIN nodes : nodes[n].owner \in Nat /\ nodes[n].owner < nextId
    BY DEF FInv, IInv, TypeOK, NodeRec, OwnedBelow
  <2>2. ASSUME NEW n \in DOMAIN nodes' PROVE nodes'[n].owner < nextId'
    <3>1. CASE n \in DOMAIN nodes
      <4>1. nodes'[n].owner = nodes[n].owner
        BY <3>1
      <4>2. QED  BY <1>1, <2>1, <3>1, <4>1
    <3>2. CASE n \in New
      BY <3>2
    <3>3. QED  BY <1>3, <3>1, <3>2
  <2>3. DOMAIN contracts' \subseteq 1..(nextId' - 1)
    BY <1>1, <1>2 DEF FInv, OwnedBelow
  <2>4. \A c \in DOMAIN contracts : contracts[c].unit \in Nat /\ contracts[c].unit < nextId
    BY DEF FInv, IInv, TypeOK, ContractRec, OwnedBelow
  <2>5. \A c \in DOMAIN contracts' : contracts'[c].unit < nextId'
    BY <1>1, <1>2, <2>4
  <2>6. QED  BY <2>2, <2>3, <2>5 DEF OwnedBelow
<1>5. ContractNodes'
  <2> SUFFICES ASSUME NEW c \in DOMAIN contracts'
               PROVE  c \in DOMAIN nodes' /\ nodes'[c].kind = "contract"
    BY DEF ContractNodes
  <2>1. c \in DOMAIN nodes /\ nodes[c].kind = "contract"
    BY <1>2 DEF FInv, ContractNodes
  <2>2. QED  BY <2>1
<1>6. FullyImplementedSound'
  <2> SUFFICES ASSUME NEW c \in DOMAIN contracts', NEW n \in DOMAIN nodes',
                      contracts'[c].fi, nodes'[n].kind = "function",
                      nodes'[n].owner = c
               PROVE  nodes'[n].impl
    BY DEF FullyImplementedSound
  <2>1. c \in DOMAIN contracts /\ contracts[c].fi
    BY <1>2
  <2>2. CASE n \in DOMAIN nodes
    BY <2>1, <2>2 DEF FInv, FullyImplementedSound
  <2>3. CASE n \in New
    <3>1. ~(nodes'[n].owner = cur /\ ~ok)
      BY <1>2
    <3>2. QED  BY <2>3, <3>1
  <2>4. QED  BY <1>3, <2>2, <2>3
<1>7. QED  BY <1>4, <1>5, <1>6


-----------------------------------------------------------------------------
(***************************************************************************)
(* The invariant is kept by every action.                                  *)
(***************************************************************************)
LEMMA InitFInv == Init => FInv
<1> SUFFICES ASSUME Init PROVE FInv
  OBVIOUS
<1>1. IInv
  BY InitIInv
<1>2. OwnedBelow /\ ContractNodes /\ FullyImplementedSound
  BY DEF Init, OwnedBelow, ContractNodes, FullyImplementedSound, Node, NoId, RootId
<1>3. QED  BY <1>1, <1>2 DEF FInv

\* A function definition: its node has a body, or its contract loses
\* FullyImplemented in the same step.
LEMMA FunctionFInv ==
  ASSUME FInv, NEW impl \in BOOLEAN, FunctionElement(impl)
  PROVE  FInv'
<1> DEFINE r == [Node("function", cur, cur) EXCEPT !.impl = impl]
<1>1. IInv'
  BY FunctionIInv DEF FInv
<1>2. /\ cur # NoId /\ cur \in Nat /\ cur < nextId
      /\ nextId \in Nat \ {0} /\ nextId' = nextId + 1
      /\ nextId \notin DOMAIN nodes
  BY DEF FunctionElement, InBody, FInv, IInv, TypeOK, OwnedBelow
<1>3. /\ DOMAIN nodes' = DOMAIN nodes \cup {nextId}
      /\ \A n \in DOMAIN nodes : nodes'[n] = nodes[n]
      /\ nodes'[nextId] = r
  <2>1. nodes' = Grow(nodes, [x \in {nextId} |-> r])
    BY DEF FunctionElement
  <2>2. QED  BY <1>2, <2>1 DEF Grow
<1>4. \A x \in {nextId} :
        /\ nodes'[x].owner < nextId'
        /\ nodes'[x].kind # "contract"
        /\ nodes'[x].kind = "function" => nodes'[x].impl \/ (nodes'[x].owner = cur /\ ~impl)
  BY <1>2, <1>3 DEF Node
<1>5. /\ {nextId} \subseteq nextId..(nextId' - 1)
      /\ nextId' \in Nat /\ nextId <= nextId'
      /\ contracts' = Counted(impl) /\ cur' = cur
  BY <1>2 DEF FunctionElement
<1>6. BodyCond({nextId}, impl)
  BY <1>2, <1>3, <1>4, <1>5 DEF BodyCond
<1>7. OwnedBelow' /\ ContractNodes' /\ FullyImplementedSound'
  BY <1>6, BodyStep
<1>8. QED  BY <1>1, <1>7 DEF FInv


\* An element the loop skips adds no node and clears FullyImplemented.
LEMMA SkippedFInv == FInv /\ SkippedElement => FInv'
<1> SUFFICES ASSUME FInv, SkippedElement PROVE FInv'
  OBVIOUS
<1>1. IInv'
  BY SkippedIInv DEF FInv
<1>2. nextId \in Nat
  BY DEF FInv, IInv, TypeOK
<1>3. BodyCond({}, FALSE)
  BY <1>2 DEF SkippedElement, InBody, BodyCond
<1>4. OwnedBelow' /\ ContractNodes' /\ FullyImplementedSound'
  BY <1>3, BodyStep
<1>5. QED  BY <1>1, <1>4 DEF FInv

\* An enum and its values are no functions and hang below the counter.
LEMMA EnumFInv ==
  ASSUME FInv, NEW k \in 1..MaxEnumValues, EnumElement(k)
  PROVE  FInv'
<1> DEFINE e == nextId
           S == {e} \cup {EnumMemberId(e, i) : i \in 1..k}
           g == [x \in S |-> IF x = e THEN Node("enum", cur, cur)
                                      ELSE Node("enumValue", e, e)]
<1>1. IInv'
  BY EnumIInv DEF FInv
<1>2. /\ cur # NoId /\ cur \in Nat /\ cur < nextId
      /\ nextId \in Nat \ {0} /\ k \in Nat /\ nextId' = e + 2 + k
      /\ \A n \in DOMAIN nodes : n < nextId
      /\ nodes' = Grow(nodes, g) /\ contracts' = Counted(TRUE) /\ cur' = cur
  BY BoundsAssumption DEF EnumElement, InBody, FInv, IInv, TypeOK, OwnedBelow
<1>3. S \subseteq nextId..(nextId' - 1)
  BY <1>2 DEF EnumMemberId
<1>4. /\ DOMAIN nodes' = DOMAIN nodes \cup S
      /\ \A n \in DOMAIN nodes : nodes'[n] = nodes[n]
      /\ \A x \in S : nodes'[x] = g[x]
  BY <1>2, <1>3 DEF Grow
<1>5. \A x \in S :
        /\ nodes'[x].owner < nextId'
        /\ nodes'[x].kind # "contract"
        /\ nodes'[x].kind = "function" => nodes'[x].impl \/ (nodes'[x].owner = cur /\ ~TRUE)
  BY <1>2, <1>4 DEF Node
<1>6. BodyCond(S, TRUE)
  BY <1>2, <1>3, <1>4, <1>5 DEF BodyCond
<1>7. OwnedBelow' /\ ContractNodes' /\ FullyImplementedSound'
  BY <1>6, BodyStep
<1>8. QED  BY <1>1, <1>7 DEF FInv


\* A state variable and its xor expression: no function among the new nodes.
LEMMA StateVarXorFInv ==
  ASSUME FInv, NEW w1 \in Widths, NEW w2 \in Widths, StateVarXor(w1, w2)
  PROVE  FInv'
<1> DEFINE v == nextId
           S == {v, v + 2, v + 4, v + 5}
           g1 == [y \in {v} |-> Node("var", cur, cur)]
           g2 == XorNodes(v + 1, v, NoId, NoId, w1, w2)
<1>1. IInv'
  BY StateVarXorIInv DEF FInv
<1>2. /\ cur # NoId /\ cur \in Nat /\ cur < nextId
      /\ nextId \in Nat \ {0} /\ nextId' = v + 6
      /\ \A n \in DOMAIN nodes : n < nextId
      /\ nodes' = Grow(Grow(nodes, g1), g2) /\ contracts' = Counted(TRUE) /\ cur' = cur
  BY DEF StateVarXor, InBody, FInv, IInv, TypeOK, OwnedBelow
<1>3. DOMAIN g2 = {v + 2, v + 4, v + 5}
  <2>1. {v + 1 + 1, v + 1 + 3, v + 1 + 4} = {v + 2, v + 4, v + 5}
    BY <1>2
  <2>2. QED  BY <2>1 DEF XorNodes
<1>4. /\ g2[v + 2].owner = v /\ g2[v + 2].kind = "xor"
      /\ g2[v + 4].owner = v + 2 /\ g2[v + 4].kind = "ident"
      /\ g2[v + 5].owner = v + 2 /\ g2[v + 5].kind = "ident"
  BY <1>2 DEF XorNodes, Typed, Node, NoId
<1>5. /\ DOMAIN nodes' = DOMAIN nodes \cup S
      /\ \A n \in DOMAIN nodes : nodes'[n] = nodes[n]
      /\ nodes'[v] = Node("var", cur, cur)
      /\ \A x \in DOMAIN g2 : nodes'[x] = g2[x]
  BY <1>2, <1>3 DEF Grow
<1>6. \A x \in S :
        /\ nodes'[x].owner < nextId'
        /\ nodes'[x].kind # "contract"
        /\ nodes'[x].kind = "function" => nodes'[x].impl \/ (nodes'[x].owner = cur /\ ~TRUE)
  <2>1. /\ nodes'[v].owner = cur /\ nodes'[v].kind = "var"
        /\ nodes'[v + 2].owner = v /\ nodes'[v + 2].kind = "xor"
        /\ nodes'[v + 4].owner = v + 2 /\ nodes'[v + 4].kind = "ident"
        /\ nodes'[v + 5].owner = v + 2 /\ nodes'[v + 5].kind = "ident"
    BY <1>3, <1>4, <1>5 DEF Node
  <2>2. QED  BY <1>2, <2>1
<1>7. BodyCond(S, TRUE)
  BY <1>2, <1>5, <1>6 DEF BodyCond
<1>8. OwnedBelow' /\ ContractNodes' /\ FullyImplementedSound'
  BY <1>7, BodyStep
<1>9. QED  BY <1>1, <1>8 DEF FInv

\* A function whose body holds an xor: the function has a body.
LEMMA FunctionXorFInv ==
  ASSUME FInv, NEW w1 \in Widths, NEW w2 \in Widths, FunctionXor(w1, w2)
  PROVE  FInv'
<1> DEFINE fn == nextId
           S == {fn, fn + 1, fn + 3, fn + 5, fn + 6}
           g1 == [y \in {fn, fn + 1} |-> IF y = fn THEN Node("function", cur, cur)
                                                   ELSE Node("body", fn, fn)]
           g2 == XorNodes(fn + 2, NoId, fn + 1, fn, w1, w2)
<1>1. IInv'
  BY FunctionXorIInv DEF FInv
<1>2. /\ cur # NoId /\ cur \in Nat /\ cur < nextId
      /\ nextId \in Nat \ {0} /\ nextId' = fn + 7
      /\ \A n \in DOMAIN nodes : n < nextId
      /\ nodes' = Grow(Grow(nodes, g1), g2) /\ contracts' = Counted(TRUE) /\ cur' = cur
  BY DEF FunctionXor, InBody, FInv, IInv, TypeOK, OwnedBelow
<1>3. DOMAIN g2 = {fn + 3, fn + 5, fn + 6}
  <2>1. {fn + 2 + 1, fn + 2 + 3, fn + 2 + 4} = {fn + 3, fn + 5, fn + 6}
    BY <1>2
  <2>2. QED  BY <2>1 DEF XorNodes
<1>4. /\ g2[fn + 3].owner = fn + 1 /\ g2[fn + 3].kind = "xor"
      /\ g2[fn + 5].owner = fn + 3 /\ g2[fn + 5].kind = "ident"
      /\ g2[fn + 6].owner = fn + 3 /\ g2[fn + 6].kind = "ident"
  BY <1>2 DEF XorNodes, Typed, Node, NoId
<1>5. /\ DOMAIN nodes' = DOMAIN nodes \cup S
      /\ \A n \in DOMAIN nodes : nodes'[n] = nodes[n]
      /\ nodes'[fn] = Node("function", cur, cur)
      /\ nodes'[fn + 1] = Node("body", fn, fn)
      /\ \A x \in DOMAIN g2 : nodes'[x] = g2[x]
  BY <1>2, <1>3 DEF Grow
<1>6. \A x \in S :
        /\ nodes'[x].owner < nextId'
        /\ nodes'[x].kind # "contract"
        /\ nodes'[x].kind = "function" => nodes'[x].impl \/ (nodes'[x].owner = cur /\ ~TRUE)
  <2>1. /\ nodes'[fn].owner = cur /\ nodes'[fn].kind = "function" /\ nodes'[fn].impl
        /\ nodes'[fn + 1].owner = fn /\ nodes'[fn + 1].kind = "body"
        /\ nodes'[fn + 3].owner = fn + 1 /\ nodes'[fn + 3].kind = "xor"
        /\ nodes'[fn + 5].owner = fn + 3 /\ nodes'[fn + 5].kind = "ident"
        /\ nodes'[fn + 6].owner = fn + 3 /\ nodes'[fn + 6].kind = "ident"
    BY <1>3, <1>4, <1>5 DEF Node
  <2>2. QED  BY <1>2, <2>1
<1>7. BodyCond(S, TRUE)
  BY <1>2, <1>5, <1>6 DEF BodyCond
<1>8. OwnedBelow' /\ ContractNodes' /\ FullyImplementedSound'
  BY <1>7, BodyStep
<1>9. QED  BY <1>1, <1>8 DEF FInv


\* Appending the contract to its unit rewrites the owner of a contract
\* node, never of a function.
LEMMA FinishFInv == FInv /\ FinishContract => FInv'
<1> SUFFICES ASSUME FInv, FinishContract PROVE FInv'
  OBVIOUS
<1>1. IInv'
  BY FinishIInv DEF FInv
<1>2. /\ cur \in DOMAIN contracts /\ contracts[cur] \in ContractRec
      /\ cur \in DOMAIN nodes /\ nodes[cur].kind = "contract"
      /\ contracts[cur].unit < nextId
      /\ nodes \in [DOMAIN nodes -> NodeRec]
  BY DEF FinishContract, FInv, IInv, TypeOK, ContractNodes, OwnedBelow
<1>3. /\ DOMAIN nodes' = DOMAIN nodes
      /\ \A n \in DOMAIN nodes \ {cur} : nodes'[n] = nodes[n]
      /\ nodes'[cur].owner = contracts[cur].unit
      /\ \A n \in DOMAIN nodes : nodes'[n].kind = nodes[n].kind
  BY <1>2 DEF FinishContract, NodeRec
<1>4. /\ DOMAIN contracts' = DOMAIN contracts
      /\ \A c \in DOMAIN contracts : /\ contracts'[c].unit = contracts[c].unit
                                     /\ contracts'[c].fi = contracts[c].fi
  BY <1>2 DEF FinishContract, ContractRec
<1>5. nextId' = nextId
  BY DEF FinishContract
<1>6. OwnedBelow'
  BY <1>2, <1>3, <1>4, <1>5 DEF FInv, OwnedBelow
<1>7. ContractNodes'
  BY <1>3, <1>4 DEF FInv, ContractNodes
<1>8. FullyImplementedSound'
  <2> SUFFICES ASSUME NEW c \in DOMAIN contracts', NEW n \in DOMAIN nodes',
                      contracts'[c].fi, nodes'[n].kind = "function",
                      nodes'[n].owner = c
               PROVE  nodes'[n].impl
    BY DEF FullyImplementedSound
  <2>1. n \in DOMAIN nodes \ {cur}
    BY <1>2, <1>3
  <2>2. QED  BY <1>3, <1>4, <2>1 DEF FInv, FullyImplementedSound
<1>9. QED  BY <1>1, <1>6, <1>7, <1>8 DEF FInv


\* A new contract claims FullyImplemented, and no node names it as owner
\* yet: every owner lies below the counter, and the contract's id above.
LEMMA ParseContractFInv ==
  ASSUME FInv, NEW np \in 0..MaxPragmas, NEW ni \in 0..MaxImports,
         NEW bs \in BaseChoices, ParseContract(np, ni, bs)
  PROVE  FInv'
<1> DEFINE u == nextId
           pragmas == (u + 2)..(u + 1 + np)
           imports == [i \in 1..ni |-> u + 1 + np + i]
           importSet == {imports[i] : i \in 1..ni}
           c == u + 2 + np + ni
           baseNodes == (c + 1)..(c + Len(bs))
           new == {u, c} \cup pragmas \cup importSet \cup baseNodes
           g == [x \in new |->
                   CASE x = u -> Node("unit", RootId, RootId)
                     [] x = c -> Node("contract", u, NoId)
                     [] x \in pragmas -> Node("pragma", u, u)
                     [] x \in importSet -> Node("import", u, u)
                     [] OTHER -> Node("base", c, c)]
           rec == [unit |-> u, fi |-> TRUE, lin |-> <<c>> \o imports, deps |-> imports,
                   bases |-> bs, elems |-> 0, finished |-> FALSE]
<1>1. IInv'
  BY ParseContractIInv DEF FInv
<1>2. /\ nextId \in Nat \ {0} /\ np \in Nat /\ ni \in Nat
      /\ \A n \in DOMAIN nodes : n < nextId
      /\ DOMAIN contracts \subseteq 1..(nextId - 1)
  <2>1. np \in Nat /\ ni \in Nat
    BY BoundsAssumption
  <2>2. nextId \in Nat \ {0} /\ DOMAIN nodes \subseteq 1..(nextId - 1)
    BY DEF FInv, IInv, TypeOK
  <2>3. DOMAIN contracts \subseteq 1..(nextId - 1)
    BY DEF FInv, OwnedBelow
  <2>4. QED  BY <2>1, <2>2, <2>3
<1>3. Len(bs) \in Nat
  <2>1. CASE bs = <<>>
    BY <2>1
  <2>2. CASE bs # <<>>
    <3>1. PICK b \in Finished \cup {NoId} : bs = <<b>>
      BY <2>2 DEF BaseChoices
    <3>2. QED  BY <3>1
  <2>3. QED  BY <2>1, <2>2
<1>4. /\ nextId' = c + 1 + Len(bs)
      /\ nodes' = Grow(nodes, g)
      /\ contracts' = Grow(contracts, [x \in {c} |-> rec])
  BY DEF ParseContract
<1>5. /\ \A x \in new : x \in u..(c + Len(bs))
      /\ c \in new /\ c # u /\ c \notin pragmas /\ c \notin importSet
      /\ nextId' \in Nat /\ c < nextId' /\ u < nextId'
  <2>1. \A i \in 1..ni : imports[i] \in (u + 2 + np)..(u + 1 + np + ni)
    BY <1>2
  <2>2. importSet \subseteq (u + 2 + np)..(u + 1 + np + ni)
    BY <2>1
  <2>3. /\ pragmas \subseteq u..(c + Len(bs))
        /\ (u + 2 + np)..(u + 1 + np + ni) \subseteq u..(c + Len(bs))
        /\ baseNodes \subseteq u..(c + Len(bs))
        /\ u \in u..(c + Len(bs)) /\ c \in u..(c + Len(bs))
    BY <1>2, <1>3
  <2>4. \A x \in new : x \in u..(c + Len(bs))
    BY <2>2, <2>3
  <2>5. c # u /\ c \notin pragmas /\ c \notin (u + 2 + np)..(u + 1 + np + ni)
    BY <1>2
  <2>6. nextId' \in Nat /\ c < nextId' /\ u < nextId'
    BY <1>2, <1>3, <1>4
  <2>7. QED  BY <2>2, <2>4, <2>5, <2>6
<1>6. /\ DOMAIN nodes' = DOMAIN nodes \cup new
      /\ \A n \in DOMAIN nodes : nodes'[n] = nodes[n]
      /\ \A x \in new : nodes'[x] = g[x]
  BY <1>2, <1>4, <1>5 DEF Grow
<1>7. /\ nodes'[c] = Node("contract", u, NoId)
      /\ \A x \in new : g[x] \in {Node("unit", RootId, RootId), Node("contract", u, NoId),
                                  Node("pragma", u, u), Node("import", u, u),
                                  Node("base", c, c)}
  BY <1>5, <1>6
<1>8. \A x \in new : /\ nodes'[x].owner < nextId'
                     /\ nodes'[x].kind # "function"
  <2>1. \A x \in new : /\ g[x].owner \in {RootId, NoId, u, c}
                       /\ g[x].kind \in {"unit", "contract", "pragma", "import", "base"}
    BY <1>7 DEF Node
  <2>2. RootId < nextId' /\ NoId < nextId' /\ u < nextId' /\ c < nextId'
    BY <1>2, <1>5 DEF RootId, NoId
  <2>3. ASSUME NEW x \in new
        PROVE  nodes'[x].owner < nextId' /\ nodes'[x].kind # "function"
    <3>1. nodes'[x] = g[x]
      BY <1>6
    <3>2. g[x].owner < nextId'
      BY <2>1, <2>2
    <3>3. g[x].kind # "function"
      BY <2>1
    <3>4. QED  BY <3>1, <3>2, <3>3
  <2>4. QED  BY <2>3
<1>9. /\ DOMAIN contracts' = DOMAIN contracts \cup {c}
      /\ \A d \in DOMAIN contracts : contracts'[d] = contracts[d]
      /\ contracts'[c] = rec
  BY <1>2, <1>4 DEF Grow
<1>10. OwnedBelow'
  <2>1. \A n \in DOMAIN nodes : nodes[n].owner \in Nat /\ nodes[n].owner < nextId
    BY DEF FInv, IInv, TypeOK, NodeRec, OwnedBelow
  <2>2. \A d \in DOMAIN contracts : contracts[d].unit \in Nat /\ contracts[d].unit < nextId
    BY DEF FInv, IInv, TypeOK, ContractRec, OwnedBelow
  <2>3. \A n \in DOMAIN nodes' : nodes'[n].owner < nextId'
    BY <1>2, <1>5, <1>6, <1>8, <2>1
  <2>4. DOMAIN contracts' \subseteq 1..(nextId' - 1)
    BY <1>2, <1>5, <1>9
  <2>5. \A d \in DOMAIN contracts' : contracts'[d].unit < nextId'
    BY <1>2, <1>5, <1>9, <2>2
  <2>6. QED  BY <2>3, <2>4, <2>5 DEF OwnedBelow
<1>11. ContractNodes'
  BY <1>5, <1>6, <1>7, <1>9 DEF FInv, ContractNodes, Node
<1>12. FullyImplementedSound'
  <2> SUFFICES ASSUME NEW d \in DOMAIN contracts', NEW n \in DOMAIN nodes',
                      contracts'[d].fi, nodes'[n].kind = "function",
                      nodes'[n].owner = d
               PROVE  nodes'[n].impl
    BY DEF FullyImplementedSound
  <2>1. n \in DOMAIN nodes /\ nodes[n].kind = "function" /\ nodes[n].owner = d
    BY <1>6, <1>8
  <2>2. \A m \in DOMAIN nodes : nodes[m].owner \in Nat /\ nodes[m].owner < nextId
    BY DEF FInv, IInv, TypeOK, NodeRec, OwnedBelow
  <2>3. d \in DOMAIN contracts
    BY <1>2, <1>9, <2>1, <2>2
  <2>4. contracts[d].fi
    BY <1>9, <2>3
  <2>5. QED  BY <1>6, <2>1, <2>3, <2>4 DEF FInv, FullyImplementedSound
<1>13. QED  BY <1>1, <1>10, <1>11, <1>12 DEF FInv


LEMMA NextFInv == FInv /\ [Next]_vars => FInv'
<1> SUFFICES ASSUME FInv, [Next]_vars PROVE FInv'
  OBVIOUS
<1>1. CASE \E np \in 0..MaxPragmas, ni \in 0..MaxImports, bs \in BaseChoices :
             ParseContract(np, ni, bs)
  BY <1>1, ParseContractFInv
<1>2. CASE SkippedElement
  BY <1>2, SkippedFInv
<1>3. CASE \E impl \in BOOLEAN : FunctionElement(impl)
  BY <1>3, FunctionFInv
<1>4. CASE \E k \in 1..MaxEnumValues : EnumElement(k)
  BY <1>4, EnumFInv
<1>5. CASE \E w1, w2 \in Widths : StateVarXor(w1, w2)
  BY <1>5, StateVarXorFInv
<1>6. CASE \E w1, w2 \in Widths : FunctionXor(w1, w2)
  BY <1>6, FunctionXorFInv
<1>7. CASE FinishContract
  BY <1>7, FinishFInv
<1>8. CASE UNCHANGED vars
  BY <1>8 DEF vars, FInv, IInv, TypeOK, IdsUnique, OwnedBelow, ContractNodes,
              FullyImplementedSound
<1>9. QED  BY <1>1, <1>2, <1>3, <1>4, <1>5, <1>6, <1>7, <1>8 DEF Next

-----------------------------------------------------------------------------
(***************************************************************************)
(* Contract.Parse never leaves a contract claiming to be fully            *)
(* implemented while it holds a function without a body, whatever the     *)
(* number of units, elements, pragmas, imports and enum values: the body   *)
(* loop clears the flag in the step that appends such a function, and a    *)
(* new contract cannot inherit a function appended before it.              *)
(***************************************************************************)
THEOREM ContractsFullyImplementedSound == Spec => []FullyImplementedSound
<1>1. FInv => FullyImplementedSound
  BY DEF FInv
<1>2. QED  BY <1>1, InitFInv, NextFInv, PTL DEF Spec


-----------------------------------------------------------------------------
\* The step relation of FullyImplementedNeverRestored.
FiKeptCleared == \A c \in DOMAIN contracts : ~contracts[c].fi => ~contracts'[c].fi

\* A body element counted with Counted never sets the flag.
LEMMA CountedKeepsCleared ==
  ASSUME FInv, cur # NoId, NEW ok \in BOOLEAN, contracts' = Counted(ok)
  PROVE  FiKeptCleared
BY CountedFacts DEF FInv, IInv, FiKeptCleared

LEMMA NextKeepsCleared == FInv /\ [Next]_vars => FiKeptCleared
<1> SUFFICES ASSUME FInv, [Next]_vars PROVE FiKeptCleared
  OBVIOUS
<1>1. ASSUME NEW np \in 0..MaxPragmas, NEW ni \in 0..MaxImports,
             NEW bs \in BaseChoices, ParseContract(np, ni, bs)
      PROVE  FiKeptCleared
  <2> DEFINE c == nextId + 2 + np + ni
             rec == [unit |-> nextId, fi |-> TRUE,
                     lin |-> <<c>> \o [i \in 1..ni |-> nextId + 1 + np + i],
                     deps |-> [i \in 1..ni |-> nextId + 1 + np + i],
                     bases |-> bs, elems |-> 0, finished |-> FALSE]
  <2>1. contracts' = Grow(contracts, [x \in {c} |-> rec])
    BY <1>1 DEF ParseContract
  <2>2. c \notin DOMAIN contracts
    <3>1. np \in Nat /\ ni \in Nat
      BY BoundsAssumption
    <3>2. nextId \in Nat /\ DOMAIN contracts \subseteq 1..(nextId - 1)
      BY DEF FInv, IInv, TypeOK, OwnedBelow
    <3>3. QED  BY <3>1, <3>2
  <2>3. \A d \in DOMAIN contracts : contracts'[d] = contracts[d]
    BY <2>1, <2>2 DEF Grow
  <2>4. QED  BY <2>3 DEF FiKeptCleared
<1>2. CASE SkippedElement
  BY <1>2, CountedKeepsCleared DEF SkippedElement, InBody
<1>3. ASSUME NEW impl \in BOOLEAN, FunctionElement(impl) PROVE FiKeptCleared
  BY <1>3, CountedKeepsCleared DEF FunctionElement, InBody
<1>4. ASSUME NEW k \in 1..MaxEnumValues, EnumElement(k) PROVE FiKeptCleared
  BY <1>4, CountedKeepsCleared DEF EnumElement, InBody
<1>5. ASSUME NEW w1 \in Widths, NEW w2 \in Widths, StateVarXor(w1, w2)
      PROVE  FiKeptCleared
  BY <1>5, CountedKeepsCleared DEF StateVarXor, InBody
<1>6. ASSUME NEW w1 \in Widths, NEW w2 \in Widths, FunctionXor(w1, w2)
      PROVE  FiKeptCleared
  BY <1>6, CountedKeepsCleared DEF FunctionXor, InBody
<1>7. CASE FinishContract
  <2>1. cur \in DOMAIN contracts /\ contracts[cur] \in ContractRec
    BY <1>7 DEF FinishContract, FInv, IInv, TypeOK
  <2>2. contracts' = [contracts EXCEPT ![cur].finished = TRUE]
    BY <1>7 DEF FinishContract
  <2>3. QED  BY <2>1, <2>2 DEF FiKeptCleared, ContractRec
<1>8. CASE UNCHANGED vars
  BY <1>8 DEF vars, FiKeptCleared
<1>9. QED  BY <1>1, <1>2, <1>3, <1>4, <1>5, <1>6, <1>7, <1>8 DEF Next

(***************************************************************************)
(* Contract.Parse only ever clears FullyImplemented, whatever the bounds:  *)
(* no step of any build turns a contract that is not fully implemented     *)
(* back into one that is.  A new contract's id is above every contract of  *)
(* the build, so ParseContract cannot overwrite an old record.             *)
(***************************************************************************)
THEOREM FullyImplementedOnlyCleared == Spec => FullyImplementedNeverRestored
<1>1. FInv /\ [Next]_vars => [FiKeptCleared]_vars
  BY NextKeepsCleared
<1>2. QED  BY <1>1, InitFInv, NextFInv, PTL
           DEF Spec, FullyImplementedNeverRestored, FiKeptCleared

=============================================================================
