--------------------------- MODULE PushDownProofs ----------------------------
(***************************************************************************)
(* Proofs about PushDown for every plan tree.  The core is the theory of  *)
(* the plan tree: the subtree relation is a partial order whose chains   *)
(* are totally ordered, so a non-empty set of nodes has exactly one       *)
(* lowest cover.  On it rest the correctness of findLCA (by induction on  *)
(* the tree), of findParent's loop (by induction on the tables seen) and *)
(* the two invariants of the pushing of expressions.                     *)
(*                                                                         *)
(* Every induction is a least-counterexample argument: the set of nodes  *)
(* where a claim fails has a node none of whose children is in it         *)
(* (TreeAssumption), and the set of loop indices where it fails has a     *)
(* least element (NatLemmas).                                             *)
(***************************************************************************)
EXTENDS PushDown, NatLemmas, NaturalsInduction, WellFoundedInduction, TLAPS

(* The pairs <<child, parent>> of the plan tree. *)
ChildRel == {cn \in Nodes \X Nodes : cn[1] \in Children(cn[2])}

LEMMA ChildrenNodes == \A n \in Nodes : Children(n) \subseteq Nodes
  BY TreeAssumption DEF Children

(* The child relation is well-founded: recursion along it is defined. *)
LEMMA ChildWF == IsWellFoundedOn(ChildRel, Nodes)
  <1>1. \A T \in SUBSET Nodes :
          T # {} => \E x \in T : \A y \in T : ~(<<y, x>> \in ChildRel)
    <2> SUFFICES ASSUME NEW T \in SUBSET Nodes, T # {}
                 PROVE  \E x \in T : \A y \in T : ~(<<y, x>> \in ChildRel)
      OBVIOUS
    <2>1. PICK n \in T : Children(n) \cap T = {}
      BY TreeAssumption
    <2>. QED
      BY <2>1 DEF ChildRel
  <1>. QED
    BY <1>1, MinWF

-----------------------------------------------------------------------------
(* The recursion that defines Subtree. *)
SubtreeDef(g, n) ==
  {n} \cup IF n \in Joins THEN g[Left[n]] \cup g[Right[n]] ELSE {}

LEMMA SubtreeEq ==
  /\ WFDefOn(ChildRel, Nodes, SubtreeDef)
  /\ WFInductiveDefines(Subtree, Nodes, SubtreeDef)
  /\ \A n \in Nodes : Subtree[n] = SubtreeDef(Subtree, n)
  <1>1. WFDefOn(ChildRel, Nodes, SubtreeDef)
    <2> SUFFICES ASSUME NEW g, NEW k, NEW x \in Nodes,
                        \A y \in SetLessThan(x, ChildRel, Nodes) : g[y] = k[y]
                 PROVE  SubtreeDef(g, x) = SubtreeDef(k, x)
      BY DEF WFDefOn
    <2>1. x \in Joins => /\ Left[x] \in SetLessThan(x, ChildRel, Nodes)
                         /\ Right[x] \in SetLessThan(x, ChildRel, Nodes)
      BY TreeAssumption DEF SetLessThan, ChildRel, Children
    <2>. QED
      BY <2>1 DEF SubtreeDef
  <1>2. OpDefinesFcn(Subtree, Nodes, SubtreeDef)
    BY DEF OpDefinesFcn, Subtree, SubtreeDef
  <1>3. WFInductiveDefines(Subtree, Nodes, SubtreeDef)
    BY <1>1, <1>2, ChildWF, WFInductiveDef
  <1>. QED
    BY <1>1, <1>3 DEF WFInductiveDefines

(* Subtree[n] is a set of nodes holding n and the subtrees of n's children. *)
LEMMA SubtreeShape ==
  ASSUME NEW n \in Nodes
  PROVE  /\ Subtree[n] \subseteq Nodes
         /\ n \in Subtree[n]
         /\ \A c \in Children(n) : Subtree[c] \subseteq Subtree[n]
         /\ \A y \in Subtree[n] : y # n =>
              \E c \in Children(n) : y \in Subtree[c]
  <1>1. \A m \in Nodes : Subtree[m] \subseteq Nodes
    <2> DEFINE Bad == {m \in Nodes : ~(Subtree[m] \subseteq Nodes)}
    <2> SUFFICES ASSUME Bad # {} PROVE FALSE
      OBVIOUS
    <2>1. PICK m \in Bad : Children(m) \cap Bad = {}
      BY TreeAssumption
    <2>2. Subtree[m] = SubtreeDef(Subtree, m)
      BY SubtreeEq
    <2>. QED
      BY <2>1, <2>2, ChildrenNodes DEF SubtreeDef, Children
  <1>2. Subtree[n] = SubtreeDef(Subtree, n)
    BY SubtreeEq
  <1>. QED
    BY <1>1, <1>2, ChildrenNodes DEF SubtreeDef, Children

(* The subtree of a node below x lies inside the subtree of x. *)
LEMMA SubtreeTrans ==
  ASSUME NEW x \in Nodes, NEW y \in Subtree[x]
  PROVE  Subtree[y] \subseteq Subtree[x]
  <1> DEFINE Bad == {z \in Nodes : \E w \in Subtree[z] : ~(Subtree[w] \subseteq Subtree[z])}
  <1>1. Bad = {}
    <2> SUFFICES ASSUME Bad # {} PROVE FALSE
      OBVIOUS
    <2>1. PICK z \in Bad : Children(z) \cap Bad = {}
      BY TreeAssumption
    <2>2. PICK w \in Subtree[z] : ~(Subtree[w] \subseteq Subtree[z])
      BY <2>1
    <2>3. w # z
      BY <2>2
    <2>4. PICK c \in Children(z) : w \in Subtree[c]
      BY <2>2, <2>3, SubtreeShape
    <2>5. c \in Nodes /\ c \notin Bad
      BY <2>1, <2>4, ChildrenNodes
    <2>6. Subtree[w] \subseteq Subtree[c]
      BY <2>4, <2>5
    <2>. QED
      BY <2>2, <2>4, <2>5, <2>6, SubtreeShape
  <1>. QED
    BY <1>1, SubtreeShape
(* No node lies below one of its children. *)
LEMMA NotBelowChild ==
  ASSUME NEW x \in Nodes, NEW c \in Children(x)
  PROVE  x \notin Subtree[c]
  <1> SUFFICES ASSUME x \in Subtree[c] PROVE FALSE
    OBVIOUS
  <1>1. c \in Nodes
    BY ChildrenNodes
  <1> DEFINE Bad == {n \in Subtree[c] : x \in Subtree[n]}
  <1>2. Bad \subseteq Nodes /\ c \in Bad
    BY <1>1, SubtreeShape
  <1>3. PICK n \in Bad : Children(n) \cap Bad = {}
    BY <1>2, TreeAssumption
  <1>4. n \in Nodes
    BY <1>2
  <1>5. CASE n = x
    BY <1>1, <1>3, <1>5, SubtreeShape
  <1>6. CASE n # x
    <2>1. PICK d \in Children(n) : x \in Subtree[d]
      BY <1>3, <1>4, <1>6, SubtreeShape
    <2>2. d \in Subtree[c]
      <3>1. d \in Subtree[n]
        BY <1>4, <2>1, ChildrenNodes, SubtreeShape
      <3>. QED
        BY <1>1, <1>3, <3>1, SubtreeTrans
    <2>. QED
      BY <1>3, <2>1, <2>2
  <1>. QED
    BY <1>5, <1>6

(* Two nodes whose subtrees meet lie one below the other. *)
LEMMA Chain ==
  ASSUME NEW x \in Nodes, NEW y \in Nodes, Subtree[x] \cap Subtree[y] # {}
  PROVE  x \in Subtree[y] \/ y \in Subtree[x]
  <1> DEFINE Apart(a, b) == /\ Subtree[a] \cap Subtree[b] # {}
                            /\ a \notin Subtree[b] /\ b \notin Subtree[a]
             Bad == {h \in Nodes : \E a, b \in Subtree[h] : Apart(a, b)}
  <1>1. Bad = {}
    <2> SUFFICES ASSUME Bad # {} PROVE FALSE
      OBVIOUS
    <2>1. PICK h \in Bad : Children(h) \cap Bad = {}
      BY TreeAssumption
    <2>2. PICK a, b \in Subtree[h] : Apart(a, b)
      BY <2>1
    <2>3. a \in Nodes /\ b \in Nodes
      BY <2>2, SubtreeShape
    <2>4. a # h /\ b # h
      BY <2>2, <2>3, SubtreeShape
    <2>5. PICK ca \in Children(h) : a \in Subtree[ca]
      BY <2>2, <2>4, SubtreeShape
    <2>6. PICK cb \in Children(h) : b \in Subtree[cb]
      BY <2>2, <2>4, SubtreeShape
    <2>7. ca \in Nodes /\ cb \in Nodes /\ ca \notin Bad
      BY <2>1, <2>5, <2>6, ChildrenNodes
    <2>8. CASE ca = cb
      BY <2>2, <2>5, <2>6, <2>7, <2>8
    <2>9. CASE ca # cb
      <3>1. h \in Joins /\ {ca, cb} = {Left[h], Right[h]}
        BY <2>5, <2>6, <2>9 DEF Children
      <3>2. Subtree[ca] \cap Subtree[cb] = {}
        BY <3>1, TreeAssumption
      <3>3. Subtree[a] \subseteq Subtree[ca] /\ Subtree[b] \subseteq Subtree[cb]
        BY <2>5, <2>6, <2>7, SubtreeTrans
      <3>. QED
        BY <2>2, <3>2, <3>3
    <2>. QED
      BY <2>8, <2>9
  <1>2. x \in Subtree[Root] /\ y \in Subtree[Root] /\ Root \in Nodes
    BY TreeAssumption
  <1>. QED
    BY <1>1, <1>2

-----------------------------------------------------------------------------
(* n is the lowest node whose subtree holds the set of nodes S. *)
IsLowest(n, S) ==
  /\ n \in Nodes
  /\ S \subseteq Subtree[n]
  /\ \A c \in Children(n) : ~(S \subseteq Subtree[c])

(* A non-empty set of nodes has at most one lowest cover. *)
LEMMA LowestUnique ==
  ASSUME NEW S, S # {}, NEW n, NEW m, IsLowest(n, S), IsLowest(m, S)
  PROVE  n = m
  <1>1. n \in Nodes /\ m \in Nodes /\ Subtree[n] \cap Subtree[m] # {}
    BY DEF IsLowest
  <1>2. ASSUME NEW a, NEW b, IsLowest(a, S), IsLowest(b, S), a \in Nodes,
               b \in Subtree[a], b # a
        PROVE  FALSE
    <2>1. PICK c \in Children(a) : b \in Subtree[c]
      BY <1>2, SubtreeShape
    <2>2. Subtree[b] \subseteq Subtree[c]
      BY <1>2, <2>1, ChildrenNodes, SubtreeTrans
    <2>. QED
      BY <1>2, <2>1, <2>2 DEF IsLowest
  <1>. QED
    BY <1>1, <1>2, Chain

(* A node is the lowest cover of itself. *)
LEMMA LowestSelf ==
  ASSUME NEW m \in Nodes
  PROVE  IsLowest(m, {m})
  BY SubtreeShape, NotBelowChild DEF IsLowest

(* If a is the lowest cover of S and b that of a and m, b is the lowest   *)
(* cover of S and m: the step of findParent's loop.                      *)
LEMMA LowestAdd ==
  ASSUME NEW S, S # {}, NEW a, IsLowest(a, S), NEW m, NEW b,
         IsLowest(b, {a, m})
  PROVE  IsLowest(b, S \cup {m})
  <1>1. a \in Nodes /\ b \in Nodes /\ a \in Subtree[b] /\ m \in Subtree[b]
    BY DEF IsLowest
  <1>2. S \cup {m} \subseteq Subtree[b]
    BY <1>1, SubtreeTrans DEF IsLowest
  <1>3. ASSUME NEW c \in Children(b), S \cup {m} \subseteq Subtree[c]
        PROVE  FALSE
    <2>1. c \in Nodes
      BY <1>1, ChildrenNodes
    <2>2. Subtree[c] \cap Subtree[a] # {}
      BY <1>3 DEF IsLowest
    <2>3. CASE a \in Subtree[c]
      <3>1. {a, m} \subseteq Subtree[c]
        BY <1>3, <2>3
      <3>. QED
        BY <3>1 DEF IsLowest
    <2>4. CASE c \in Subtree[a] /\ c # a
      <3>1. PICK d \in Children(a) : c \in Subtree[d]
        BY <1>1, <2>4, SubtreeShape
      <3>2. Subtree[c] \subseteq Subtree[d]
        BY <1>1, <3>1, ChildrenNodes, SubtreeTrans
      <3>. QED
        BY <1>3, <3>1, <3>2 DEF IsLowest
    <2>5. CASE c = a
      <3>1. a \in Subtree[c] /\ m \in Subtree[c]
        BY <1>1, <1>3, <2>5, SubtreeShape
      <3>2. ~({a, m} \subseteq Subtree[c])
        BY DEF IsLowest
      <3>. QED
        BY <3>1, <3>2
    <2>. QED
      BY <1>1, <2>1, <2>2, <2>3, <2>4, <2>5, Chain
  <1>. QED
    BY <1>1, <1>2, <1>3 DEF IsLowest
-----------------------------------------------------------------------------
(* The body of the recursion of findLCA, for the targets p1 and p2. *)
LCABody(g, n, p1, p2) ==
  IF p1 = n \/ p2 = n THEN n
  ELSE IF n \notin Joins THEN Nil
  ELSE LET pl == g[Left[n]]
           pr == g[Right[n]]
       IN IF pl # Nil /\ pr # Nil THEN n
          ELSE IF pl = Nil THEN pr ELSE pl

(* findLCA unfolds once: the recursion of lines 41-59 is well defined. *)
LEMMA LCAStep ==
  ASSUME NEW p1, NEW p2, NEW h \in Nodes
  PROVE  findLCA(h, p1, p2) =
           IF p1 = h \/ p2 = h THEN h
           ELSE IF h \notin Joins THEN Nil
           ELSE IF findLCA(Left[h], p1, p2) # Nil /\ findLCA(Right[h], p1, p2) # Nil
                THEN h
           ELSE IF findLCA(Left[h], p1, p2) = Nil THEN findLCA(Right[h], p1, p2)
           ELSE findLCA(Left[h], p1, p2)
  <1> DEFINE Def(g, n) == LCABody(g, n, p1, p2)
  <1> DEFINE f == CHOOSE g : g = [n \in Nodes |-> Def(g, n)]
  <1>1. WFDefOn(ChildRel, Nodes, Def)
    <2> SUFFICES ASSUME NEW g, NEW k, NEW x \in Nodes,
                        \A y \in SetLessThan(x, ChildRel, Nodes) : g[y] = k[y]
                 PROVE  Def(g, x) = Def(k, x)
      BY DEF WFDefOn
    <2>1. x \in Joins => /\ Left[x] \in SetLessThan(x, ChildRel, Nodes)
                         /\ Right[x] \in SetLessThan(x, ChildRel, Nodes)
      BY TreeAssumption DEF SetLessThan, ChildRel, Children
    <2>. QED
      BY <2>1 DEF LCABody
  <1>2. OpDefinesFcn(f, Nodes, Def)
    BY DEF OpDefinesFcn
  <1>3. WFInductiveDefines(f, Nodes, Def)
    BY <1>1, <1>2, ChildWF, WFInductiveDef
  <1>4. \A n \in Nodes : findLCA(n, p1, p2) = f[n]
    BY DEF findLCA, LCABody
  <1>5. f[h] = Def(f, h)
    BY <1>3 DEF WFInductiveDefines
  <1>6. h \in Joins => Left[h] \in Nodes /\ Right[h] \in Nodes
    BY TreeAssumption
  <1>. QED
    BY <1>4, <1>5, <1>6 DEF LCABody

(* What findLCA(h, p1, p2) returns: nil when neither target is below h,  *)
(* the target that is when only one is, and their lowest common cover    *)
(* when both are.                                                        *)
LCAOK(h, p1, p2) ==
  LET r == findLCA(h, p1, p2) IN
  /\ p1 \notin Subtree[h] /\ p2 \notin Subtree[h] => r = Nil
  /\ p1 \in Subtree[h] /\ p2 \notin Subtree[h] => r = p1
  /\ p1 \notin Subtree[h] /\ p2 \in Subtree[h] => r = p2
  /\ p1 \in Subtree[h] /\ p2 \in Subtree[h] => IsLowest(r, {p1, p2})

LEMMA LCACorrect ==
  ASSUME NEW p1 \in Nodes, NEW p2 \in Nodes
  PROVE  \A h \in Nodes : LCAOK(h, p1, p2)
  <1> DEFINE Bad == {h \in Nodes : ~LCAOK(h, p1, p2)}
  <1> SUFFICES ASSUME Bad # {} PROVE FALSE
    OBVIOUS
  <1>1. PICK h \in Bad : Children(h) \cap Bad = {}
    BY TreeAssumption
  <1>2. h \in Nodes
    OBVIOUS
  <1>3. CASE p1 = h \/ p2 = h
    <2>1. findLCA(h, p1, p2) = h
      BY <1>2, <1>3, LCAStep
    <2>2. IsLowest(h, {p1, p2}) \/ ~(p1 \in Subtree[h] /\ p2 \in Subtree[h])
      <3>1. \A c \in Children(h) : h \notin Subtree[c]
        BY <1>2, NotBelowChild
      <3>. QED
        BY <1>2, <1>3, <3>1 DEF IsLowest
    <2>3. h \in Subtree[h]
      BY <1>2, SubtreeShape
    <2>. QED
      BY <1>1, <1>3, <2>1, <2>2, <2>3 DEF LCAOK
  <1>4. CASE p1 # h /\ p2 # h /\ h \notin Joins
    <2>1. findLCA(h, p1, p2) = Nil
      BY <1>2, <1>4, LCAStep
    <2>2. p1 \notin Subtree[h] /\ p2 \notin Subtree[h]
      BY <1>2, <1>4, SubtreeShape DEF Children
    <2>. QED
      BY <1>1, <2>1, <2>2 DEF LCAOK
  <1>5. CASE p1 # h /\ p2 # h /\ h \in Joins
    <2> DEFINE L == Left[h]
               R == Right[h]
               pl == findLCA(L, p1, p2)
               pr == findLCA(R, p1, p2)
    <2>1. L \in Nodes /\ R \in Nodes /\ Children(h) = {L, R}
      BY <1>5, TreeAssumption DEF Children
    <2>2. LCAOK(L, p1, p2) /\ LCAOK(R, p1, p2)
      BY <1>1, <2>1
    <2>3. findLCA(h, p1, p2) =
            IF pl # Nil /\ pr # Nil THEN h ELSE IF pl = Nil THEN pr ELSE pl
      BY <1>2, <1>5, LCAStep
    <2>4. \A p \in {p1, p2} : p \in Subtree[h] <=> p \in Subtree[L] \/ p \in Subtree[R]
      BY <1>2, <1>5, <2>1, SubtreeShape
    <2>5. Subtree[L] \cap Subtree[R] = {}
      BY <1>5, TreeAssumption
    <2>6. Nil \notin Nodes
      BY TreeAssumption
    <2>7. \A S, n : IsLowest(n, S) => n \in Nodes
      BY DEF IsLowest
    <2>8. p1 \in Subtree[L] /\ p2 \in Subtree[R] => IsLowest(h, {p1, p2})
      BY <1>2, <2>1, <2>4, <2>5 DEF IsLowest
    <2>9. p2 \in Subtree[L] /\ p1 \in Subtree[R] => IsLowest(h, {p1, p2})
      BY <1>2, <2>1, <2>4, <2>5 DEF IsLowest
    <2>10. LCAOK(h, p1, p2)
      BY <2>2, <2>3, <2>4, <2>5, <2>6, <2>7, <2>8, <2>9 DEF LCAOK
    <2>. QED
      BY <1>1, <2>10
  <1>. QED
    BY <1>3, <1>4, <1>5
-----------------------------------------------------------------------------
(* One iteration of the loop of findParent (lines 74-82) on the i-th table, *)
(* from the parent v found for the tables before it.                       *)
ParentStep(v, i, tables, node) ==
  IF v = Nil THEN TableLeaf[tables[i]]
  ELSE IF v # TableLeaf[tables[i]] THEN findLCA(node, v, TableLeaf[tables[i]])
  ELSE v

(* The value of parent after the loop has seen the first k tables. *)
ParentAt(tables, node, k) ==
  LET parent[i \in Nat] ==
        IF i = 0 THEN Nil
        ELSE IF parent[i - 1] = Nil THEN TableLeaf[tables[i]]
        ELSE IF parent[i - 1] # TableLeaf[tables[i]]
             THEN findLCA(node, parent[i - 1], TableLeaf[tables[i]])
             ELSE parent[i - 1]
  IN parent[k]

(* The MergeNodes of the first k tables. *)
Prefix(tables, k) == {TableLeaf[tables[i]] : i \in 1..k}

(* The loop of findParent unfolds one iteration at a time. *)
LEMMA ParentEq ==
  ASSUME NEW tables, NEW node
  PROVE  /\ findParent(tables, node) = ParentAt(tables, node, Len(tables))
         /\ ParentAt(tables, node, 0) = Nil
         /\ \A k \in Nat \ {0} :
              ParentAt(tables, node, k) =
                ParentStep(ParentAt(tables, node, k - 1), k, tables, node)
  <1> DEFINE Def(v, i) == ParentStep(v, i, tables, node)
  <1> DEFINE f == CHOOSE g : g = [i \in Nat |-> IF i = 0 THEN Nil ELSE Def(g[i - 1], i)]
  <1>1. NatInductiveDefHypothesis(f, Nil, Def)
    BY DEF NatInductiveDefHypothesis
  <1>2. NatInductiveDefConclusion(f, Nil, Def)
    BY <1>1, NatInductiveDef
  <1>3. \A k \in Nat : ParentAt(tables, node, k) = f[k]
    BY DEF ParentAt, ParentStep
  <1>4. findParent(tables, node) = ParentAt(tables, node, Len(tables))
    BY DEF findParent, ParentAt
  <1>5. \A k \in Nat : f[k] = IF k = 0 THEN Nil ELSE ParentStep(f[k - 1], k, tables, node)
    BY <1>2 DEF NatInductiveDefConclusion
  <1>6. \A k \in Nat \ {0} : k - 1 \in Nat
    OBVIOUS
  <1>. QED
    BY <1>3, <1>4, <1>5, <1>6

(* The loop invariant of findParent started at the root: after k tables, *)
(* parent is the lowest node covering their MergeNodes.                 *)
LEMMA ParentLowest ==
  ASSUME NEW tables \in Seq(Tables)
  PROVE  \A k \in 1..Len(tables) : IsLowest(ParentAt(tables, Root, k), Prefix(tables, k))
  <1> DEFINE Bad == {k \in 1..Len(tables) :
                       ~IsLowest(ParentAt(tables, Root, k), Prefix(tables, k))}
  <1> SUFFICES ASSUME Bad # {} PROVE FALSE
    OBVIOUS
  <1>0. Bad \subseteq Nat
    OBVIOUS
  <1>1. PICK k \in Bad : \A j \in Bad : k <= j
    BY <1>0, MinExists
  <1>2. k \in Nat \ {0} /\ k <= Len(tables)
    BY <1>1
  <1> DEFINE m == TableLeaf[tables[k]]
             v == ParentAt(tables, Root, k - 1)
  <1>3. m \in Nodes
    <2>1. tables[k] \in Tables
      BY <1>2
    <2>. QED
      BY <2>1, TreeAssumption DEF Nodes
  <1>4. ParentAt(tables, Root, k) = ParentStep(v, k, tables, Root)
    BY <1>2, ParentEq
  <1>5. CASE k = 1
    <2>1. v = Nil
      <3>1. k - 1 = 0
        BY <1>5
      <3>. QED
        BY <3>1, ParentEq
    <2>2. ParentAt(tables, Root, k) = m
      BY <1>4, <2>1 DEF ParentStep
    <2>3. Prefix(tables, k) = {m}
      <3>1. 1..k = {1}
        BY <1>5
      <3>. QED
        BY <1>5, <3>1 DEF Prefix
    <2>4. IsLowest(ParentAt(tables, Root, k), Prefix(tables, k))
      BY <1>3, <2>2, <2>3, LowestSelf
    <2>. QED
      BY <1>1, <2>4
  <1>6. CASE k # 1
    <2>1. k - 1 \in 1..Len(tables)
      BY <1>2, <1>6
    <2>2. IsLowest(v, Prefix(tables, k - 1))
      <3>1. k - 1 \notin Bad
        BY <1>1, <1>2, <2>1
      <3>. QED
        BY <2>1, <3>1, Zenon
    <2>3. v \in Nodes /\ v # Nil /\ Prefix(tables, k - 1) # {}
      <3>1. v \in Nodes
        BY <2>2 DEF IsLowest
      <3>2. TableLeaf[tables[1]] \in Prefix(tables, k - 1)
        BY <2>1 DEF Prefix
      <3>. QED
        BY <3>1, <3>2, TreeAssumption
    <2>4. Prefix(tables, k) = Prefix(tables, k - 1) \cup {m}
      <3>1. 1..k = (1..(k - 1)) \cup {k}
        BY <1>2
      <3>. QED
        BY <3>1 DEF Prefix
    <2>5. IsLowest(ParentAt(tables, Root, k), {v, m})
      <3>1. CASE v # m
        <4>1. ParentAt(tables, Root, k) = findLCA(Root, v, m)
          BY <1>4, <2>3, <3>1 DEF ParentStep
        <4>2. v \in Subtree[Root] /\ m \in Subtree[Root]
          BY <1>3, <2>3, TreeAssumption
        <4>3. LCAOK(Root, v, m)
          BY <1>3, <2>3, LCACorrect, TreeAssumption
        <4>. QED
          BY <4>1, <4>2, <4>3 DEF LCAOK
      <3>2. CASE v = m
        <4>1. ParentAt(tables, Root, k) = v
          BY <1>4, <2>3, <3>2 DEF ParentStep
        <4>2. {v, m} = {v}
          BY <3>2
        <4>. QED
          BY <2>3, <4>1, <4>2, LowestSelf
      <3>. QED
        BY <3>1, <3>2
    <2>6. IsLowest(ParentAt(tables, Root, k), Prefix(tables, k))
      <3>1. IsLowest(ParentAt(tables, Root, k), Prefix(tables, k - 1) \cup {m})
        BY <2>2, <2>3, <2>5, LowestAdd
      <3>. QED
        BY <2>4, <3>1
    <2>. QED
      BY <1>1, <2>6
  <1>. QED
    BY <1>5, <1>6
-----------------------------------------------------------------------------
(* findParent started at the root returns the reference node LowestCover *)
(* for any non-empty list of tables, whatever their order.               *)
LEMMA FindParentCover ==
  ASSUME NEW tables \in Seq(Tables), tables # <<>>
  PROVE  /\ findParent(tables, Root) = LowestCover(tables)
         /\ LowestCover(tables) \in Nodes
  <1>1. Len(tables) \in 1..Len(tables)
    OBVIOUS
  <1>2. IsLowest(findParent(tables, Root), Leaves(tables))
    <2>1. IsLowest(ParentAt(tables, Root, Len(tables)), Prefix(tables, Len(tables)))
      BY <1>1, ParentLowest
    <2>2. Prefix(tables, Len(tables)) = Leaves(tables)
      BY DEF Prefix, Leaves
    <2>. QED
      BY <2>1, <2>2, ParentEq
  <1>3. Leaves(tables) # {}
    BY <1>1 DEF Leaves
  <1>4. \A n : IsLowest(n, Leaves(tables)) <=>
                 n \in Nodes /\ Covers(n, tables) /\ \A c \in Children(n) : ~Covers(c, tables)
    BY DEF IsLowest, Covers
  <1>5. IsLowest(LowestCover(tables), Leaves(tables))
    BY <1>2, <1>4 DEF LowestCover
  <1>. QED
    BY <1>2, <1>3, <1>5, LowestUnique DEF IsLowest

(* What a handler does with an expression over tables: it pushes it to   *)
(* its lowest cover, or refuses it with an error because that cover is a *)
(* join that is not a NestLoop join.                                     *)
HandleOK(e) ==
  /\ Handle(e).kind = "push" => Handle(e).node = LowestCover(e.tables)
  /\ Handle(e).kind # "push" =>
       /\ Handle(e).kind = "error"
       /\ LowestCover(e.tables) \in Joins
       /\ Strategy[LowestCover(e.tables)] # "NestLoop"

LEMMA HandleCorrect ==
  ASSUME NEW e \in ReferExprs
  PROVE  HandleOK(e)
  <1>1. e.tables \in Seq(Tables) /\ e.tables # <<>> /\ e.kind \in Kinds
    BY DEF ReferExprs, Exprs
  <1>2. findParent(e.tables, Root) = LowestCover(e.tables)
        /\ LowestCover(e.tables) \in Nodes
    BY <1>1, FindParentCover
  <1>. QED
    BY <1>1, <1>2, TreeAssumption
    DEF HandleOK, Handle, handleFilter, handleSelectExpr, handleHaving, Kinds,
        Pushed, Unsupported, NilCall

-----------------------------------------------------------------------------
(* IInv holds in every initial state of a query made of ReferExprs. *)
LEMMA InitIInv ==
  ASSUME QueriesRefer, Init
  PROVE  IInv
  <1>1. queue \in Seq(ReferExprs)
    BY DEF QueriesRefer, Init
  <1>2. pushed \in [Nodes -> Seq(Exprs)] /\ \A n \in Nodes : Len(pushed[n]) = 0
    BY DEF Init
  <1>. QED
    BY <1>1, <1>2 DEF Init, IInv, PushedAtLowestCover, RejectOnlyCrossShard

(* Every step of the planner keeps IInv. *)
LEMMA NextIInv ==
  ASSUME IInv, [Next]_vars
  PROVE  IInv'
  <1>1. CASE Push
    <2> DEFINE e == Head(queue)
               n == Handle(e).node
    <2>1. e \in ReferExprs /\ Tail(queue) \in Seq(ReferExprs)
      BY <1>1 DEF Push, IInv
    <2>2. n = LowestCover(e.tables) /\ n \in Nodes
      BY <1>1, <2>1, HandleCorrect, FindParentCover DEF Push, HandleOK, ReferExprs, Exprs
    <2>3. pushed' = [pushed EXCEPT ![n] = Append(@, e)]
      BY <1>1 DEF Push
    <2>4. pushed' \in [Nodes -> Seq(Exprs)]
      BY <2>1, <2>2, <2>3 DEF IInv, ReferExprs
    <2>5. PushedAtLowestCover'
      <3> SUFFICES ASSUME NEW x \in Nodes, NEW i \in 1..Len(pushed'[x])
                   PROVE  x = LowestCover(pushed'[x][i].tables)
        BY DEF PushedAtLowestCover
      <3>1. CASE x # n
        BY <2>2, <2>3, <3>1 DEF IInv, PushedAtLowestCover
      <3>2. CASE x = n /\ i <= Len(pushed[n])
        <4>1. pushed'[x][i] = pushed[x][i] /\ i \in 1..Len(pushed[x])
          BY <2>2, <2>3, <3>2 DEF IInv
        <4>. QED
          BY <4>1 DEF IInv, PushedAtLowestCover
      <3>3. CASE x = n /\ i > Len(pushed[n])
        <4>1. pushed'[x][i] = e
          BY <2>2, <2>3, <3>3 DEF IInv
        <4>. QED
          BY <2>2, <3>3, <4>1
      <3>. QED
        BY <3>1, <3>2, <3>3
    <2>6. RejectOnlyCrossShard'
      BY <1>1 DEF Push, RejectOnlyCrossShard
    <2>. QED
      BY <1>1, <2>1, <2>4, <2>5, <2>6 DEF Push, IInv
  <1>2. CASE Reject
    <2>1. Head(queue) \in ReferExprs
      BY <1>2 DEF Reject, IInv
    <2>2. HandleOK(Head(queue))
      BY <2>1, HandleCorrect
    <2>3. RejectOnlyCrossShard'
      BY <1>2, <2>2 DEF Reject, HandleOK, RejectOnlyCrossShard
    <2>. QED
      BY <1>2, <2>3 DEF Reject, IInv, PushedAtLowestCover
  <1>3. CASE Complete
    BY <1>3 DEF Complete, IInv, PushedAtLowestCover, RejectOnlyCrossShard
  <1>4. CASE Returned \/ UNCHANGED vars
    BY <1>4 DEF Returned, vars, IInv, PushedAtLowestCover, RejectOnlyCrossShard
  <1>. QED
    BY <1>1, <1>2, <1>3, <1>4 DEF Next
-----------------------------------------------------------------------------
(* When every query pushes only expressions over tables, IInv holds in    *)
(* every reachable state of the planner, for every plan tree.             *)
THEOREM IInvHolds ==
  ASSUME QueriesRefer
  PROVE  Spec => []IInv
  <1>1. Init => IInv
    BY InitIInv
  <1>2. IInv /\ [Next]_vars => IInv'
    BY NextIInv
  <1>. QED
    BY <1>1, <1>2, PTL DEF Spec

(* Every expression pushed down by handleFilter, handleSelectExpr or     *)
(* handleHaving lands on the lowest node of any plan tree that covers    *)
(* its tables, whatever order findParent meets them in.                  *)
THEOREM PushedAtLowestCoverHolds ==
  ASSUME QueriesRefer
  PROVE  Spec => []PushedAtLowestCover
  <1>1. IInv => PushedAtLowestCover
    BY DEF IInv
  <1>. QED
    BY <1>1, IInvHolds, PTL

(* The planner stops only with the cross-shard `unsupported` error of a  *)
(* handler at a join that is not a NestLoop join, never on a nil parent. *)
THEOREM RejectOnlyCrossShardHolds ==
  ASSUME QueriesRefer
  PROVE  Spec => []RejectOnlyCrossShard
  <1>1. IInv => RejectOnlyCrossShard
    BY DEF IInv
  <1>. QED
    BY <1>1, IInvHolds, PTL
=============================================================================
