---------------------------- MODULE ProcureProofs -----------------------------
(***************************************************************************)
(* Proof that procure binds every join variable to the column it was      *)
(* asked for, for every plan tree and every sequence of calls, as long as *)
(* no two columns under one JoinNode get the same <table>_<column> name.  *)
(* The hypothesis is needed: MCProcure_collide shows a.b_c and a_b.c      *)
(* sharing a_b_c.  The invariant is strengthened with the shape of the    *)
(* history (Named), with where each bound name came from (Bound), and    *)
(* with what a plain-column field computes (ColsNamed).                  *)
(***************************************************************************)
EXTENDS Procure, NatLemmas, TLAPS

(* Distinct columns under one JoinNode have distinct variable names. *)
DistinctNames ==
  \A t1, t2 \in Tables, c1, c2 \in Columns :
    Parent[TableLeaf[t1]] = Parent[TableLeaf[t2]] /\ JoinVar(t1, c1) = JoinVar(t2, c2)
      => t1 = t2 /\ c1 = c2

TypeOK ==
  /\ fields \in [Merges -> Seq(Fields)]
  /\ DOMAIN vars = Joins
  /\ \A j \in Joins : \A v \in DOMAIN vars[j] : vars[j][v] \in Nat

(* Every call recorded is a column of a table and the name procure gives it. *)
Named ==
  \A r \in returned : r = <<r[1], r[2], JoinVar(r[1], r[2])>> /\ r[1] \in Tables /\ r[2] \in Columns

(* Every bound name was returned by a call for a table under that JoinNode. *)
Bound ==
  \A j \in Joins : \A v \in DOMAIN vars[j] :
    \E r \in returned : r[3] = v /\ Parent[TableLeaf[r[1]]] = j

(* A plain-column field computes the column its field and table name.  *)
ColsNamed ==
  \A m \in Merges : \A i \in 1..Len(fields[m]) :
    fields[m][i].isCol => fields[m][i].expr = ColRef(fields[m][i].table, fields[m][i].field)

IInv == TypeOK /\ Named /\ Bound /\ ColsNamed /\ VarsResolve

(* The scan of the output fields finds a matching plain column, or -1. *)
LEMMA FindFieldSpec ==
  ASSUME NEW fs \in Seq(Fields), NEW t, NEW c
  PROVE  \/ FindField(fs, t, c) = -1
         \/ /\ FindField(fs, t, c) \in Nat
            /\ FindField(fs, t, c) + 1 \in 1..Len(fs)
            /\ fs[FindField(fs, t, c) + 1].isCol
            /\ fs[FindField(fs, t, c) + 1].field = c
            /\ fs[FindField(fs, t, c) + 1].table = t
  <1> DEFINE hits == {i \in 1..Len(fs) : fs[i].isCol /\ fs[i].field = c /\ fs[i].table = t}
  <1>1. CASE hits = {}
    BY <1>1 DEF FindField
  <1>2. CASE hits # {}
    <2>0. hits \subseteq Nat
      OBVIOUS
    <2>1. \E i \in hits : \A k \in hits : i <= k
      BY <1>2, <2>0, MinExists
    <2>2. (CHOOSE i \in hits : \A k \in hits : i <= k) \in hits
      BY <2>1
    <2>3. FindField(fs, t, c) = (CHOOSE i \in hits : \A k \in hits : i <= k) - 1
      BY <1>2 DEF FindField
    <2>. QED
      BY <2>2, <2>3
  <1>. QED
    BY <1>1, <1>2

(* The scan returns -1 only when no plain column of that name and table *)
(* is in the output.                                                    *)
LEMMA FindFieldNone ==
  ASSUME NEW fs \in Seq(Fields), NEW t, NEW c, FindField(fs, t, c) = -1
  PROVE  \A i \in 1..Len(fs) : ~(fs[i].isCol /\ fs[i].field = c /\ fs[i].table = t)
  <1> DEFINE hits == {i \in 1..Len(fs) : fs[i].isCol /\ fs[i].field = c /\ fs[i].table = t}
  <1> SUFFICES ASSUME hits # {} PROVE FALSE
    OBVIOUS
  <1>1. (CHOOSE i \in hits : \A k \in hits : i <= k) \in hits
    <2>0. hits \subseteq Nat
      OBVIOUS
    <2>. QED
      BY <2>0, MinExists
  <1>2. FindField(fs, t, c) = (CHOOSE i \in hits : \A k \in hits : i <= k) - 1
    BY DEF FindField
  <1>. QED
    BY <1>1, <1>2

(* The field procure pushes is a field. *)
LEMMA PushedType ==
  ASSUME NEW t \in Tables, NEW c \in Columns
  PROVE  Pushed(t, c) \in Fields /\ Pushed(t, c).expr = ColRef(t, c) /\ ~Pushed(t, c).isCol
  BY DEF Pushed, Fields, SelectExprs

LEMMA InitIInv == Init => IInv
  BY PlanAssumption DEF Init, IInv, TypeOK, Named, Bound, ColsNamed, IsColumnTuple,
                        VarsResolve

(* A Procure step keeps the invariant. *)
LEMMA ProcureIInv ==
  ASSUME DistinctNames, IInv, NEW t \in Tables, NEW c \in Columns, Procure(t, c)
  PROVE  IInv'
  <1> DEFINE node == TableLeaf[t]
             jn == Parent[node]
             v == JoinVar(t, c)
             found == FindField(fields[node], t, c)
             new == Pushed(t, c)
  <1>1. node \in Merges /\ jn \in Joins /\ fields[node] \in Seq(Fields) /\ new \in Fields
        /\ new.expr = ColRef(t, c) /\ ~new.isCol
    BY PlanAssumption, PushedType DEF IInv, TypeOK
  <1>2. returned' = returned \cup {<<t, c, v>>}
    BY DEF Procure
  <1>3. CASE v \in DOMAIN vars[jn]
    <2>1. PICK r \in returned : r[3] = v /\ Parent[TableLeaf[r[1]]] = jn
      BY <1>1, <1>3 DEF IInv, Bound
    <2>2. r[1] = t /\ r[2] = c
      BY <1>1, <2>1, PlanAssumption DEF IInv, Named, DistinctNames
    <2>3. <<t, c, v>> \in returned
      BY <2>1, <2>2 DEF IInv, Named
    <2>4. UNCHANGED <<fields, vars, returned>>
      BY <1>2, <1>3, <2>3 DEF Procure
    <2>5. TypeOK'
      BY <2>4 DEF IInv, TypeOK
    <2>6. Named'
      BY <2>4 DEF IInv, Named
    <2>7. Bound'
      BY <2>4 DEF IInv, Bound
    <2>8. VarsResolve'
      BY <2>4 DEF IInv, VarsResolve
    <2>9. ColsNamed'
      BY <2>4 DEF IInv, ColsNamed
    <2>. QED
      BY <2>5, <2>6, <2>7, <2>8, <2>9 DEF IInv
  <1>4. CASE v \notin DOMAIN vars[jn] /\ found # -1
    <2>1. found + 1 \in 1..Len(fields[node]) /\ found \in Nat
          /\ fields[node][found + 1].expr = ColRef(t, c)
      <3>1. found + 1 \in 1..Len(fields[node]) /\ found \in Nat /\ fields[node][found + 1].isCol
            /\ fields[node][found + 1].field = c /\ fields[node][found + 1].table = t
        BY <1>1, <1>4, FindFieldSpec
      <3>. QED
        BY <1>1, <3>1 DEF IInv, ColsNamed
    <2>2. vars' = [vars EXCEPT ![jn] = SetVar(vars[jn], v, found)] /\ UNCHANGED fields
      BY <1>3, <1>4 DEF Procure
    <2>3. \A j \in Joins : DOMAIN vars'[j] = DOMAIN vars[j] \cup (IF j = jn THEN {v} ELSE {})
      BY <1>1, <2>2 DEF IInv, TypeOK, SetVar
    <2>4. \A j \in Joins : \A w \in DOMAIN vars[j] : vars'[j][w] = vars[j][w]
      BY <1>1, <1>4, <2>2 DEF IInv, TypeOK, SetVar
    <2>5. vars'[jn][v] = found
      BY <1>1, <1>4, <2>2 DEF IInv, TypeOK, SetVar
    <2>6. TypeOK'
      BY <1>1, <2>1, <2>2, <2>3, <2>4, <2>5 DEF IInv, TypeOK
    <2>7. Named'
      BY <1>2 DEF IInv, Named
    <2>8. Bound'
      <3> SUFFICES ASSUME NEW j \in Joins, NEW w \in DOMAIN vars'[j]
                   PROVE  \E r \in returned' : r[3] = w /\ Parent[TableLeaf[r[1]]] = j
        BY DEF Bound
      <3>1. CASE w \in DOMAIN vars[j]
        BY <3>1, <1>2 DEF IInv, Bound
      <3>2. CASE w \notin DOMAIN vars[j]
        <4>1. j = jn /\ w = v
          BY <3>2, <2>3
        <4>2. <<t, c, v>> \in returned' /\ <<t, c, v>>[3] = v /\ <<t, c, v>>[1] = t
          BY <1>2
        <4>. QED
          BY <4>1, <4>2
      <3>. QED
        BY <3>1, <3>2
    <2>9. VarsResolve'
      <3> SUFFICES ASSUME NEW r \in returned'
                   PROVE  LET jr == Parent[TableLeaf[r[1]]]
                              mr == TableLeaf[r[1]]
                          IN  /\ r[3] \in DOMAIN vars'[jr]
                              /\ vars'[jr][r[3]] + 1 \in 1..Len(fields'[mr])
                              /\ fields'[mr][vars'[jr][r[3]] + 1].expr = ColRef(r[1], r[2])
        BY DEF VarsResolve
      <3>1. CASE r \in returned
        <4>1. r[1] \in Tables /\ TableLeaf[r[1]] \in Merges /\ Parent[TableLeaf[r[1]]] \in Joins
          BY <3>1, PlanAssumption DEF IInv, Named
        <4>2. LET jr == Parent[TableLeaf[r[1]]]
                  mr == TableLeaf[r[1]]
              IN  /\ r[3] \in DOMAIN vars[jr]
                  /\ vars[jr][r[3]] + 1 \in 1..Len(fields[mr])
                  /\ fields[mr][vars[jr][r[3]] + 1].expr = ColRef(r[1], r[2])
          BY <3>1 DEF IInv, VarsResolve
        <4>. QED
          BY <4>1, <4>2, <2>3, <2>4, <2>2
      <3>2. CASE r = <<t, c, v>>
        BY <3>2, <1>1, <2>3, <2>5, <2>1, <2>2
      <3>. QED
        BY <3>1, <3>2, <1>2
    <2>10. ColsNamed'
      BY <2>2 DEF IInv, ColsNamed
    <2>. QED
      BY <2>6, <2>7, <2>8, <2>9, <2>10 DEF IInv
  <1>5. CASE v \notin DOMAIN vars[jn] /\ found = -1
    <2>1. fields' = [fields EXCEPT ![node] = Append(fields[node], new)]
          /\ vars' = [vars EXCEPT ![jn] = SetVar(vars[jn], v, Len(fields[node]))]
      BY <1>3, <1>5 DEF Procure, pushSelectExpr
    <2>2. \A m \in Merges : \A i \in 1..Len(fields[m]) :
            i \in 1..Len(fields'[m]) /\ fields'[m][i] = fields[m][i]
      BY <1>1, <2>1 DEF IInv, TypeOK
    <2>3. Len(fields'[node]) = Len(fields[node]) + 1 /\ fields'[node][Len(fields[node]) + 1] = new
      BY <1>1, <2>1 DEF IInv, TypeOK
    <2>4. \A j \in Joins : DOMAIN vars'[j] = DOMAIN vars[j] \cup (IF j = jn THEN {v} ELSE {})
      BY <1>1, <2>1 DEF IInv, TypeOK, SetVar
    <2>5. \A j \in Joins : \A w \in DOMAIN vars[j] : vars'[j][w] = vars[j][w]
      BY <1>1, <1>5, <2>1 DEF IInv, TypeOK, SetVar
    <2>6. vars'[jn][v] = Len(fields[node])
      BY <1>1, <1>5, <2>1 DEF IInv, TypeOK, SetVar
    <2>7. TypeOK'
      BY <1>1, <2>1, <2>4, <2>5, <2>6 DEF IInv, TypeOK
    <2>8. Named'
      BY <1>2 DEF IInv, Named
    <2>9. Bound'
      <3> SUFFICES ASSUME NEW j \in Joins, NEW w \in DOMAIN vars'[j]
                   PROVE  \E r \in returned' : r[3] = w /\ Parent[TableLeaf[r[1]]] = j
        BY DEF Bound
      <3>1. CASE w \in DOMAIN vars[j]
        BY <3>1, <1>2 DEF IInv, Bound
      <3>2. CASE w \notin DOMAIN vars[j]
        <4>1. j = jn /\ w = v
          BY <3>2, <2>4
        <4>2. <<t, c, v>> \in returned' /\ <<t, c, v>>[3] = v /\ <<t, c, v>>[1] = t
          BY <1>2
        <4>. QED
          BY <4>1, <4>2
      <3>. QED
        BY <3>1, <3>2
    <2>10. VarsResolve'
      <3> SUFFICES ASSUME NEW r \in returned'
                   PROVE  LET jr == Parent[TableLeaf[r[1]]]
                              mr == TableLeaf[r[1]]
                          IN  /\ r[3] \in DOMAIN vars'[jr]
                              /\ vars'[jr][r[3]] + 1 \in 1..Len(fields'[mr])
                              /\ fields'[mr][vars'[jr][r[3]] + 1].expr = ColRef(r[1], r[2])
        BY DEF VarsResolve
      <3>1. CASE r \in returned
        <4>1. r[1] \in Tables /\ TableLeaf[r[1]] \in Merges /\ Parent[TableLeaf[r[1]]] \in Joins
          BY <3>1, PlanAssumption DEF IInv, Named
        <4>2. LET jr == Parent[TableLeaf[r[1]]]
                  mr == TableLeaf[r[1]]
              IN  /\ r[3] \in DOMAIN vars[jr]
                  /\ vars[jr][r[3]] + 1 \in 1..Len(fields[mr])
                  /\ fields[mr][vars[jr][r[3]] + 1].expr = ColRef(r[1], r[2])
          BY <3>1 DEF IInv, VarsResolve
        <4> DEFINE jr == Parent[TableLeaf[r[1]]]
                   mr == TableLeaf[r[1]]
                   i == vars[jr][r[3]] + 1
        <4>3. r[3] \in DOMAIN vars'[jr] /\ vars'[jr][r[3]] = vars[jr][r[3]]
          BY <4>1, <4>2, <2>4, <2>5
        <4>4. i \in 1..Len(fields'[mr]) /\ fields'[mr][i] = fields[mr][i]
          BY <4>1, <4>2, <2>2
        <4>. QED
          BY <4>2, <4>3, <4>4
      <3>2. CASE r = <<t, c, v>>
        <4>1. r[1] = t /\ r[2] = c /\ r[3] = v
          BY <3>2
        <4>2. v \in DOMAIN vars'[jn] /\ vars'[jn][v] = Len(fields[node])
          BY <1>1, <2>4, <2>6
        <4>3. Len(fields[node]) + 1 \in 1..Len(fields'[node])
              /\ fields'[node][Len(fields[node]) + 1] = new
          BY <1>1, <2>3
        <4>. QED
          BY <1>1, <4>1, <4>2, <4>3
      <3>. QED
        BY <3>1, <3>2, <1>2
    <2>11. ColsNamed'
      <3> SUFFICES ASSUME NEW m \in Merges, NEW i \in 1..Len(fields'[m]), fields'[m][i].isCol
                   PROVE  fields'[m][i].expr = ColRef(fields'[m][i].table, fields'[m][i].field)
        BY DEF ColsNamed
      <3>1. CASE m = node /\ i = Len(fields[node]) + 1
        BY <1>1, <2>3, <3>1
      <3>2. CASE ~(m = node /\ i = Len(fields[node]) + 1)
        <4>1. i \in 1..Len(fields[m]) /\ fields'[m][i] = fields[m][i]
          BY <1>1, <2>1, <3>2 DEF IInv, TypeOK
        <4>. QED
          BY <4>1 DEF IInv, ColsNamed
      <3>. QED
        BY <3>1, <3>2
    <2>. QED
      BY <2>7, <2>8, <2>9, <2>10, <2>11 DEF IInv
  <1>. QED
    BY <1>3, <1>4, <1>5

LEMMA NextIInv == DistinctNames /\ IInv /\ [Next]_pvars => IInv'
  <1> SUFFICES ASSUME DistinctNames, IInv, [Next]_pvars PROVE IInv'
    OBVIOUS
  <1>1. CASE \E t \in Tables, c \in Columns : Procure(t, c)
    BY <1>1, ProcureIInv
  <1>2. CASE UNCHANGED pvars
    BY <1>2 DEF pvars, IInv, TypeOK, Named, Bound, ColsNamed, VarsResolve
  <1>. QED
    BY <1>1, <1>2 DEF Next

(***************************************************************************)
(* When no two columns under one JoinNode share a <table>_<column> name,  *)
(* every variable procure returns reads, in the Vars of the JoinNode      *)
(* above the table, the index of a field computing exactly the column    *)
(* asked for.                                                            *)
(***************************************************************************)
THEOREM Resolve == DistinctNames => (Spec => []VarsResolve)
  <1> SUFFICES ASSUME DistinctNames PROVE Spec => []VarsResolve
    OBVIOUS
  <1>1. Init => IInv
    BY InitIInv
  <1>2. IInv /\ [Next]_pvars => IInv'
    BY NextIInv
  <1>3. IInv => VarsResolve
    BY DEF IInv
  <1>. QED
    BY <1>1, <1>2, <1>3, PTL DEF Spec
-----------------------------------------------------------------------------
(***************************************************************************)
(* No column is pushed twice, for every plan tree and whatever the names. *)
(* The outputs keep their initial fields (KeepsInit), and every field     *)
(* procure appended is the pushed tuple of a column of a table below that *)
(* MergeNode whose variable is bound in the JoinNode above (Appended).    *)
(***************************************************************************)
KeepsInit ==
  \A m \in Merges : Len(InitFields[m]) <= Len(fields[m])
                    /\ \A i \in 1..Len(InitFields[m]) : fields[m][i] = InitFields[m][i]

Appended ==
  \A m \in Merges : \A j \in 1..Len(fields[m]) : j > Len(InitFields[m]) =>
    \E t \in Tables, c \in Columns :
      TableLeaf[t] = m /\ fields[m][j] = Pushed(t, c) /\ JoinVar(t, c) \in DOMAIN vars[Parent[m]]

PInv == TypeOK /\ KeepsInit /\ Appended /\ NoColumnPushedTwice

LEMMA InitPInv == Init => PInv
  BY PlanAssumption DEF Init, PInv, TypeOK, KeepsInit, Appended, NoColumnPushedTwice

(* A Procure step keeps PInv. *)
LEMMA ProcurePInv ==
  ASSUME PInv, NEW t \in Tables, NEW c \in Columns, Procure(t, c)
  PROVE  PInv'
  <1> DEFINE node == TableLeaf[t]
             jn == Parent[node]
             v == JoinVar(t, c)
             found == FindField(fields[node], t, c)
             new == Pushed(t, c)
  <1>1. node \in Merges /\ jn \in Joins /\ fields[node] \in Seq(Fields) /\ new \in Fields
        /\ new.expr = ColRef(t, c)
    BY PlanAssumption, PushedType DEF PInv, TypeOK
  <1>2. CASE v \in DOMAIN vars[jn]
    <2>1. UNCHANGED <<fields, vars>>
      BY <1>2 DEF Procure
    <2>2. TypeOK' /\ KeepsInit'
      BY <2>1 DEF PInv, TypeOK, KeepsInit
    <2>3. Appended' /\ NoColumnPushedTwice'
      BY <2>1 DEF PInv, Appended, NoColumnPushedTwice
    <2>. QED
      BY <2>2, <2>3 DEF PInv
  <1>3. CASE v \notin DOMAIN vars[jn] /\ found # -1
    <2>1. found \in Nat
      BY <1>1, <1>3, FindFieldSpec
    <2>2. vars' = [vars EXCEPT ![jn] = SetVar(vars[jn], v, found)] /\ UNCHANGED fields
      BY <1>2, <1>3 DEF Procure
    <2>3. \A j \in Joins : DOMAIN vars[j] \subseteq DOMAIN vars'[j]
      BY <1>1, <2>2 DEF PInv, TypeOK, SetVar
    <2>4. TypeOK'
      BY <1>1, <2>1, <2>2 DEF PInv, TypeOK, SetVar
    <2>5. KeepsInit' /\ NoColumnPushedTwice'
      BY <2>2 DEF PInv, KeepsInit, NoColumnPushedTwice
    <2>6. Appended'
      BY <2>2, <2>3, PlanAssumption DEF PInv, Appended
    <2>. QED
      BY <2>4, <2>5, <2>6 DEF PInv
  <1>4. CASE v \notin DOMAIN vars[jn] /\ found = -1
    <2>1. /\ fields' = [fields EXCEPT ![node] = Append(fields[node], new)]
          /\ vars' = [vars EXCEPT ![jn] = SetVar(vars[jn], v, Len(fields[node]))]
      BY <1>2, <1>4 DEF Procure, pushSelectExpr
    <2> DEFINE last == Len(fields[node]) + 1
    <2>2. \A m \in Merges : \A i \in 1..Len(fields[m]) :
            i \in 1..Len(fields'[m]) /\ fields'[m][i] = fields[m][i]
      BY <1>1, <2>1 DEF PInv, TypeOK
    <2>3. Len(fields'[node]) = last /\ fields'[node][last] = new
          /\ \A m \in Merges \ {node} : fields'[m] = fields[m]
      BY <1>1, <2>1 DEF PInv, TypeOK
    <2>4. \A j \in Joins : DOMAIN vars[j] \subseteq DOMAIN vars'[j]
      BY <1>1, <2>1 DEF PInv, TypeOK, SetVar
    <2>5. v \in DOMAIN vars'[jn]
      BY <1>1, <2>1 DEF PInv, TypeOK, SetVar
    <2>6. TypeOK'
      BY <1>1, <2>1 DEF PInv, TypeOK, SetVar
    <2>7. KeepsInit'
      BY <2>2, <2>3 DEF PInv, KeepsInit
    <2>8. Appended'
      <3> SUFFICES ASSUME NEW m \in Merges, NEW j \in 1..Len(fields'[m]), j > Len(InitFields[m])
                   PROVE  \E t2 \in Tables, c2 \in Columns :
                            /\ TableLeaf[t2] = m /\ fields'[m][j] = Pushed(t2, c2)
                            /\ JoinVar(t2, c2) \in DOMAIN vars'[Parent[m]]
        BY DEF Appended
      <3>1. CASE m = node /\ j = last
        BY <2>3, <2>5, <3>1
      <3>2. CASE ~(m = node /\ j = last)
        <4>1. j \in 1..Len(fields[m]) /\ fields'[m][j] = fields[m][j]
          BY <1>1, <2>2, <2>3, <3>2
        <4>2. Parent[m] \in Joins
          BY PlanAssumption
        <4>. QED
          BY <4>1, <4>2, <2>4 DEF PInv, Appended
      <3>. QED
        BY <3>1, <3>2
    <2>9. \A i \in 1..Len(fields[node]) : fields[node][i].expr # ColRef(t, c)
      <3> SUFFICES ASSUME NEW i \in 1..Len(fields[node]), fields[node][i].expr = ColRef(t, c)
                   PROVE  FALSE
        OBVIOUS
      <3>1. CASE i <= Len(InitFields[node])
        <4> DEFINE f == InitFields[node][i]
        <4>1. fields[node][i] = f /\ IsColumnTuple(f)
          BY <1>1, <3>1, PlanAssumption DEF PInv, KeepsInit
        <4>2. f.isCol /\ f.field = c /\ f.table = t
          <5>1. f.expr = ColRef(t, c) /\ f.expr \in ColRefs
            BY <4>1 DEF ColRefs
          <5>2. f.isCol
            BY <4>1, <5>1 DEF IsColumnTuple
          <5>3. ColRef(f.table, f.field) = ColRef(t, c)
            BY <4>1, <5>1, <5>2 DEF IsColumnTuple
          <5>. QED
            BY <5>2, <5>3 DEF ColRef
        <4>. QED
          BY <1>1, <1>4, <4>1, <4>2, FindFieldNone
      <3>2. CASE i > Len(InitFields[node])
        <4>1. PICK t2 \in Tables, c2 \in Columns :
                TableLeaf[t2] = node /\ fields[node][i] = Pushed(t2, c2)
                /\ JoinVar(t2, c2) \in DOMAIN vars[jn]
          BY <1>1, <3>2 DEF PInv, Appended
        <4>2. t2 = t /\ c2 = c
          BY <4>1 DEF Pushed, ColRef
        <4>. QED
          BY <1>4, <4>1, <4>2
      <3>. QED
        BY <3>1, <3>2
    <2>10. NoColumnPushedTwice'
      <3> SUFFICES ASSUME NEW m \in Merges, NEW i \in 1..Len(fields'[m]), NEW j \in 1..Len(fields'[m]),
                          i < j, j > Len(InitFields[m])
                   PROVE  fields'[m][i].expr # fields'[m][j].expr
        BY DEF NoColumnPushedTwice
      <3>1. CASE m = node /\ j = last
        <4>1. i \in 1..Len(fields[node]) /\ fields'[node][i] = fields[node][i]
          BY <1>1, <2>2, <2>3, <3>1
        <4>. QED
          BY <1>1, <2>3, <2>9, <3>1, <4>1
      <3>2. CASE ~(m = node /\ j = last)
        <4>1. j \in 1..Len(fields[m]) /\ fields'[m][j] = fields[m][j]
          BY <1>1, <2>2, <2>3, <3>2
        <4>2. i \in 1..Len(fields[m]) /\ fields'[m][i] = fields[m][i]
          BY <2>2, <4>1
        <4>. QED
          BY <4>1, <4>2 DEF PInv, NoColumnPushedTwice
      <3>. QED
        BY <3>1, <3>2
    <2>. QED
      BY <2>6, <2>7, <2>8, <2>10 DEF PInv
  <1>. QED
    BY <1>2, <1>3, <1>4

LEMMA NextPInv == PInv /\ [Next]_pvars => PInv'
  <1> SUFFICES ASSUME PInv, [Next]_pvars PROVE PInv'
    OBVIOUS
  <1>1. CASE \E t \in Tables, c \in Columns : Procure(t, c)
    BY <1>1, ProcurePInv
  <1>2. CASE UNCHANGED pvars
    BY <1>2 DEF pvars, PInv, TypeOK, KeepsInit, Appended, NoColumnPushedTwice
  <1>. QED
    BY <1>1, <1>2 DEF Next

(***************************************************************************)
(* For every plan tree and every sequence of procure calls, no MergeNode  *)
(* output gets a column appended that it already computes: the Vars check *)
(* of line 86 stops every repeated push the scan of lines 90-99 misses.   *)
(***************************************************************************)
THEOREM PushOnce == Spec => []NoColumnPushedTwice
  <1>1. Init => PInv
    BY InitPInv
  <1>2. PInv /\ [Next]_pvars => PInv'
    BY NextPInv
  <1>3. PInv => NoColumnPushedTwice
    BY DEF PInv
  <1>. QED
    BY <1>1, <1>2, <1>3, PTL DEF Spec
=============================================================================
