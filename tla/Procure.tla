------------------------------ MODULE Procure --------------------------------
(***************************************************************************)
(* Join variables of the older planner: procure                           *)
(* (src/src/planner/plan_node.go, lines 77-112).  A NestLoop join that    *)
(* needs a column of a table asks procure for it; procure names the       *)
(* variable <table>_<column> (CompliantName of each part), and if the     *)
(* JoinNode above the table's MergeNode has no variable of that name yet, *)
(* binds it to the column's index in the MergeNode's output, appending    *)
(* the column to that output when it is not there.                        *)
(*                                                                         *)
(* The plan tree is fixed by constants.  MergeNode.pushSelectExpr is not  *)
(* in this source tree and is modelled from the spec (section 4.2): it     *)
(* appends the field and returns its index.  The names are model strings; *)
(* Compliant gives the CompliantName of each one.                         *)
(***************************************************************************)
EXTENDS Integers, Sequences, FiniteSets

CONSTANTS
  Joins,       \* the JoinNodes
  Merges,      \* the MergeNodes
  Parent,      \* Parent[m]: the JoinNode above MergeNode m
  Tables,      \* the tables of the query
  Columns,     \* the column names
  TableLeaf,   \* TableLeaf[t]: tbInfos[t].parent, the MergeNode of table t
  Compliant,   \* Compliant[n]: n.CompliantName()
  InitFields   \* InitFields[m]: the output fields of m before any procure

(* What an output field computes: column c of table t itself, or an     *)
(* expression over it (t.c + 1 AS c, say).                               *)
ColRef(t, c) == <<t, c>>
Calc(t, c) == <<t, c, "calc">>
SelectExprs == {ColRef(t, c) : t \in Tables, c \in Columns} \cup
               {Calc(t, c) : t \in Tables, c \in Columns}

(* An output field (selectTuple): whether it is a plain column, its field *)
(* name, its first referred table, and the expression it computes.       *)
Fields == [isCol : BOOLEAN, field : Columns, table : Tables, expr : SelectExprs]

(* The builder's column tuples (not in this source tree): a tuple is a   *)
(* plain column exactly when it computes a bare column, and a plain      *)
(* column is named by that column and its table.                        *)
ColRefs == {ColRef(t, c) : t \in Tables, c \in Columns}
IsColumnTuple(f) ==
  /\ f.isCol <=> f.expr \in ColRefs
  /\ f.isCol => f.expr = ColRef(f.table, f.field)

ASSUME PlanAssumption ==
  /\ Joins \cap Merges = {}
  /\ Parent \in [Merges -> Joins]
  /\ TableLeaf \in [Tables -> Merges]
  /\ Compliant \in [Tables \cup Columns -> STRING]
  /\ InitFields \in [Merges -> Seq(Fields)]
  /\ \A m \in Merges : \A i \in 1..Len(InitFields[m]) : IsColumnTuple(InitFields[m][i])

VARIABLES
  fields,    \* fields[m]: the output fields of MergeNode m (getFields)
  vars,      \* vars[j]: the Vars map of JoinNode j, name -> index
  returned   \* history: <<table, column, name>> for every procure call made

pvars == <<fields, vars, returned>>

Init ==
  /\ fields = InitFields
  /\ vars = [j \in Joins |-> <<>>]
  /\ returned = {}

(* The join variable name (line 85). *)
JoinVar(t, c) == Compliant[t] \o "_" \o Compliant[c]

(* Mutant: the isCol test of line 93 dropped. *)
FindFieldAnyTuple(fs, t, c) ==
  LET hits == {i \in 1..Len(fs) : fs[i].field = c /\ fs[i].table = t}
  IN IF hits = {} THEN -1 ELSE (CHOOSE i \in hits : \A k \in hits : i <= k) - 1

(* Mutant: the table test of line 94 dropped. *)
FindFieldAnyTable(fs, t, c) ==
  LET hits == {i \in 1..Len(fs) : fs[i].isCol /\ fs[i].field = c}
  IN IF hits = {} THEN -1 ELSE (CHOOSE i \in hits : \A k \in hits : i <= k) - 1

(* The scan of lines 90-99: the 0-based index of the first plain column  *)
(* with this field name and table, or -1.                                 *)
FindField(fs, t, c) ==
  LET hits == {i \in 1..Len(fs) : fs[i].isCol /\ fs[i].field = c /\ fs[i].table = t}
  IN IF hits = {} THEN -1 ELSE (CHOOSE i \in hits : \A k \in hits : i <= k) - 1

(* Go map assignment m[k] = i (line 110). *)
SetVar(m, k, i) == [x \in DOMAIN m \cup {k} |-> IF x = k THEN i ELSE m[x]]

(* The tuple procure pushes (lines 102-106): the column itself, with    *)
(* isCol left false.                                                     *)
Pushed(t, c) == [isCol |-> FALSE, field |-> c, table |-> t, expr |-> ColRef(t, c)]

(* MergeNode.pushSelectExpr: append the field, return its 0-based index. *)
pushSelectExpr(fs, f) == [fields |-> Append(fs, f), index |-> Len(fs)]

(* Mutant: the index of the appended column counted from 1. *)
ProcureFromOne(t, c) ==
  LET node == TableLeaf[t]
      jn == Parent[node]
      v == JoinVar(t, c)
      found == FindField(fields[node], t, c)
      pushed == pushSelectExpr(fields[node], Pushed(t, c))
  IN /\ returned' = returned \cup {<<t, c, v>>}
     /\ IF v \in DOMAIN vars[jn] THEN UNCHANGED <<fields, vars>>
        ELSE IF found # -1
             THEN /\ vars' = [vars EXCEPT ![jn] = SetVar(@, v, found)]
                  /\ UNCHANGED fields
             ELSE /\ fields' = [fields EXCEPT ![node] = pushed.fields]
                  /\ vars' = [vars EXCEPT ![jn] = SetVar(@, v, pushed.index + 1)]

(* Mutant: the existing-name check of line 86 dropped. *)
ProcureNoReuse(t, c) ==
  LET node == TableLeaf[t]
      jn == Parent[node]
      v == JoinVar(t, c)
      found == FindField(fields[node], t, c)
      pushed == pushSelectExpr(fields[node], Pushed(t, c))
  IN /\ returned' = returned \cup {<<t, c, v>>}
     /\ IF found # -1
        THEN /\ vars' = [vars EXCEPT ![jn] = SetVar(@, v, found)]
             /\ UNCHANGED fields
        ELSE /\ fields' = [fields EXCEPT ![node] = pushed.fields]
             /\ vars' = [vars EXCEPT ![jn] = SetVar(@, v, pushed.index)]

(***************************************************************************)
(* procure(tbInfos, col) for column c of table t (lines 77-112): an        *)
(* existing variable of that name is returned as is; otherwise it is bound *)
(* to the column's index in the MergeNode's output, pushed there first if *)
(* missing.                                                               *)
(***************************************************************************)
Procure(t, c) ==
  LET node == TableLeaf[t]
      jn == Parent[node]
      v == JoinVar(t, c)
      found == FindField(fields[node], t, c)
      pushed == pushSelectExpr(fields[node], Pushed(t, c))
  IN /\ returned' = returned \cup {<<t, c, v>>}
     /\ IF v \in DOMAIN vars[jn] THEN UNCHANGED <<fields, vars>>
        ELSE IF found # -1
             THEN /\ vars' = [vars EXCEPT ![jn] = SetVar(@, v, found)]
                  /\ UNCHANGED fields
             ELSE /\ fields' = [fields EXCEPT ![node] = pushed.fields]
                  /\ vars' = [vars EXCEPT ![jn] = SetVar(@, v, pushed.index)]

Next == \E t \in Tables, c \in Columns : Procure(t, c)
Spec == Init /\ [][Next]_pvars

-----------------------------------------------------------------------------
(***************************************************************************)
(* Every join variable procure returned reads the column it was asked     *)
(* for: in the Vars of the JoinNode above the table's MergeNode, the name *)
(* is bound to an index of that MergeNode's output that computes that     *)
(* column of that table (not an expression of the same name, nor the     *)
(* same column of another table), however many columns were procured in  *)
(* between.                                                               *)
(***************************************************************************)
VarsResolve ==
  \A r \in returned :
    LET t == r[1]  c == r[2]  v == r[3]
        node == TableLeaf[t]
        jn == Parent[node]
    IN /\ v \in DOMAIN vars[jn]
       /\ vars[jn][v] + 1 \in 1..Len(fields[node])
       /\ fields[node][vars[jn][v] + 1].expr = ColRef(t, c)

(***************************************************************************)
(* procure appends a column to a MergeNode's output only when the output  *)
(* does not compute it yet: no field appended by procure repeats an       *)
(* earlier field's expression.  The tuple it pushes has isCol false, so   *)
(* the scan of lines 90-99 never finds it again; only the Vars check of   *)
(* line 86 keeps a second request for the column from pushing it twice.  *)
(***************************************************************************)
NoColumnPushedTwice ==
  \A m \in Merges : \A i, j \in 1..Len(fields[m]) :
    i < j /\ j > Len(InitFields[m]) => fields[m][i].expr # fields[m][j].expr

=============================================================================
