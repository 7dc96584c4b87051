------------------------------ MODULE JoinExec ------------------------------
(***************************************************************************)
(* JoinExecutor.execute (src/src/executor/join_executor.go): the fork-join *)
(* of a JOIN plan node.  The calling goroutine ("main") adds to a          *)
(* WaitGroup and spawns one goroutine per child executor, waits on the     *)
(* WaitGroup, returns the first error the children appended to the shared *)
(* allErrors slice (guarded by a mutex), and otherwise assembles the join  *)
(* result from the two children's result contexts.                        *)
(*                                                                         *)
(* A child executor is abstracted to its outcome: an error, or a result    *)
(* set given as a sequence of row identities.  A joined row is a sequence *)
(* of cells <<row, i>>, "column i of row", so that the Cols index          *)
(* arithmetic of joinRows is modelled exactly.                             *)
(***************************************************************************)
EXTENDS Integers, Sequences, FiniteSets

CONSTANTS
  LeftRows,    \* row identities a left child may return
  RightRows,   \* row identities a right child may return
  MaxRows,     \* bound on the number of rows a child returns
  Errors,      \* [Sides -> error values] : the error each child may fail with
  NoErr,       \* a nil error
  Null,        \* a NULL cell (rrow == nil in joinRows)
  Cols,        \* JoinNode.Cols : signed, 1-based column mapping
  LeftWidth,   \* number of output columns of the left child
  RightWidth,  \* number of output columns of the right child
  Strategy     \* JoinNode.Strategy

Sides == {"left", "right"}
Procs == Sides \cup {"main"}
(* sortMergeJoin is not part of this source tree: a SortMerge node is not *)
(* modelled, the strategies are those whose rows execute builds itself.  *)
Strategies == {"Cartesian", "NestLoop"}

ASSUME RowsAssumption ==
  /\ IsFiniteSet(LeftRows) /\ IsFiniteSet(RightRows)
  /\ Null \notin LeftRows \cup RightRows
ASSUME MaxRowsAssumption == MaxRows \in Nat
ASSUME ErrorsAssumption ==
  /\ DOMAIN Errors = Sides
  /\ NoErr \notin {Errors[s] : s \in Sides}
ASSUME ColsAssumption ==
  /\ LeftWidth \in Nat /\ RightWidth \in Nat
  /\ Cols \in Seq((-LeftWidth..-1) \cup (1..RightWidth))
ASSUME StrategyAssumption == Strategy \in Strategies

(* Result sets a child may produce: at most MaxRows rows. *)
RowSeqs(R) == UNION {[1..n -> R] : n \in 0..MaxRows}
NoResult == <<"none">>

VARIABLES
  pc,         \* program counter of main and of the two child goroutines
  wg,         \* the sync.WaitGroup counter
  mu,         \* holder of the sync.Mutex, or "none"
  allErrors,  \* the shared error slice
  err,        \* err returned by each child's exec.execute
  results,    \* lctx.Results / rctx.Results of each side
  ret,        \* error returned by JoinExecutor.execute
  res         \* ctx.Results built by main

vars == <<pc, wg, mu, allErrors, err, results, ret, res>>

(***************************************************************************)
(* joinRows (lines 107-120): output cell i is column -Cols[i] of the left *)
(* row if Cols[i] < 0, else column Cols[i] of the right row, left unset   *)
(* (NULL) when the right row is nil.                                       *)
(***************************************************************************)
joinRows(lrow, rrow) ==
  [i \in 1..Len(Cols) |->
     IF Cols[i] < 0 THEN <<lrow, -Cols[i]>>
     ELSE IF rrow = Null THEN Null ELSE <<rrow, Cols[i]>>]

(* joinFields (lines 94-104): the field descriptors selected by Cols. *)
joinFields ==
  [i \in 1..Len(Cols) |->
     IF Cols[i] < 0 THEN <<"left", -Cols[i]>> ELSE <<"right", Cols[i]>>]

(* Mutant: the loops swapped, outer over the right rows. *)
cartesianProductSwapped(lrows, rrows) ==
  [k \in 1..Len(lrows) * Len(rrows) |->
     joinRows(lrows[((k - 1) % Len(lrows)) + 1], rrows[((k - 1) \div Len(lrows)) + 1])]

(***************************************************************************)
(* cartesianProduct (lines 123-130): the two nested loops, outer over the *)
(* left rows, each appending one joined row per right row.  The k-th row  *)
(* appended is therefore the join of left row (k-1) div n + 1 with right  *)
(* row (k-1) mod n + 1, n the number of right rows.                       *)
(***************************************************************************)
cartesianProduct(lrows, rrows) ==
  [k \in 1..Len(lrows) * Len(rrows) |->
     joinRows(lrows[((k - 1) \div Len(rrows)) + 1], rrows[((k - 1) % Len(rrows)) + 1])]

(* concatLeftAndNil: every left row joined with a nil right row. *)
concatLeftAndNil(lrows) == [i \in 1..Len(lrows) |-> joinRows(lrows[i], Null)]

(* The rows main assembles after the barrier (lines 73-88).  The switch   *)
(* has no case for NestLoop, which therefore yields no rows here.         *)
JoinedRows(lrows, rrows) ==
  IF lrows = <<>> THEN <<>>
  ELSE IF rrows = <<>> THEN concatLeftAndNil(lrows)
  ELSE IF Strategy = "Cartesian" THEN cartesianProduct(lrows, rrows)
  ELSE <<>>

Init ==
  /\ pc = [p \in Procs |-> IF p = "main" THEN "addL" ELSE "idle"]
  /\ wg = 0
  /\ mu = "none"
  /\ allErrors = <<>>
  /\ err = [s \in Sides |-> NoErr]
  /\ results = [s \in Sides |-> NoResult]
  /\ ret = NoErr
  /\ res = NoResult

Goto(p, from, to) == pc[p] = from /\ pc' = [pc EXCEPT ![p] = to]

(* Mutant: the second wg.Add(1) is missing. *)
AddOnce(from, to) ==
  /\ Goto("main", from, to)
  /\ wg' = IF from = "addR" THEN wg ELSE wg + 1
  /\ UNCHANGED <<mu, allErrors, err, results, ret, res>>

(* wg.Add(1) before spawning a child (lines 64, 66). *)
Add(from, to) ==
  /\ Goto("main", from, to)
  /\ wg' = wg + 1
  /\ UNCHANGED <<mu, allErrors, err, results, ret, res>>

(* go oneExec(...) (lines 65, 67). *)
Spawn(s, from, to) ==
  /\ pc["main"] = from /\ pc[s] = "idle"
  /\ pc' = [pc EXCEPT !["main"] = to, ![s] = "exec"]
  /\ UNCHANGED <<wg, mu, allErrors, err, results, ret, res>>

(* exec.execute(req, ctx) (line 55): the child's plan runs to completion *)
(* and either fails or fills its result context.                        *)
ExecChild(s) ==
  /\ pc[s] = "exec"
  /\ \/ /\ err' = [err EXCEPT ![s] = Errors[s]]
        /\ pc' = [pc EXCEPT ![s] = "lock"]
        /\ UNCHANGED results
     \/ /\ \E rows \in RowSeqs(IF s = "left" THEN LeftRows ELSE RightRows) :
             results' = [results EXCEPT ![s] = rows]
        /\ pc' = [pc EXCEPT ![s] = "done"]
        /\ UNCHANGED err
  /\ UNCHANGED <<wg, mu, allErrors, ret, res>>

(* mu.Lock() (line 56). *)
Lock(s) ==
  /\ pc[s] = "lock" /\ mu = "none"
  /\ mu' = s
  /\ pc' = [pc EXCEPT ![s] = "append"]
  /\ UNCHANGED <<wg, allErrors, err, results, ret, res>>

(* Mutant: a single shared error slot, overwritten by the later error. *)
AppendErrOverwrite(s) ==
  /\ pc[s] = "append"
  /\ allErrors' = <<err[s]>>
  /\ mu' = "none"
  /\ pc' = [pc EXCEPT ![s] = "done"]
  /\ UNCHANGED <<wg, err, results, ret, res>>

(* Mutant: wg.Done() not deferred, skipped on the error return path. *)
AppendErrNoDone(s) ==
  /\ pc[s] = "append"
  /\ allErrors' = Append(allErrors, err[s])
  /\ mu' = "none"
  /\ pc' = [pc EXCEPT ![s] = "finished"]
  /\ UNCHANGED <<wg, err, results, ret, res>>

(* allErrors = append(allErrors, err); mu.Unlock() (lines 57-58). *)
AppendErr(s) ==
  /\ pc[s] = "append"
  /\ allErrors' = Append(allErrors, err[s])
  /\ mu' = "none"
  /\ pc' = [pc EXCEPT ![s] = "done"]
  /\ UNCHANGED <<wg, err, results, ret, res>>

(* defer wg.Done() (line 49). *)
Done(s) ==
  /\ Goto(s, "done", "finished")
  /\ wg' = wg - 1
  /\ UNCHANGED <<mu, allErrors, err, results, ret, res>>

(* Mutant: main passes wg.Wait() without the counter at zero. *)
WaitNoBarrier ==
  /\ pc["main"] = "wait"
  /\ pc' = [pc EXCEPT !["main"] = "join"]
  /\ UNCHANGED <<wg, mu, allErrors, err, results, ret, res>>

(* wg.Wait() (line 68). *)
Wait ==
  /\ pc["main"] = "wait" /\ wg = 0
  /\ pc' = [pc EXCEPT !["main"] = "join"]
  /\ UNCHANGED <<wg, mu, allErrors, err, results, ret, res>>

(* Lines 69-90: return the first collected error, or build the result.  *)
Finish ==
  /\ pc["main"] = "join"
  /\ pc' = [pc EXCEPT !["main"] = "end"]
  /\ IF Len(allErrors) > 0
       THEN /\ ret' = allErrors[1]
            /\ UNCHANGED res
       ELSE /\ res' = [fields |-> joinFields,
                       rows   |-> JoinedRows(results["left"], results["right"])]
            /\ UNCHANGED ret
  /\ UNCHANGED <<wg, mu, allErrors, err, results>>

(* execute has returned: the system stops. *)
Terminated == pc["main"] = "end" /\ UNCHANGED vars

Next ==
  \/ Add("addL", "goL") \/ Spawn("left", "goL", "addR")
  \/ Add("addR", "goR") \/ Spawn("right", "goR", "wait")
  \/ Wait \/ Finish
  \/ \E s \in Sides : ExecChild(s) \/ Lock(s) \/ AppendErr(s) \/ Done(s)
  \/ Terminated

(* Go runs every runnable goroutine eventually. *)
Fairness ==
  /\ WF_vars(Add("addL", "goL")) /\ WF_vars(Spawn("left", "goL", "addR"))
  /\ WF_vars(Add("addR", "goR")) /\ WF_vars(Spawn("right", "goR", "wait"))
  /\ WF_vars(Wait) /\ WF_vars(Finish)
  /\ \A s \in Sides : WF_vars(ExecChild(s)) /\ WF_vars(Lock(s))
                      /\ WF_vars(AppendErr(s)) /\ WF_vars(Done(s))

Spec == Init /\ [][Next]_vars /\ Fairness

-----------------------------------------------------------------------------
(* The children whose execute returned an error. *)
Failed == {s \in Sides : err[s] # NoErr}

TypeOK ==
  /\ pc \in [Procs -> {"addL", "goL", "addR", "goR", "wait", "join", "end",
                        "idle", "exec", "lock", "append", "done", "finished"}]
  /\ wg \in Nat
  /\ mu \in Sides \cup {"none"}
  /\ allErrors \in Seq({Errors[s] : s \in Sides})
  /\ err \in [Sides -> {NoErr} \cup {Errors[s] : s \in Sides}]
  /\ ret \in {NoErr} \cup {Errors[s] : s \in Sides}

(***************************************************************************)
(* Barrier: main gets past wg.Wait() only once both child goroutines have *)
(* run to completion, so lctx/rctx are final when main reads them, even    *)
(* when one side failed early (there is no cancellation of the sibling).  *)
(***************************************************************************)
BarrierSafety ==
  pc["main"] \in {"join", "end"} => \A s \in Sides : pc[s] = "finished"

(***************************************************************************)
(* No error is lost or duplicated: after the barrier allErrors holds       *)
(* exactly one entry for each child whose execute failed, whatever the     *)
(* order in which the two goroutines took the mutex.                       *)
(***************************************************************************)
ErrorsCollected ==
  pc["main"] \in {"join", "end"} =>
    /\ Len(allErrors) = Cardinality(Failed)
    /\ {allErrors[i] : i \in 1..Len(allErrors)} = {Errors[s] : s \in Failed}

(* The reference join: the rows a JOIN of lrows and rrows must produce. *)
CorrectJoin(rows, lrows, rrows) ==
  IF lrows = <<>> THEN rows = <<>>
  ELSE IF rrows = <<>> THEN
         /\ Len(rows) = Len(lrows)
         /\ \A i \in 1..Len(lrows), k \in 1..Len(Cols) :
              rows[i][k] = IF Cols[k] < 0 THEN <<lrows[i], -Cols[k]>> ELSE Null
  ELSE IF Strategy = "Cartesian" THEN
         /\ Len(rows) = Len(lrows) * Len(rrows)
         /\ \A i \in 1..Len(lrows), j \in 1..Len(rrows), k \in 1..Len(Cols) :
              rows[(i - 1) * Len(rrows) + j][k] =
                IF Cols[k] < 0 THEN <<lrows[i], -Cols[k]>>
                               ELSE <<rrows[j], Cols[k]>>
  ELSE TRUE

(***************************************************************************)
(* What execute returns: an error iff a child failed, and then the error   *)
(* of one of the failed children; otherwise no error and the join of the  *)
(* two children's complete results (the empty-left short circuit, the     *)
(* NULL-padded empty right side, m x n rows for a Cartesian product).     *)
(***************************************************************************)
ReturnCorrect ==
  pc["main"] = "end" =>
    \/ Failed # {} /\ ret \in {Errors[s] : s \in Failed}
    \/ /\ Failed = {} /\ ret = NoErr
       /\ CorrectJoin(res.rows, results["left"], results["right"])

(* execute always returns: the barrier is always eventually released. *)
Termination == <>(pc["main"] = "end")

-----------------------------------------------------------------------------
(***************************************************************************)
(* The refinement mapping to JoinSpec: a child has completed once its     *)
(* exec.execute returned (it left "idle" and "exec"), and the node has    *)
(* returned once main is at "end"; err, results, ret and res are mapped   *)
(* to the variables of the same names.                                    *)
(***************************************************************************)
Abstract == INSTANCE JoinSpec WITH
  complete <- [s \in Sides |-> pc[s] \notin {"idle", "exec"}],
  returned <- pc["main"] = "end",
  Results  <- LAMBDA s : RowSeqs(IF s = "left" THEN LeftRows ELSE RightRows),
  Join     <- LAMBDA l, r : [fields |-> joinFields, rows |-> JoinedRows(l, r)]

(***************************************************************************)
(* execute implements JoinSpec: the goroutines, the WaitGroup and the     *)
(* mutex add nothing a caller can see beyond "each child completes once,  *)
(* then the node returns the error of a failed child or the join".       *)
(***************************************************************************)
ImplementsJoinSpec == Abstract!Spec
=============================================================================
