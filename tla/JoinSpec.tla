------------------------------ MODULE JoinSpec ------------------------------
(***************************************************************************)
(* What a JOIN node's execution promises (spec 4.4 and 5), without the    *)
(* goroutines, the WaitGroup and the mutex: each child completes once,    *)
(* failing with its error or producing its rows, in either order; the     *)
(* node returns once, after both children completed, with the error of a  *)
(* failed child if there is one (no side preferred), and otherwise with   *)
(* the join of the two children's complete results.                       *)
(***************************************************************************)
CONSTANTS
  Sides,       \* the two children
  Errors,      \* Errors[s]: the error child s fails with
  NoErr,       \* no error
  Results(_),  \* Results(s): the results child s may produce
  NoResult,    \* no result yet
  Join(_, _)   \* the result built from the left and the right results

VARIABLES
  complete,    \* complete[s]: child s has completed
  err,         \* err[s]: the error child s completed with, or NoErr
  results,     \* results[s]: the result child s produced
  returned,    \* the node has returned
  ret,         \* the error it returned
  res          \* the result it returned

avars == <<complete, err, results, returned, ret, res>>

Init ==
  /\ complete = [s \in Sides |-> FALSE]
  /\ err = [s \in Sides |-> NoErr]
  /\ results = [s \in Sides |-> NoResult]
  /\ returned = FALSE
  /\ ret = NoErr
  /\ res = NoResult

(* Child s completes with its error. *)
Fail(s) ==
  /\ ~returned /\ ~complete[s]
  /\ complete' = [complete EXCEPT ![s] = TRUE]
  /\ err' = [err EXCEPT ![s] = Errors[s]]
  /\ UNCHANGED <<results, returned, ret, res>>

(* Child s completes with a result. *)
Succeed(s) ==
  /\ ~returned /\ ~complete[s]
  /\ complete' = [complete EXCEPT ![s] = TRUE]
  /\ \E r \in Results(s) : results' = [results EXCEPT ![s] = r]
  /\ UNCHANGED <<err, returned, ret, res>>

FailedSides == {s \in Sides : err[s] # NoErr}

(* The node returns, once both children completed. *)
Return ==
  /\ ~returned /\ \A s \in Sides : complete[s]
  /\ returned' = TRUE
  /\ IF FailedSides # {}
       THEN ret' \in {Errors[s] : s \in FailedSides} /\ UNCHANGED res
       ELSE res' = Join(results["left"], results["right"]) /\ UNCHANGED ret
  /\ UNCHANGED <<complete, err, results>>

Next == Return \/ \E s \in Sides : Fail(s) \/ Succeed(s)

SafeSpec == Init /\ [][Next]_avars

(* Every child completes and the node returns. *)
Spec ==
  /\ SafeSpec
  /\ WF_avars(Return)
  /\ \A s \in Sides : WF_avars(Fail(s) \/ Succeed(s))
=============================================================================
