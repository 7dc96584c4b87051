--------------------------- MODULE JoinExecProofs ---------------------------
(***************************************************************************)
(* Proofs about the fork-join of JoinExecutor.execute: the type invariant, *)
(* the barrier, and that no child error is lost or duplicated, for every   *)
(* value of the constants.  The invariants are not inductive on their own:*)
(* IInv relates the WaitGroup counter to the goroutines still to be        *)
(* waited for, the order in which main spawns the children, and the       *)
(* contents of allErrors to the children that already appended.           *)
(***************************************************************************)
EXTENDS JoinExec, FiniteSetTheorems, SequenceTheorems, TLAPS

Ind(b) == IF b THEN 1 ELSE 0

(* A child the WaitGroup counts: added and not yet Done. *)
Counted(s) ==
  \/ pc[s] \in {"exec", "lock", "append", "done"}
  \/ s = "left" /\ pc["main"] = "goL"
  \/ s = "right" /\ pc["main"] = "goR"

(* A child whose error is in allErrors. *)
Appended(s) == err[s] # NoErr /\ pc[s] \in {"done", "finished"}

ErrSet == {allErrors[i] : i \in 1..Len(allErrors)}

(* allErrors holds the errors of the children that appended, in the order *)
(* in which they took the mutex.                                          *)
ErrorsSoFar ==
  LET EL == Errors["left"]
      ER == Errors["right"]
  IN /\ Appended("left") /\ Appended("right") =>
          allErrors \in {<<EL, ER>>, <<ER, EL>>}
     /\ Appended("left") /\ ~Appended("right") => allErrors = <<EL>>
     /\ ~Appended("left") /\ Appended("right") => allErrors = <<ER>>
     /\ ~Appended("left") /\ ~Appended("right") => allErrors = <<>>

(* The WaitGroup counts exactly the children added and not yet Done. *)
WgCount == wg = Ind(Counted("left")) + Ind(Counted("right"))

(* main spawns left before right, and waits only after spawning both. *)
SpawnOrder ==
  /\ pc["main"] \in {"addL", "goL"} => pc["left"] = "idle"
  /\ pc["main"] \in {"addL", "goL", "addR", "goR"} => pc["right"] = "idle"
  /\ pc["main"] \in {"addR", "goR", "wait", "join", "end"} => pc["left"] # "idle"
  /\ pc["main"] \in {"wait", "join", "end"} => pc["right"] # "idle"
  /\ pc["main"] \in {"join", "end"} => \A s \in Sides : pc[s] = "finished"
  /\ \A s \in Sides : pc[s] \in {"idle", "exec", "lock", "append", "done", "finished"}

(* A child's err is its own error, set exactly when it leaves exec failing. *)
ErrState ==
  /\ \A s \in Sides : err[s] \in {NoErr, Errors[s]}
  /\ \A s \in Sides : pc[s] \in {"idle", "exec"} => err[s] = NoErr
  /\ \A s \in Sides : pc[s] \in {"lock", "append"} => err[s] # NoErr

IInv == TypeOK /\ WgCount /\ SpawnOrder /\ ErrState /\ ErrorsSoFar

(* Appending to a one-element sequence. *)
LEMMA AppendSingleton ==
  ASSUME NEW x, NEW y
  PROVE  Append(<<x>>, y) = <<x, y>>
  <1>1. Len(Append(<<x>>, y)) = 2 /\ Append(<<x>>, y)[1] = x /\ Append(<<x>>, y)[2] = y
    OBVIOUS
  <1>2. Append(<<x>>, y) \in Seq({x, y}) /\ <<x, y>> \in Seq({x, y})
    OBVIOUS
  <1>3. Len(<<x, y>>) = 2 /\ \A i \in 1 .. 2 : Append(<<x>>, y)[i] = <<x, y>>[i]
    BY <1>1
  <1>. QED
    BY <1>1, <1>2, <1>3, SeqEqual, Zenon

LEMMA ErrorsDistinctFromNil == \A s \in Sides : Errors[s] # NoErr
  BY ErrorsAssumption

(* The number of failed children, as a sum over the two sides. *)
LEMMA FailedCount ==
  ASSUME NEW S, S \subseteq Sides
  PROVE  Cardinality(S) = Ind("left" \in S) + Ind("right" \in S)
  <1>1. CASE S = {}
    BY <1>1, FS_EmptySet DEF Ind
  <1>2. CASE S = {"left"}
    BY <1>2, FS_Singleton DEF Ind
  <1>3. CASE S = {"right"}
    BY <1>3, FS_Singleton DEF Ind
  <1>4. CASE S = {"left", "right"}
    <2>1. IsFiniteSet({"right"}) /\ Cardinality({"right"}) = 1
      BY FS_Singleton
    <2>2. Cardinality({"right"} \cup {"left"}) = 2
      BY <2>1, FS_AddElement
    <2>3. {"right"} \cup {"left"} = {"left", "right"}
      OBVIOUS
    <2>. QED
      BY <1>4, <2>2, <2>3 DEF Ind
  <1>. QED
    BY <1>1, <1>2, <1>3, <1>4 DEF Sides

LEMMA InitIInv == Init => IInv
  BY ErrorsDistinctFromNil
  DEF Init, IInv, TypeOK, WgCount, SpawnOrder, ErrState, ErrorsSoFar, Procs,
      Sides, Counted, Appended, Ind

LEMMA NextIInv == IInv /\ [Next]_vars => IInv'
  <1> SUFFICES ASSUME IInv, [Next]_vars PROVE IInv'
    OBVIOUS
  <1> USE ErrorsDistinctFromNil DEF IInv, Procs, Sides
  <1>1. CASE Add("addL", "goL")
    <2>1. TypeOK'
      BY <1>1 DEF Add, Goto, TypeOK
    <2>2. WgCount'
      BY <1>1 DEF Add, Goto, WgCount, Counted, Ind, TypeOK, SpawnOrder
    <2>3. SpawnOrder'
      BY <1>1 DEF Add, Goto, SpawnOrder, TypeOK
    <2>4. ErrState'
      BY <1>1 DEF Add, Goto, ErrState, TypeOK
    <2>5. ErrorsSoFar'
      BY <1>1 DEF Add, Goto, ErrorsSoFar, Appended, ErrState, TypeOK
    <2>. QED
      BY <2>1, <2>2, <2>3, <2>4, <2>5
  <1>2. CASE Spawn("left", "goL", "addR")
    <2>1. TypeOK'
      BY <1>2 DEF Spawn, TypeOK
    <2>2. WgCount'
      BY <1>2 DEF Spawn, WgCount, Counted, Ind, TypeOK
    <2>3. SpawnOrder'
      BY <1>2 DEF Spawn, SpawnOrder, TypeOK
    <2>4. ErrState'
      BY <1>2 DEF Spawn, ErrState, TypeOK
    <2>5. ErrorsSoFar'
      BY <1>2 DEF Spawn, ErrorsSoFar, Appended, ErrState, TypeOK
    <2>. QED
      BY <2>1, <2>2, <2>3, <2>4, <2>5
  <1>3. CASE Add("addR", "goR")
    <2>1. TypeOK'
      BY <1>3 DEF Add, Goto, TypeOK
    <2>2. WgCount'
      BY <1>3 DEF Add, Goto, WgCount, Counted, Ind, TypeOK, SpawnOrder
    <2>3. SpawnOrder'
      BY <1>3 DEF Add, Goto, SpawnOrder, TypeOK
    <2>4. ErrState'
      BY <1>3 DEF Add, Goto, ErrState, TypeOK
    <2>5. ErrorsSoFar'
      BY <1>3 DEF Add, Goto, ErrorsSoFar, Appended, ErrState, TypeOK
    <2>. QED
      BY <2>1, <2>2, <2>3, <2>4, <2>5
  <1>4. CASE Spawn("right", "goR", "wait")
    <2>1. TypeOK'
      BY <1>4 DEF Spawn, TypeOK
    <2>2. WgCount'
      BY <1>4 DEF Spawn, WgCount, Counted, Ind, TypeOK
    <2>3. SpawnOrder'
      BY <1>4 DEF Spawn, SpawnOrder, TypeOK
    <2>4. ErrState'
      BY <1>4 DEF Spawn, ErrState, TypeOK
    <2>5. ErrorsSoFar'
      BY <1>4 DEF Spawn, ErrorsSoFar, Appended, ErrState, TypeOK
    <2>. QED
      BY <2>1, <2>2, <2>3, <2>4, <2>5
  <1>5. CASE Wait
    <2>1. TypeOK'
      BY <1>5 DEF Wait, TypeOK
    <2>2. WgCount'
      BY <1>5 DEF Wait, WgCount, Counted, Ind, TypeOK
    <2>3. SpawnOrder'
      BY <1>5 DEF Wait, SpawnOrder, TypeOK, WgCount, Counted, Ind
    <2>4. ErrState'
      BY <1>5 DEF Wait, ErrState, TypeOK
    <2>5. ErrorsSoFar'
      BY <1>5 DEF Wait, ErrorsSoFar, Appended, ErrState, TypeOK
    <2>. QED
      BY <2>1, <2>2, <2>3, <2>4, <2>5
  <1>6. CASE Finish
    <2>1. TypeOK'
      BY <1>6 DEF Finish, TypeOK
    <2>2. WgCount'
      BY <1>6 DEF Finish, WgCount, Counted, Ind, TypeOK
    <2>3. SpawnOrder'
      BY <1>6 DEF Finish, SpawnOrder, TypeOK
    <2>4. ErrState'
      BY <1>6 DEF Finish, ErrState, TypeOK
    <2>5. ErrorsSoFar'
      BY <1>6 DEF Finish, ErrorsSoFar, Appended, ErrState, TypeOK
    <2>. QED
      BY <2>1, <2>2, <2>3, <2>4, <2>5
  <1>7. ASSUME NEW s \in Sides, ExecChild(s) PROVE IInv'
    <2>1. TypeOK'
      BY <1>7 DEF ExecChild, TypeOK
    <2>2. WgCount'
      BY <1>7 DEF ExecChild, WgCount, Counted, Ind, TypeOK
    <2>3. SpawnOrder'
      BY <1>7 DEF ExecChild, SpawnOrder, TypeOK
    <2>4. ErrState'
      BY <1>7 DEF ExecChild, ErrState, TypeOK
    <2>5. ErrorsSoFar'
      BY <1>7 DEF ExecChild, ErrorsSoFar, Appended, ErrState, TypeOK
    <2>. QED
      BY <2>1, <2>2, <2>3, <2>4, <2>5
  <1>8. ASSUME NEW s \in Sides, Lock(s) PROVE IInv'
    <2>1. TypeOK'
      BY <1>8 DEF Lock, TypeOK
    <2>2. WgCount'
      BY <1>8 DEF Lock, WgCount, Counted, Ind, TypeOK
    <2>3. SpawnOrder'
      BY <1>8 DEF Lock, SpawnOrder, TypeOK
    <2>4. ErrState'
      BY <1>8 DEF Lock, ErrState, TypeOK
    <2>5. ErrorsSoFar'
      BY <1>8 DEF Lock, ErrorsSoFar, Appended, ErrState, TypeOK
    <2>. QED
      BY <2>1, <2>2, <2>3, <2>4, <2>5
  <1>9. ASSUME NEW s \in Sides, AppendErr(s) PROVE IInv'
    <2>1. TypeOK'
      BY <1>9 DEF AppendErr, TypeOK, ErrState
    <2>2. WgCount'
      BY <1>9 DEF AppendErr, WgCount, Counted, Ind, TypeOK
    <2>3. SpawnOrder'
      BY <1>9 DEF AppendErr, SpawnOrder, TypeOK
    <2>4. ErrState'
      BY <1>9 DEF AppendErr, ErrState, TypeOK
    <2>5. ErrorsSoFar'
      <3>1. ~Appended(s) /\ Appended(s)' /\ err[s] = Errors[s]
        BY <1>9 DEF AppendErr, Appended, ErrState, TypeOK
      <3>2. \A t \in Sides \ {s} : Appended(t)' = Appended(t)
        BY <1>9 DEF AppendErr, Appended, TypeOK
      <3>3. allErrors' = Append(allErrors, Errors[s])
        BY <1>9, <3>1 DEF AppendErr
      <3>4. CASE s = "left"
        <4>1. Appended("right")' = Appended("right")
          BY <3>2, <3>4
        <4>2. CASE Appended("right")
          <5>1. allErrors = <<Errors["right"]>>
            BY <3>1, <3>4, <4>2 DEF ErrorsSoFar
          <5>2. allErrors' = <<Errors["right"], Errors["left"]>>
            BY <3>3, <3>4, <5>1, AppendSingleton
          <5>. QED
            BY <3>1, <3>4, <4>1, <4>2, <5>2 DEF ErrorsSoFar
        <4>3. CASE ~Appended("right")
          <5>1. allErrors = <<>>
            BY <3>1, <3>4, <4>3 DEF ErrorsSoFar
          <5>2. allErrors' = <<Errors["left"]>>
            BY <3>3, <3>4, <5>1
          <5>. QED
            BY <3>1, <3>4, <4>1, <4>3, <5>2 DEF ErrorsSoFar
        <4>. QED
          BY <4>2, <4>3
      <3>5. CASE s = "right"
        <4>1. Appended("left")' = Appended("left")
          BY <3>2, <3>5
        <4>2. CASE Appended("left")
          <5>1. allErrors = <<Errors["left"]>>
            BY <3>1, <3>5, <4>2 DEF ErrorsSoFar
          <5>2. allErrors' = <<Errors["left"], Errors["right"]>>
            BY <3>3, <3>5, <5>1, AppendSingleton
          <5>. QED
            BY <3>1, <3>5, <4>1, <4>2, <5>2 DEF ErrorsSoFar
        <4>3. CASE ~Appended("left")
          <5>1. allErrors = <<>>
            BY <3>1, <3>5, <4>3 DEF ErrorsSoFar
          <5>2. allErrors' = <<Errors["right"]>>
            BY <3>3, <3>5, <5>1
          <5>. QED
            BY <3>1, <3>5, <4>1, <4>3, <5>2 DEF ErrorsSoFar
        <4>. QED
          BY <4>2, <4>3
      <3>. QED
        BY <3>4, <3>5
    <2>. QED
      BY <2>1, <2>2, <2>3, <2>4, <2>5
  <1>10. ASSUME NEW s \in Sides, Done(s) PROVE IInv'
    <2>1. TypeOK'
      BY <1>10 DEF Done, Goto, TypeOK, WgCount, Counted, Ind
    <2>2. WgCount'
      BY <1>10 DEF Done, Goto, WgCount, Counted, Ind, TypeOK, SpawnOrder
    <2>3. SpawnOrder'
      BY <1>10 DEF Done, Goto, SpawnOrder, TypeOK
    <2>4. ErrState'
      BY <1>10 DEF Done, Goto, ErrState, TypeOK
    <2>5. ErrorsSoFar'
      BY <1>10 DEF Done, Goto, ErrorsSoFar, Appended, ErrState, TypeOK
    <2>. QED
      BY <2>1, <2>2, <2>3, <2>4, <2>5
  <1>11. CASE Terminated
    <2>1. TypeOK'
      BY <1>11 DEF Terminated, vars, TypeOK
    <2>2. WgCount'
      BY <1>11 DEF Terminated, vars, WgCount, Counted, Ind, TypeOK
    <2>3. SpawnOrder'
      BY <1>11 DEF Terminated, vars, SpawnOrder, TypeOK
    <2>4. ErrState'
      BY <1>11 DEF Terminated, vars, ErrState, TypeOK
    <2>5. ErrorsSoFar'
      BY <1>11 DEF Terminated, vars, ErrorsSoFar, Appended, ErrState, TypeOK
    <2>. QED
      BY <2>1, <2>2, <2>3, <2>4, <2>5
  <1>12. CASE UNCHANGED vars
    <2>1. TypeOK'
      BY <1>12 DEF vars, TypeOK
    <2>2. WgCount'
      BY <1>12 DEF vars, WgCount, Counted, Ind, TypeOK
    <2>3. SpawnOrder'
      BY <1>12 DEF vars, SpawnOrder, TypeOK
    <2>4. ErrState'
      BY <1>12 DEF vars, ErrState, TypeOK
    <2>5. ErrorsSoFar'
      BY <1>12 DEF vars, ErrorsSoFar, Appended, ErrState, TypeOK
    <2>. QED
      BY <2>1, <2>2, <2>3, <2>4, <2>5
  <1>. QED
    BY <1>1, <1>2, <1>3, <1>4, <1>5, <1>6, <1>7, <1>8, <1>9, <1>10, <1>11, <1>12
    DEF Next

(* JoinExecutor.execute keeps every variable within its type. *)
THEOREM TypeCorrect == Spec => []TypeOK
  <1>1. IInv => TypeOK
    BY DEF IInv
  <1>. QED
    BY <1>1, InitIInv, NextIInv, PTL DEF Spec

(* wg.Wait() releases main only after both child goroutines finished. *)
THEOREM Barrier == Spec => []BarrierSafety
  <1>1. IInv => BarrierSafety
    BY DEF IInv, SpawnOrder, BarrierSafety
  <1>. QED
    BY <1>1, InitIInv, NextIInv, PTL DEF Spec

(* After the barrier allErrors holds one entry per failed child. *)
THEOREM NoErrorLost == Spec => []ErrorsCollected
  <1>1. IInv => ErrorsCollected
    <2> SUFFICES ASSUME IInv, pc["main"] \in {"join", "end"}
                 PROVE  /\ Len(allErrors) = Cardinality(Failed)
                        /\ ErrSet = {Errors[s] : s \in Failed}
      BY DEF ErrorsCollected, ErrSet
    <2>1. \A s \in Sides : Appended(s) <=> s \in Failed
      BY DEF IInv, SpawnOrder, Appended, Failed
    <2>2. Failed \subseteq Sides
      BY DEF Failed
    <2>3. Cardinality(Failed) = Ind("left" \in Failed) + Ind("right" \in Failed)
      BY <2>2, FailedCount
    <2>4. ErrorsSoFar
      BY DEF IInv
    <2>5. CASE "left" \in Failed /\ "right" \in Failed
      <3>1. Failed = {"left", "right"}
        BY <2>2, <2>5 DEF Sides
      <3>2. {Errors[s] : s \in Failed} = {Errors["left"], Errors["right"]}
        BY <3>1
      <3>3. allErrors \in {<<Errors["left"], Errors["right"]>>,
                           <<Errors["right"], Errors["left"]>>}
        BY <2>1, <2>4, <2>5 DEF ErrorsSoFar, Sides
      <3>4. Len(allErrors) = 2
        BY <3>3
      <3>5. Cardinality(Failed) = 2
        BY <2>3, <2>5 DEF Ind
      <3>6. ErrSet = {Errors["left"], Errors["right"]}
        BY <3>3 DEF ErrSet
      <3>. QED
        BY <3>2, <3>4, <3>5, <3>6
    <2>6. CASE "left" \in Failed /\ "right" \notin Failed
      BY <2>1, <2>2, <2>3, <2>4, <2>6 DEF ErrorsSoFar, ErrSet, Ind, Sides
    <2>7. CASE "left" \notin Failed /\ "right" \in Failed
      BY <2>1, <2>2, <2>3, <2>4, <2>7 DEF ErrorsSoFar, ErrSet, Ind, Sides
    <2>8. CASE "left" \notin Failed /\ "right" \notin Failed
      BY <2>1, <2>2, <2>3, <2>4, <2>8 DEF ErrorsSoFar, ErrSet, Ind, Sides
    <2>. QED
      BY <2>5, <2>6, <2>7, <2>8
  <1>. QED
    BY <1>1, InitIInv, NextIInv, PTL DEF Spec
-----------------------------------------------------------------------------
(***************************************************************************)
(* Refinement.  After the barrier, allErrors is non-empty exactly when a  *)
(* child failed, and its first entry is the error of a failed child: the *)
(* error main returns is one JoinSpec allows.                            *)
(***************************************************************************)
LEMMA FirstError ==
  ASSUME IInv, pc["main"] = "join"
  PROVE  /\ Len(allErrors) > 0 <=> Failed # {}
         /\ Len(allErrors) > 0 => allErrors[1] \in {Errors[s] : s \in Failed}
  <1>1. \A s \in Sides : Appended(s) <=> s \in Failed
    BY DEF IInv, SpawnOrder, Appended, Failed
  <1>2. ErrorsSoFar
    BY DEF IInv
  <1>3. CASE Appended("left") /\ Appended("right")
    <2>1. Failed = {"left", "right"}
      BY <1>1, <1>3 DEF Failed, Sides
    <2>2. allErrors \in {<<Errors["left"], Errors["right"]>>, <<Errors["right"], Errors["left"]>>}
      BY <1>2, <1>3 DEF ErrorsSoFar
    <2>. QED
      BY <2>1, <2>2
  <1>4. CASE Appended("left") /\ ~Appended("right")
    <2>1. Failed = {"left"}
      BY <1>1, <1>4 DEF Failed, Sides
    <2>2. allErrors = <<Errors["left"]>>
      BY <1>2, <1>4 DEF ErrorsSoFar
    <2>. QED
      BY <2>1, <2>2
  <1>5. CASE ~Appended("left") /\ Appended("right")
    <2>1. Failed = {"right"}
      BY <1>1, <1>5 DEF Failed, Sides
    <2>2. allErrors = <<Errors["right"]>>
      BY <1>2, <1>5 DEF ErrorsSoFar
    <2>. QED
      BY <2>1, <2>2
  <1>6. CASE ~Appended("left") /\ ~Appended("right")
    <2>1. Failed = {}
      BY <1>1, <1>6 DEF Failed, Sides
    <2>2. allErrors = <<>>
      BY <1>2, <1>6 DEF ErrorsSoFar
    <2>. QED
      BY <2>1, <2>2
  <1>. QED
    BY <1>3, <1>4, <1>5, <1>6

(* The mapped state of JoinSpec. *)
CompleteBar == [s \in Sides |-> pc[s] \notin {"idle", "exec"}]

(* A step that changes none of the mapped variables is a JoinSpec stutter. *)
LEMMA MappedStutter ==
  ASSUME \A s \in Sides : (pc[s] \in {"idle", "exec"}) <=> (pc'[s] \in {"idle", "exec"}),
         (pc["main"] = "end") <=> (pc'["main"] = "end"),
         UNCHANGED <<err, results, ret, res>>
  PROVE  UNCHANGED Abstract!avars
  <1>1. CompleteBar' = CompleteBar
    BY DEF CompleteBar
  <1>. QED
    BY <1>1 DEF Abstract!avars, CompleteBar

(***************************************************************************)
(* JoinExecutor.execute implements the safety part of JoinSpec: every     *)
(* step of main or of a child goroutine is a step of JoinSpec or leaves   *)
(* what JoinSpec sees unchanged.                                          *)
(***************************************************************************)
THEOREM Refinement == Spec => Abstract!SafeSpec
  <1>1. Init => Abstract!Init
    BY DEF Init, Abstract!Init, Procs, Sides
  <1>2. IInv /\ [Next]_vars => [Abstract!Next]_Abstract!avars
    <2> SUFFICES ASSUME IInv, [Next]_vars PROVE [Abstract!Next]_Abstract!avars
      OBVIOUS
    <2>1. TypeOK /\ SpawnOrder
      BY DEF IInv
    <2>3. CASE Add("addL", "goL") \/ Add("addR", "goR") \/ Wait
      <3>1. \A s \in Sides : pc'[s] = pc[s]
        BY <2>1, <2>3 DEF Add, Goto, Wait, TypeOK, Procs, Sides
      <3>2. pc["main"] # "end" /\ pc'["main"] # "end"
        BY <2>1, <2>3 DEF Add, Goto, Wait, TypeOK, Procs
      <3>3. UNCHANGED <<err, results, ret, res>>
        BY <2>3 DEF Add, Wait
      <3>. QED
        BY <3>1, <3>2, <3>3, MappedStutter
    <2>5. CASE Spawn("left", "goL", "addR") \/ Spawn("right", "goR", "wait")
      <3>1. \A s \in Sides : (pc[s] \in {"idle", "exec"}) <=> (pc'[s] \in {"idle", "exec"})
        BY <2>1, <2>5 DEF Spawn, TypeOK, Procs, Sides
      <3>2. (pc["main"] = "end") <=> (pc'["main"] = "end")
        BY <2>1, <2>5 DEF Spawn, TypeOK, Procs, Sides
      <3>. QED
        BY <2>5, <3>1, <3>2, MappedStutter DEF Spawn
    <2>6. ASSUME NEW s \in Sides, ExecChild(s)
          PROVE  Abstract!Next
      <3>1. pc["main"] # "end" /\ pc[s] = "exec"
        BY <2>1, <2>6 DEF ExecChild, SpawnOrder
      <3>2. CompleteBar' = [CompleteBar EXCEPT ![s] = TRUE]
        BY <2>1, <2>6 DEF ExecChild, CompleteBar, TypeOK, Procs
      <3>3. pc'["main"] = pc["main"]
        BY <2>1, <2>6 DEF ExecChild, TypeOK, Procs, Sides
      <3>4. Abstract!Fail(s) \/ Abstract!Succeed(s)
        BY <2>6, <3>1, <3>2, <3>3
        DEF ExecChild, Abstract!Fail, Abstract!Succeed, CompleteBar
      <3>. QED
        BY <3>4 DEF Abstract!Next
    <2>7. ASSUME NEW s \in Sides, Lock(s) \/ AppendErr(s) \/ Done(s)
          PROVE  UNCHANGED Abstract!avars
      <3>1. pc[s] \in {"lock", "append", "done"} /\ pc'[s] \in {"append", "done", "finished"}
        BY <2>1, <2>7 DEF Lock, AppendErr, Done, Goto, TypeOK, Procs
      <3>2. \A t \in Procs \ {s} : pc'[t] = pc[t]
        BY <2>1, <2>7 DEF Lock, AppendErr, Done, Goto, TypeOK, Procs
      <3>3. UNCHANGED <<err, results, ret, res>>
        BY <2>7 DEF Lock, AppendErr, Done
      <3>. QED
        BY <3>1, <3>2, <3>3, MappedStutter DEF Procs, Sides
    <2>8. CASE Finish
      <3>1. pc["main"] = "join" /\ \A s \in Sides : pc[s] = "finished"
        BY <2>1, <2>8 DEF Finish, SpawnOrder
      <3>2. /\ Len(allErrors) > 0 <=> Failed # {}
            /\ Len(allErrors) > 0 => allErrors[1] \in {Errors[s] : s \in Failed}
        BY <3>1, FirstError
      <3>3. Abstract!FailedSides = Failed
        BY DEF Abstract!FailedSides, Failed
      <3>4. CompleteBar' = CompleteBar /\ \A s \in Sides : CompleteBar[s]
        BY <2>1, <2>8, <3>1 DEF Finish, CompleteBar, TypeOK, Procs, Sides
      <3>5. pc'["main"] = "end"
        BY <2>1, <2>8 DEF Finish, TypeOK, Procs
      <3>6. Abstract!Return
        BY <2>8, <3>1, <3>2, <3>3, <3>4, <3>5
        DEF Finish, Abstract!Return, CompleteBar
      <3>. QED
        BY <3>6 DEF Abstract!Next
    <2>9. CASE Terminated \/ UNCHANGED vars
      BY <2>9 DEF Terminated, vars, Abstract!avars
    <2>. QED
      BY <2>3, <2>5, <2>6, <2>7, <2>8, <2>9 DEF Next
  <1>. QED
    BY <1>1, <1>2, InitIInv, NextIInv, PTL DEF Spec, Abstract!SafeSpec
-----------------------------------------------------------------------------
(***************************************************************************)
(* What execute returns.  After Finish the error is the head of allErrors *)
(* (FirstError) and the rows are JoinedRows of the children's final       *)
(* results; JoinedCorrect shows JoinedRows builds the reference join.     *)
(***************************************************************************)

(* The q-th block of m rows, entry r: the arithmetic of the nested loops. *)
LEMMA DivModUnique ==
  ASSUME NEW m \in Nat \ {0}, NEW q \in Nat, NEW r \in 0..m - 1
  PROVE  (q * m + r) \div m = q /\ (q * m + r) % m = r
  BY SMT

LEMMA DivModIndex ==
  ASSUME NEW m \in Nat \ {0}, NEW n \in Nat, NEW i \in 1..n, NEW j \in 1..m
  PROVE  /\ (i - 1) * m + j \in 1..n * m
         /\ (((i - 1) * m + j - 1) \div m) + 1 = i
         /\ (((i - 1) * m + j - 1) % m) + 1 = j
  <1>1. (i - 1) * m + j - 1 = (i - 1) * m + (j - 1)
    OBVIOUS
  <1>2. ((i - 1) * m + (j - 1)) \div m = i - 1 /\ ((i - 1) * m + (j - 1)) % m = j - 1
    BY DivModUnique
  <1>3. (i - 1) * m <= (n - 1) * m
    BY SMT
  <1>. QED
    BY <1>1, <1>2, <1>3

(* A result set a child produces is a sequence of its rows. *)
LEMMA RowSeqsAreSeqs ==
  ASSUME NEW R, NEW l \in RowSeqs(R)
  PROVE  l \in Seq(R)
  <1>1. PICK n \in 0..MaxRows : l \in [1..n -> R]
    BY DEF RowSeqs
  <1>. QED
    BY <1>1, MaxRowsAssumption

(***************************************************************************)
(* The rows main assembles are the reference join of the two result sets: *)
(* none for an empty left side, each left row padded with NULLs for an    *)
(* empty right side, and left row i with right row j at (i-1)*n + j of a  *)
(* Cartesian product.                                                     *)
(***************************************************************************)
LEMMA JoinedCorrect ==
  ASSUME NEW l \in Seq(LeftRows), NEW r \in Seq(RightRows)
  PROVE  CorrectJoin(JoinedRows(l, r), l, r)
  <1>1. CASE l = <<>>
    BY <1>1 DEF JoinedRows, CorrectJoin
  <1>2. CASE l # <<>> /\ r = <<>>
    <2>1. JoinedRows(l, r) = concatLeftAndNil(l)
      BY <1>2 DEF JoinedRows
    <2>2. Len(concatLeftAndNil(l)) = Len(l)
      BY DEF concatLeftAndNil
    <2>3. \A i \in 1..Len(l), k \in 1..Len(Cols) :
            concatLeftAndNil(l)[i][k] = IF Cols[k] < 0 THEN <<l[i], -Cols[k]>> ELSE Null
      BY DEF concatLeftAndNil, joinRows
    <2>. QED
      BY <1>2, <2>1, <2>2, <2>3 DEF CorrectJoin
  <1>3. CASE l # <<>> /\ r # <<>> /\ Strategy = "Cartesian"
    <2> DEFINE m == Len(r)  n == Len(l)  P == cartesianProduct(l, r)
    <2>1. JoinedRows(l, r) = P
      BY <1>3 DEF JoinedRows
    <2>2. m \in Nat \ {0} /\ n \in Nat
      BY <1>3
    <2>3. Len(P) = n * m
      BY <2>2 DEF cartesianProduct
    <2>4. ASSUME NEW i \in 1..n, NEW j \in 1..m, NEW k \in 1..Len(Cols)
          PROVE  P[(i - 1) * m + j][k] =
                   IF Cols[k] < 0 THEN <<l[i], -Cols[k]>> ELSE <<r[j], Cols[k]>>
      <3>1. /\ (i - 1) * m + j \in 1..n * m
            /\ (((i - 1) * m + j - 1) \div m) + 1 = i
            /\ (((i - 1) * m + j - 1) % m) + 1 = j
        BY <2>2, DivModIndex, SMTT(60)
      <3>2. P[(i - 1) * m + j] = joinRows(l[i], r[j])
        BY <3>1 DEF cartesianProduct
      <3>3. r[j] # Null
        BY RowsAssumption
      <3>. QED
        BY <3>2, <3>3 DEF joinRows
    <2>. QED
      BY <1>3, <2>1, <2>3, <2>4 DEF CorrectJoin
  <1>4. CASE l # <<>> /\ r # <<>> /\ Strategy # "Cartesian"
    BY <1>4 DEF CorrectJoin
  <1>. QED
    BY <1>1, <1>2, <1>3, <1>4

(* The rows child s may return. *)
SideRows(s) == IF s = "left" THEN LeftRows ELSE RightRows

(***************************************************************************)
(* A child that completed without error holds a result set of its rows;  *)
(* main returns no error before Finish; and after Finish it returned the *)
(* error of a failed child, or no error and the join of the two results. *)
(***************************************************************************)
ChildResults ==
  /\ DOMAIN results = Sides
  /\ \A s \in Sides : pc[s] \in {"done", "finished"} /\ err[s] = NoErr =>
       results[s] \in RowSeqs(SideRows(s))
NoEarlyReturn == pc["main"] # "end" => ret = NoErr
Returned ==
  pc["main"] = "end" =>
    IF Failed # {} THEN ret \in {Errors[s] : s \in Failed}
    ELSE /\ ret = NoErr
         /\ res = [fields |-> joinFields, rows |-> JoinedRows(results["left"], results["right"])]

RInv == IInv /\ ChildResults /\ NoEarlyReturn /\ Returned

LEMMA InitRInv == Init => RInv
  BY InitIInv DEF Init, RInv, ChildResults, NoEarlyReturn, Returned, Procs

LEMMA NextRInv == RInv /\ [Next]_vars => RInv'
  <1> SUFFICES ASSUME IInv, ChildResults, NoEarlyReturn, Returned, [Next]_vars
               PROVE  ChildResults' /\ NoEarlyReturn' /\ Returned'
    BY NextIInv DEF RInv
  <1>1. TypeOK /\ SpawnOrder /\ ErrState
    BY DEF IInv
  <1>2. CASE Add("addL", "goL") \/ Add("addR", "goR") \/ Wait
          \/ Spawn("left", "goL", "addR") \/ Spawn("right", "goR", "wait")
    <2>1. pc["main"] # "end" /\ pc'["main"] # "end"
      BY <1>1, <1>2 DEF Add, Goto, Wait, Spawn, TypeOK, Procs
    <2>2. \A s \in Sides : pc'[s] \in {"done", "finished"} => pc'[s] = pc[s]
      BY <1>1, <1>2 DEF Add, Goto, Wait, Spawn, TypeOK, Procs, Sides
    <2>3. UNCHANGED <<err, results, ret>>
      BY <1>2 DEF Add, Wait, Spawn
    <2>. QED
      BY <2>1, <2>2, <2>3 DEF ChildResults, NoEarlyReturn, Returned
  <1>3. ASSUME NEW s \in Sides, ExecChild(s)
        PROVE  ChildResults' /\ NoEarlyReturn' /\ Returned'
    <2>1. pc[s] = "exec" /\ pc["main"] # "end" /\ pc'["main"] = pc["main"]
      BY <1>1, <1>3 DEF ExecChild, SpawnOrder, TypeOK, Procs, Sides
    <2>2. \A t \in Sides \ {s} : pc'[t] = pc[t] /\ err'[t] = err[t] /\ results'[t] = results[t]
      BY <1>1, <1>3 DEF ExecChild, TypeOK, Procs, ChildResults
    <2>3. pc'[s] = "lock" \/ (pc'[s] = "done" /\ err'[s] = err[s]
                              /\ results'[s] \in RowSeqs(SideRows(s)))
      BY <1>1, <1>3 DEF ExecChild, TypeOK, Procs, SideRows, ChildResults
    <2>4. DOMAIN results' = Sides
      BY <1>3 DEF ExecChild, ChildResults
    <2>5. ChildResults'
      BY <2>2, <2>3, <2>4 DEF ChildResults, ErrState
    <2>6. UNCHANGED ret
      BY <1>3 DEF ExecChild
    <2>. QED
      BY <2>1, <2>5, <2>6 DEF NoEarlyReturn, Returned
  <1>4. ASSUME NEW s \in Sides, Lock(s) \/ AppendErr(s) \/ Done(s)
        PROVE  ChildResults' /\ NoEarlyReturn' /\ Returned'
    <2>1. pc[s] \in {"lock", "append", "done"} /\ pc["main"] # "end" /\ pc'["main"] = pc["main"]
      BY <1>1, <1>4 DEF Lock, AppendErr, Done, Goto, SpawnOrder, TypeOK, Procs, Sides
    <2>2. \A t \in Sides : pc'[t] \in {"done", "finished"} =>
            pc[t] \in {"done", "finished"} \/ (t = s /\ pc[t] = "append")
      BY <1>1, <1>4 DEF Lock, AppendErr, Done, Goto, TypeOK, Procs
    <2>3. pc[s] = "append" => err[s] # NoErr
      BY <1>1 DEF ErrState
    <2>4. UNCHANGED <<err, results, ret>>
      BY <1>4 DEF Lock, AppendErr, Done
    <2>. QED
      BY <2>1, <2>2, <2>3, <2>4 DEF ChildResults, NoEarlyReturn, Returned
  <1>5. CASE Finish
    <2>1. pc["main"] = "join" /\ pc'["main"] = "end"
      BY <1>1, <1>5 DEF Finish, TypeOK, Procs
    <2>2. \A s \in Sides : pc'[s] = pc[s]
      BY <1>1, <1>5 DEF Finish, TypeOK, Procs, Sides
    <2>3. UNCHANGED <<err, results>>
      BY <1>5 DEF Finish
    <2>4. /\ Len(allErrors) > 0 <=> Failed # {}
          /\ Len(allErrors) > 0 => allErrors[1] \in {Errors[s] : s \in Failed}
      BY <2>1, FirstError
    <2>5. Failed' = Failed
      BY <2>3 DEF Failed
    <2>6. ASSUME Failed # {} PROVE Returned'
      <3>1. ret' = allErrors[1]
        BY <1>5, <2>4, <2>6 DEF Finish
      <3>2. ret' \in {Errors[s] : s \in Failed'}
        BY <2>4, <2>5, <2>6, <3>1
      <3>. QED
        BY <2>5, <2>6, <3>2 DEF Returned
    <2>7. ASSUME Failed = {} PROVE Returned'
      <3>1. ret' = ret /\ ret = NoErr
        BY <1>5, <2>1, <2>4, <2>7 DEF Finish, NoEarlyReturn
      <3>2. res' = [fields |-> joinFields, rows |-> JoinedRows(results["left"], results["right"])]
        BY <1>5, <2>4, <2>7 DEF Finish
      <3>3. Failed' = {} /\ ret' = NoErr
        BY <2>5, <2>7, <3>1
      <3>4. res' = [fields |-> joinFields, rows |-> JoinedRows(results'["left"], results'["right"])]
        BY <2>3, <3>2
      <3>. QED
        BY <3>3, <3>4, Zenon DEF Returned
    <2>. QED
      BY <2>1, <2>2, <2>3, <2>6, <2>7 DEF ChildResults, NoEarlyReturn
  <1>6. CASE Terminated \/ UNCHANGED vars
    BY <1>6 DEF Terminated, vars, ChildResults, NoEarlyReturn, Returned, Failed
  <1>. QED
    BY <1>2, <1>3, <1>4, <1>5, <1>6 DEF Next

(***************************************************************************)
(* JoinExecutor.execute returns the error of a failed child when a child  *)
(* failed, and otherwise no error and the reference join of the two       *)
(* children's complete results, for every row sets, column mapping and   *)
(* bound on the rows.                                                    *)
(***************************************************************************)
THEOREM ReturnsJoin == Spec => []ReturnCorrect
  <1>1. RInv => ReturnCorrect
    <2> SUFFICES ASSUME RInv, pc["main"] = "end"
                 PROVE  \/ Failed # {} /\ ret \in {Errors[s] : s \in Failed}
                        \/ /\ Failed = {} /\ ret = NoErr
                           /\ CorrectJoin(res.rows, results["left"], results["right"])
      BY DEF ReturnCorrect
    <2>1. CASE Failed # {}
      BY <2>1 DEF RInv, Returned
    <2>2. CASE Failed = {}
      <3>1. \A s \in Sides : pc[s] = "finished" /\ err[s] = NoErr
        BY <2>2 DEF RInv, IInv, SpawnOrder, Failed
      <3>2. results["left"] \in Seq(LeftRows) /\ results["right"] \in Seq(RightRows)
        BY <3>1, RowSeqsAreSeqs DEF RInv, ChildResults, SideRows, Sides
      <3>3. res.rows = JoinedRows(results["left"], results["right"]) /\ ret = NoErr
        BY <2>2 DEF RInv, Returned
      <3>. QED
        BY <2>2, <3>2, <3>3, JoinedCorrect
    <2>. QED
      BY <2>1, <2>2
  <1>. QED
    BY <1>1, InitRInv, NextRInv, PTL DEF Spec
=============================================================================
