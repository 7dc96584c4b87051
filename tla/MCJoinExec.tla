----------------------------- MODULE MCJoinExec -----------------------------
EXTENDS JoinExec

CONSTANTS l1, l2, r1, r2, eL, eR

MCLeftRows == {l1, l2}
MCRightRows == {r1, r2}
MCErrors == [s \in Sides |-> IF s = "left" THEN eL ELSE eR]
(* One column of each side, the left one twice: exercises both signs. *)
MCCols == <<-1, 1, -2>>
=============================================================================
