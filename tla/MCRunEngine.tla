---------------------------- MODULE MCRunEngine ----------------------------
(***************************************************************************)
(* Three steps in two stages: `a` and `b` beside each other, `c` after     *)
(* both.  `a` may fail without ending the run; `b` is critical, and an     *)
(* extract step with a fallback for some errors; `c` is critical.          *)
(***************************************************************************)
EXTENDS RunEngine

PlanSteps == {"a", "b", "c"}
TwoStages == [s \in PlanSteps |-> IF s = "c" THEN 2 ELSE 1]
InOrder == [s \in PlanSteps |-> CASE s = "a" -> 0 [] s = "b" -> 1 [] s = "c" -> 2]

(* A local provider, or `concurrency: 1`: one step at a time. *)
OneAtATime == <<1, 1>>

(* A hosted provider: the whole stage at once. *)
WholeStage == <<2, 2>>

BAndC == {"b", "c"}
OnlyA == {"a"}
OnlyB == {"b"}
Nothing == {}
=============================================================================
