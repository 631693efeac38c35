-------------------------- MODULE MCMultiForecaster --------------------------
(***************************************************************************)
(* Small instances of MultiForecaster, with the capacity planner as plan.  *)
(***************************************************************************)
EXTENDS MultiForecaster, PlannerVectors, TLC

MkPolicy(min, max, up, down) ==
  [TargetPerPod |-> 1, Headroom |-> 100, QuantileLevel |-> 0,
   MinReplicas |-> min, MaxReplicas |-> max, UpMaxFactorPerStep |-> up,
   DownMaxPercentPerStep |-> down, PrewarmWindowSteps |-> 0,
   RoundingMode |-> "ceil"]

MCPlan(prev, f, pol) == ToReplicas(prev, f, pol, [level \in {} |-> << >>])

FixedPolicy == {MkPolicy(1, 1, 200, 25)}
FromZeroPolicy == {MkPolicy(0, 2, 150, 25)}

High == {<<4>>}
EmptyLowHigh == {<< >>, <<0>>, <<4>>}

(* MCPlan of FromZeroPolicy as a table, for the run with fairness, where   *)
(* TLC evaluates the plan in ENABLED over and over again.                  *)
TabledPlan(prev, f, pol) ==
  CASE f = << >> -> << >>
    [] f = <<0>> -> SubSeq(<<0, 0, 1>>, prev + 1, prev + 1)
    [] f = <<4>> -> SubSeq(<<2, 2, 2>>, prev + 1, prev + 1)

ASSUME TabledPlanIsToReplicas ==
  \A prev \in 0..2, f \in EmptyLowHigh, pol \in FromZeroPolicy :
    TabledPlan(prev, f, pol) = MCPlan(prev, f, pol)

LoopSymmetry == Permutations(Loops)
==============================================================================
