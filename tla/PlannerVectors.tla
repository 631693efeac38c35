---------------------------- MODULE PlannerVectors ----------------------------
(***************************************************************************)
(* The vectors of pkg/capacity/planner_test.go as assumptions about        *)
(* ToReplicas: TLC evaluates them whenever it runs MCMultiForecaster.      *)
(***************************************************************************)
EXTENDS Planner

VectorPolicy(target, headroom, level, min, max, up, down, window, mode) ==
  [TargetPerPod |-> target, Headroom |-> headroom, QuantileLevel |-> level,
   MinReplicas |-> min, MaxReplicas |-> max, UpMaxFactorPerStep |-> up,
   DownMaxPercentPerStep |-> down, PrewarmWindowSteps |-> window,
   RoundingMode |-> mode]

WithoutQuantiles == [level \in {} |-> << >>]

ASSUME TestBasic ==
  ToReplicas(2, <<120, 130, 125, 140, 100>>,
             VectorPolicy(50, 120, 0, 1, 100, 200, 50, 0, "ceil"), WithoutQuantiles)
    = <<3, 4, 3, 4, 3>>
ASSUME TestClampsUpDown ==
  ToReplicas(2, <<0, 50, 500, 200, 50>>,
             VectorPolicy(100, 120, 0, 1, 100, 150, 25, 0, "ceil"), WithoutQuantiles)
    = <<1, 1, 2, 3, 2>>
ASSUME TestBounds ==
  ToReplicas(0, <<0, 1, 10, 1000>>,
             VectorPolicy(10, 100, 0, 2, 5, 1000, 100, 0, "ceil"), WithoutQuantiles)
    = <<2, 2, 2, 5>>
ASSUME TestPrewarmSinglePoint ==
  ToReplicas(0, <<1, 1, 1, 900, 1, 1>>,
             VectorPolicy(100, 100, 0, 0, 0, 1000, 100, 0, "ceil"), WithoutQuantiles)
    = <<1, 1, 1, 9, 1, 1>>
ASSUME TestQuantiles ==
  ToReplicas(2, <<100, 110, 105, 115, 95>>,
             VectorPolicy(50, 120, 90, 1, 100, 200, 50, 0, "ceil"),
             [level \in {50, 90} |->
                IF level = 50 THEN <<100, 110, 105, 115, 95>>
                ELSE <<130, 143, 136, 150, 124>>])
    = <<3, 3, 3, 3, 3>>
==============================================================================
