------------------------------ MODULE MCPlanner ------------------------------
(***************************************************************************)
(* Small instances of PlannerLoop.                                         *)
(***************************************************************************)
EXTENDS PlannerLoop

MkPolicy(target, headroom, level, min, max, up, down, window, mode) ==
  [TargetPerPod |-> target, Headroom |-> headroom, QuantileLevel |-> level,
   MinReplicas |-> min, MaxReplicas |-> max, UpMaxFactorPerStep |-> up,
   DownMaxPercentPerStep |-> down, PrewarmWindowSteps |-> window,
   RoundingMode |-> mode]

NoQuantiles == [level \in {} |-> << >>]

(* Bounds that cross (3, 2), are open (0) and ordinary; factors at, above  *)
(* and (as 0) defaulted to 200; no, partial and out-of-range down limits.  *)
MCPolicies ==
  {MkPolicy(2, headroom, level, b[1], b[2], up, down, window, mode) :
     headroom \in {0, 150}, level \in {0, 90},
     b \in {<<0, 0>>, <<1, 4>>, <<3, 2>>}, up \in {0, 100, 150},
     down \in {0, 25, 120}, window \in {-1, 1}, mode \in {"ceil", "round", "floor"}}

MCDemands == {<< >>} \cup [1..2 -> {-1, 3, 12}]

MCQuantileMaps ==
  {NoQuantiles, [level \in {90} |-> <<9, 1>>], [level \in {50, 90} |-> <<5>>]}

MCPrevs == {-1, 0, 5}
==============================================================================
