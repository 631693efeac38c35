----------------------------- MODULE PlannerLoop -----------------------------
(***************************************************************************)
(* The loop of capacity.ToReplicas (planner.go:107-133), one iteration per *)
(* step, for two calls that share a policy: one for a lower demand and one *)
(* for a higher demand.  Each of the two is a complete call on its own;    *)
(* side by side they let an invariant compare the plans of two forecasts.  *)
(***************************************************************************)
EXTENDS Planner

CONSTANTS
  Policies,      \* the policies ToReplicas is called with, not normalised
  Demands,       \* the forecasts: sequences of loads
  QuantileMaps,  \* the quantile maps a model may return with a forecast
  Prevs          \* the values of the argument prev

ASSUME PoliciesAssumption == Policies \subseteq Policy
ASSUME DemandsAssumption == Demands \subseteq Seq(Int)
ASSUME PrevsAssumption == Prevs \subseteq Int
ASSUME QuantilesAssumption == \A q \in QuantileMaps : SeriesOf(q)

VARIABLES
  p,                \* the normalised policy
  n,                \* the number of forecast steps
  loAdj, hiAdj,     \* adj of the lower and of the higher call
  i,                \* iterations completed
  loOut, hiOut      \* prevOut of the lower and of the higher call

vars == <<p, n, loAdj, hiAdj, i, loOut, hiOut>>

(* Lines 54-108, everything before the loop, for two calls whose           *)
(* arguments are ordered: no load and no previous count of the lower call  *)
(* exceeds the one of the higher call.                                     *)
Init ==
  /\ i = 0
  /\ \E policy \in Policies, lo, hi \in Demands, q \in QuantileMaps,
        loPrev, hiPrev \in Prevs :
       /\ Len(lo) = Len(hi)
       /\ \A j \in 1..Len(lo) : lo[j] <= hi[j]
       /\ loPrev <= hiPrev
       /\ p = Normalise(policy)
       /\ n = Len(lo)
       /\ loAdj = Adj(p, lo, q)
       /\ hiAdj = Adj(p, hi, q)
       /\ loOut = clampBounds(loPrev, p.MinReplicas, p.MaxReplicas)
       /\ hiOut = clampBounds(hiPrev, p.MinReplicas, p.MaxReplicas)

(* Lines 110-132: res[i] and the next prevOut are the same value.          *)
Iterate ==
  /\ i < n
  /\ \E loNeed \in {loAdj[j] : j \in 1..n}, hiNeed \in {hiAdj[j] : j \in 1..n} :
       /\ IsNeed(loNeed, loAdj, p, n, i + 1)
       /\ IsNeed(hiNeed, hiAdj, p, n, i + 1)
       /\ loOut' = NextOut(loOut, loNeed, p)
       /\ hiOut' = NextOut(hiOut, hiNeed, p)
  /\ i' = i + 1
  /\ UNCHANGED <<p, n, loAdj, hiAdj>>

Next == Iterate

Spec == Init /\ [][Next]_vars

------------------------------------------------------------------------------

(* The normalised policy, the demands and the outputs are of the kinds     *)
(* planner.go relies on after line 83: a positive pod capacity, demands    *)
(* that are not negative, and outputs that are replica counts.             *)
TypeOK ==
  /\ p \in Policy
  /\ p.TargetPerPod >= 1 /\ p.Headroom >= 100 /\ p.MinReplicas >= 0
  /\ p.UpMaxFactorPerStep > 0
  /\ p.DownMaxPercentPerStep \in 0..100
  /\ n \in Nat /\ i \in 0..n
  /\ loAdj \in [1..n -> Nat] /\ hiAdj \in [1..n -> Nat]
  /\ loOut \in Nat /\ hiOut \in Nat

(* Bounds: every count ToReplicas emits lies between MinReplicas and       *)
(* MaxReplicas, whatever the forecast, prev and the other policy fields    *)
(* are, and MaxReplicas = 0 only lifts the upper bound (planner.go:26).    *)
Bounded ==
  \A out \in {loOut, hiOut} :
    /\ p.MinReplicas <= out
    /\ p.MaxReplicas > 0 => out <= p.MaxReplicas

(* Rate limit: with a factor of at least 1 no output exceeds the ceiling   *)
(* of UpMaxFactorPerStep times the one before it (times 1 when that was    *)
(* 0), and none drops more than DownMaxPercentPerStep below it, although   *)
(* the bounds are applied again after the change clamps (planner.go:128).  *)
RateLimited ==
  [][p.UpMaxFactorPerStep >= 100 =>
       WithinStep(p, loOut, loOut') /\ WithinStep(p, hiOut, hiOut')]_vars

(* Monotone: with a factor of at least 1, a forecast that is nowhere lower *)
(* and a previous count that is not lower never give a lower plan at any   *)
(* step of ToReplicas.                                                     *)
Monotone == p.UpMaxFactorPerStep >= 100 => loOut <= hiOut
==============================================================================
