------------------------------- MODULE Planner -------------------------------
(***************************************************************************)
(* The capacity planner, pkg/capacity/planner.go: ToReplicas turns a       *)
(* forecast into one desired replica count per forecast step.              *)
(*                                                                         *)
(* Floating point quantities are exact rationals with fixed denominators:  *)
(* Headroom and UpMaxFactorPerStep are percentages (120 stands for 1.2),   *)
(* loads are integers, and the pods a load needs are a numerator over the  *)
(* common denominator PodUnit(p).  The error of one ulp that float64 can   *)
(* add at an exact integer is not modelled.                                *)
(***************************************************************************)
EXTENDS Integers, Sequences

(* The kinds of values callers pass.  Nothing is assumed about their sign  *)
(* or order: Normalise has to cope with every integer.  Unset is a string  *)
(* too; it is named because the provers do not know that of a literal.     *)
Unset == ""

Policy ==
  [TargetPerPod : Int, Headroom : Int, QuantileLevel : Int,
   MinReplicas : Int, MaxReplicas : Int, UpMaxFactorPerStep : Int,
   DownMaxPercentPerStep : Int, PrewarmWindowSteps : Int,
   RoundingMode : STRING \cup {Unset}]

(* A quantile map: one series per level.                                   *)
SeriesOf(m) == \A level \in DOMAIN m : m[level] \in Seq(Int)

CeilDiv(a, b) == (a + b - 1) \div b

(* Mutant of Normalise: a down limit above 100% is let through.            *)
NormaliseKeepsDown(p) ==
  [p EXCEPT
     !.TargetPerPod = IF @ <= 0 THEN 1 ELSE @,
     !.Headroom = IF @ < 100 THEN 100 ELSE @,
     !.MinReplicas = IF @ < 0 THEN 0 ELSE @,
     !.UpMaxFactorPerStep = IF @ <= 0 THEN 200 ELSE @,
     !.PrewarmWindowSteps = IF @ < 0 THEN 0 ELSE @]

(* Lines 57-83: the defaults ToReplicas applies to a copy of the policy.   *)
Normalise(p) ==
  LET min == IF p.MinReplicas < 0 THEN 0 ELSE p.MinReplicas
      down == IF p.DownMaxPercentPerStep < 0 THEN 0 ELSE p.DownMaxPercentPerStep
  IN [TargetPerPod |-> IF p.TargetPerPod <= 0 THEN 1 ELSE p.TargetPerPod,
      Headroom |-> IF p.Headroom < 100 THEN 100 ELSE p.Headroom,
      QuantileLevel |-> p.QuantileLevel,
      MinReplicas |-> min,
      MaxReplicas |-> IF p.MaxReplicas > 0 /\ p.MaxReplicas < min THEN min
                      ELSE p.MaxReplicas,
      UpMaxFactorPerStep |->
        IF p.UpMaxFactorPerStep <= 0 THEN 200 ELSE p.UpMaxFactorPerStep,
      DownMaxPercentPerStep |-> IF down > 100 THEN 100 ELSE down,
      PrewarmWindowSteps |->
        IF p.PrewarmWindowSteps < 0 THEN 0 ELSE p.PrewarmWindowSteps,
      RoundingMode |-> p.RoundingMode]

(* A quantile forecast is used only when the level is set and the model    *)
(* returned a full series for exactly that level.                          *)
UseQuantile(p, forecast, quantiles) ==
  /\ p.QuantileLevel > 0
  /\ p.QuantileLevel \in DOMAIN quantiles
  /\ Len(quantiles[p.QuantileLevel]) = Len(forecast)

NonNegative(v) == IF v < 0 THEN 0 ELSE v

(* Pods needed at step i, as a numerator over PodUnit(p): quantile values  *)
(* are taken as they are, point forecasts are multiplied by the headroom.  *)
PodUnit(p) == 100 * p.TargetPerPod

Adj(p, forecast, quantiles) ==
  [i \in 1..Len(forecast) |->
     IF UseQuantile(p, forecast, quantiles)
     THEN NonNegative(quantiles[p.QuantileLevel][i]) * 100
     ELSE NonNegative(forecast[i]) * p.Headroom]

(* need is the largest demand in the prewarm window that starts at i.      *)
Window(p, n, i) == {j \in i..n : j <= i + p.PrewarmWindowSteps}

IsNeed(need, adj, p, n, i) ==
  /\ \A j \in Window(p, n, i) : adj[j] <= need
  /\ \E j \in Window(p, n, i) : need = adj[j]

roundPods(num, den, mode) ==
  CASE mode = "floor" -> num \div den
    [] mode = "round" -> (2 * num + den) \div (2 * den)
    [] OTHER -> CeilDiv(num, den)

(* Mutant of clampBounds: the lower bound is tested first, and on its own. *)
clampBoundsLowerOnly(x, lo, hi) == IF x < lo THEN lo ELSE x

clampBounds(x, lo, hi) ==
  IF hi > 0 /\ x > hi THEN hi ELSE IF x < lo THEN lo ELSE x

MaxUp(prev, up) == CeilDiv(prev * up, 100)

MinDown(prev, down) == (prev * (100 - down)) \div 100

(* Mutants of clampChange: no limit on the first step up from zero, and no *)
(* limit on the way down.                                                  *)
clampChangeFreeStart(prev, next, up, down) ==
  CASE prev <= 0 -> next
    [] prev > 0 /\ next > MaxUp(prev, up) -> MaxUp(prev, up)
    [] prev > 0 /\ next <= MaxUp(prev, up) ->
         IF next < MinDown(prev, down) THEN MinDown(prev, down) ELSE next

clampChangeUpOnly(prev, next, up, down) ==
  LET max == MaxUp(IF prev <= 0 THEN 1 ELSE prev, up)
  IN IF next > max THEN max ELSE next

clampChange(prev, next, up, down) ==
  LET base == NonNegative(prev)
  IN CASE base = 0 -> IF next > MaxUp(1, up) THEN MaxUp(1, up) ELSE next
       [] base > 0 /\ next > MaxUp(base, up) -> MaxUp(base, up)
       [] base > 0 /\ next <= MaxUp(base, up) ->
            IF next < MinDown(base, down) THEN MinDown(base, down) ELSE next

(* Lines 123-131, one iteration of the loop: round, bound, limit the       *)
(* change against the previous output, bound again.                        *)
NextOut(prevOut, need, p) ==
  LET wanted == clampBounds(roundPods(need, PodUnit(p), p.RoundingMode),
                            p.MinReplicas, p.MaxReplicas)
      limited == clampChange(prevOut, wanted, p.UpMaxFactorPerStep,
                             p.DownMaxPercentPerStep)
  IN clampBounds(limited, p.MinReplicas, p.MaxReplicas)

(* The whole function.  out[0] is the clamped previous count and out[i]    *)
(* the i-th output.  An empty forecast gives an empty (nil) plan.          *)
ToReplicas(prev, forecast, policy, quantiles) ==
  LET p == Normalise(policy)
      n == Len(forecast)
      adj == Adj(p, forecast, quantiles)
      need == [i \in 1..n |->
                 CHOOSE x \in {adj[j] : j \in 1..n} : IsNeed(x, adj, p, n, i)]
      out[i \in 0..n] ==
        IF i = 0 THEN clampBounds(prev, p.MinReplicas, p.MaxReplicas)
        ELSE NextOut(out[i - 1], need[i], p)
  IN [i \in 1..n |-> out[i]]
------------------------------------------------------------------------------

(* What a plan promises to a caller whose policy needs no normalisation:   *)
(* counts within the bounds, and a first count within one step of the rate *)
(* limits from prev when the factor is at least 1.                         *)
WithinBounds(pol, count) == pol.MinReplicas <= count /\ count <= pol.MaxReplicas

WithinStep(pol, before, after) ==
  /\ after <= MaxUp(IF before = 0 THEN 1 ELSE before, pol.UpMaxFactorPerStep)
  /\ after >= MinDown(before, pol.DownMaxPercentPerStep)

KeepsLimits(plan, prev, pol) ==
  /\ plan \in Seq(Nat)
  /\ \A j \in 1..Len(plan) : WithinBounds(pol, plan[j])
  /\ plan # << >> /\ pol.UpMaxFactorPerStep >= 100 => WithinStep(pol, prev, plan[1])

(* The highest and the lowest count that n rate steps can reach from c.    *)
Repeat(step, c, n) ==
  LET reach[k \in 0..n] == IF k = 0 THEN c ELSE step[reach[k - 1]]
  IN reach[n]

Highest(c, up, n) ==
  Repeat([x \in Nat |-> MaxUp(IF x = 0 THEN 1 ELSE x, up)], c, n)

Lowest(c, down, n) == Repeat([x \in Nat |-> MinDown(x, down)], c, n)

(* One rate step from a count that n steps can reach gives one that n + 1  *)
(* steps can reach.                                                        *)
StepsReach(c, up, down, n) ==
  /\ Highest(c, up, 0) = c /\ Lowest(c, down, 0) = c
  /\ \A x, y \in Nat :
       /\ x \in Lowest(c, down, n)..Highest(c, up, n)
       /\ y <= MaxUp(IF x = 0 THEN 1 ELSE x, up)
       /\ y >= MinDown(x, down)
       => y \in Lowest(c, down, n + 1)..Highest(c, up, n + 1)
==============================================================================
