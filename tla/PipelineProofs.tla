--------------------------- MODULE PipelineProofs ---------------------------
(***************************************************************************)
(* The theorems about PlannerLoop, for every policy, forecast, quantile    *)
(* map and previous count: the bounds, the rate limit, and that a higher   *)
(* forecast never gives a lower plan.  Then those about Pipeline, for all  *)
(* configurations, answers and loads, and about Backtest, for all jobs:    *)
(* the lemmas of LoopProofs, with the hypotheses they make discharged from *)
(* OperatorProofs.                                                         *)
(***************************************************************************)
EXTENDS PlannerLoop, OperatorProofs, LoopProofs

------------------------------------------------------------------------------
(* The replica loop of ToReplicas.                                         *)

(* The inductive invariant: a normalised policy, ordered demands, and      *)
(* outputs that are within the bounds and, for factors of at least 1,      *)
(* ordered.                                                                *)
PlanInv ==
  /\ TypeOK
  /\ Normalised(p)
  /\ \A j \in 1..n : loAdj[j] <= hiAdj[j]
  /\ Bounded
  /\ Monotone

(* The initial states of the replica loop satisfy the invariant.           *)
LEMMA InitPlanInv == Init => PlanInv
<1> SUFFICES ASSUME Init PROVE PlanInv
  OBVIOUS
<1>1. PICK policy \in Policies, lo \in Demands, hi \in Demands,
           q \in QuantileMaps, loPrev \in Prevs, hiPrev \in Prevs :
        /\ Len(lo) = Len(hi)
        /\ \A j \in 1..Len(lo) : lo[j] <= hi[j]
        /\ loPrev <= hiPrev
        /\ p = Normalise(policy)
        /\ n = Len(lo)
        /\ loAdj = Adj(p, lo, q)
        /\ hiAdj = Adj(p, hi, q)
        /\ loOut = clampBounds(loPrev, p.MinReplicas, p.MaxReplicas)
        /\ hiOut = clampBounds(hiPrev, p.MinReplicas, p.MaxReplicas)
  BY DEF Init
<1>2. /\ policy \in Policy /\ lo \in Seq(Int) /\ hi \in Seq(Int)
      /\ loPrev \in Int /\ hiPrev \in Int
  BY PoliciesAssumption, DemandsAssumption, PrevsAssumption
<1>3. Normalised(p)
  BY <1>1, <1>2, NormaliseFacts
<1>4. n \in Nat /\ i \in 0..n
  BY <1>1, <1>2 DEF Init
<1>5. /\ loAdj \in [1..n -> Nat] /\ hiAdj \in [1..n -> Nat]
      /\ \A j \in 1..n : loAdj[j] <= hiAdj[j]
  BY Zenon, <1>1, <1>2, <1>3, QuantilesAssumption, AdjFacts DEF SeriesOf
<1>6. /\ p.MinReplicas \in Nat /\ p.MaxReplicas \in Int
      /\ p.MaxReplicas > 0 => p.MinReplicas <= p.MaxReplicas
  BY <1>3 DEF Normalised, Policy
<1>7. /\ loOut \in Nat /\ hiOut \in Nat /\ loOut <= hiOut
      /\ p.MinReplicas <= loOut /\ p.MinReplicas <= hiOut
      /\ p.MaxReplicas > 0 => loOut <= p.MaxReplicas /\ hiOut <= p.MaxReplicas
  BY <1>1, <1>2, <1>6 DEF clampBounds
<1>8. TypeOK
  BY <1>3, <1>4, <1>5, <1>7 DEF TypeOK, Normalised
<1> QED
  BY <1>3, <1>5, <1>7, <1>8 DEF PlanInv, Bounded, Monotone

(* One iteration of the loop of ToReplicas (planner.go) preserves it.      *)
LEMMA StepPlanInv == PlanInv /\ [Next]_vars => PlanInv'
<1> SUFFICES ASSUME PlanInv, [Next]_vars PROVE PlanInv'
  OBVIOUS
<1>1. CASE Iterate
  <2>1. PICK a \in {loAdj[j] : j \in 1..n}, b \in {hiAdj[j] : j \in 1..n} :
          /\ IsNeed(a, loAdj, p, n, i + 1)
          /\ IsNeed(b, hiAdj, p, n, i + 1)
          /\ loOut' = NextOut(loOut, a, p)
          /\ hiOut' = NextOut(hiOut, b, p)
    BY <1>1 DEF Iterate
  <2>2. /\ n \in Nat /\ i + 1 \in 1..n /\ i' = i + 1
        /\ loAdj \in [1..n -> Nat] /\ hiAdj \in [1..n -> Nat]
        /\ loOut \in Nat /\ hiOut \in Nat
        /\ UNCHANGED <<p, n, loAdj, hiAdj>>
    <3>1. i < n /\ i' = i + 1 /\ UNCHANGED <<p, n, loAdj, hiAdj>>
      BY <1>1 DEF Iterate
    <3>2. /\ n \in Nat /\ i \in 0..n
          /\ loAdj \in [1..n -> Nat] /\ hiAdj \in [1..n -> Nat]
          /\ loOut \in Nat /\ hiOut \in Nat
      BY DEF PlanInv, TypeOK
    <3> QED
      BY <3>1, <3>2
  <2>3. a \in Nat /\ b \in Nat
    BY <2>1, <2>2
  <2>4. a <= b
    BY Zenon, <2>1, <2>2, <2>3, NeedMono DEF PlanInv
  <2>5. Normalised(p)
    BY DEF PlanInv
  <2>6. /\ loOut' \in Nat /\ hiOut' \in Nat
        /\ p.MinReplicas <= loOut' /\ p.MinReplicas <= hiOut'
        /\ p.MaxReplicas > 0 => loOut' <= p.MaxReplicas /\ hiOut' <= p.MaxReplicas
    BY Zenon, <2>1, <2>2, <2>3, <2>5, NextOutBounds
  <2>7. p.UpMaxFactorPerStep >= 100 => loOut' <= hiOut'
    BY Zenon, <2>1, <2>2, <2>3, <2>4, <2>5, NextOutMono DEF PlanInv, Monotone
  <2>8. TypeOK'
    BY <2>2, <2>6, SMTT(30) DEF PlanInv, TypeOK
  <2>9. Bounded' /\ Monotone'
    BY <2>2, <2>6, <2>7 DEF Bounded, Monotone
  <2> QED
    BY <2>2, <2>8, <2>9 DEF PlanInv, Normalised
<1>2. CASE UNCHANGED vars
  BY <1>2 DEF PlanInv, vars, TypeOK, Normalised, Bounded, Monotone
<1> QED
  BY <1>1, <1>2 DEF Next

(* Type correctness of a run of ToReplicas.                                *)
THEOREM PlannerTypeOK == Spec => []TypeOK
<1>1. PlanInv => TypeOK
  BY DEF PlanInv
<1> QED
  BY InitPlanInv, StepPlanInv, <1>1, PTL DEF Spec

(* Every count ToReplicas emits is within the policy's bounds, for every   *)
(* policy, forecast, quantile map and previous count.                      *)
THEOREM PlannerBounded == Spec => []Bounded
<1>1. PlanInv => Bounded
  BY DEF PlanInv
<1> QED
  BY InitPlanInv, StepPlanInv, <1>1, PTL DEF Spec

(* A forecast that is nowhere lower never gives a lower plan, for every    *)
(* policy with an up factor of at least 1.                                 *)
THEOREM PlannerMonotone == Spec => []Monotone
<1>1. PlanInv => Monotone
  BY DEF PlanInv
<1> QED
  BY InitPlanInv, StepPlanInv, <1>1, PTL DEF Spec

(* Consecutive outputs of ToReplicas are within the rate limits, for every *)
(* policy with an up factor of at least 1.                                 *)
THEOREM PlannerRateLimited == Spec => RateLimited
<1> DEFINE Limited == p.UpMaxFactorPerStep >= 100 =>
                        WithinStep(p, loOut, loOut') /\ WithinStep(p, hiOut, hiOut')
<1>1. PlanInv /\ [Next]_vars => [Limited]_vars
  <2> SUFFICES ASSUME PlanInv, Iterate, p.UpMaxFactorPerStep >= 100
               PROVE  WithinStep(p, loOut, loOut') /\ WithinStep(p, hiOut, hiOut')
    BY DEF Next
  <2>1. PICK a \in {loAdj[j] : j \in 1..n}, b \in {hiAdj[j] : j \in 1..n} :
          /\ loOut' = NextOut(loOut, a, p)
          /\ hiOut' = NextOut(hiOut, b, p)
    BY DEF Iterate
  <2>2. /\ a \in Nat /\ b \in Nat /\ loOut \in Nat /\ hiOut \in Nat
        /\ Normalised(p)
    BY DEF PlanInv, TypeOK
  <2>3. /\ p.MinReplicas <= loOut /\ p.MinReplicas <= hiOut
        /\ p.MaxReplicas > 0 => loOut <= p.MaxReplicas /\ hiOut <= p.MaxReplicas
    BY DEF PlanInv, Bounded
  <2> QED
    BY <2>1, <2>2, <2>3, NextOutRate DEF WithinStep
<1> QED
  BY InitPlanInv, StepPlanInv, <1>1, PTL DEF Spec, RateLimited

------------------------------------------------------------------------------
(* The forecasting loop and the backtest.                                  *)

(* The hypotheses of LoopProofs.                                           *)
LEMMA Hypotheses == Inductive /\ CollectsRight /\ PlansRight /\ RatesRight
<1>1. Inductive
  BY Zenon, Induction DEF Inductive
<1>2. CollectsRight
  BY Zenon, CollectSaysTheSame DEF CollectsRight
<1>3. PlansRight
  BY Zenon, ToReplicasLimits DEF PlansRight
<1>4. RatesRight
  BY Zenon, RateStepFacts DEF RatesRight
<1> QED
  BY Zenon, <1>1, <1>2, <1>3, <1>4

(* LoopInv is inductive, for all configurations, answers and loads.        *)
THEOREM LoopInvariant == LoopSpec => []LoopInv
<1>1. LoopInit => LoopInv
  BY Zenon, InitInv
<1>2. LoopInv /\ LoopNext => LoopInv'
  BY Zenon, Hypotheses, LoadInv, BuildInv, CollectInv, TrainInv, PredictInv, StoreInv
     DEF LoopNext
<1>3. LoopInv /\ UNCHANGED loopVars => LoopInv'
  BY Zenon, StutterInv
<1>4. LoopInv /\ [LoopNext]_loopVars => LoopInv'
  BY Zenon, <1>2, <1>3
<1> QED
  BY <1>1, <1>4, PTL DEF LoopSpec

(* TrainingInv is inductive with it.                                       *)
THEOREM TrainingInvariant == LoopSpec => []TrainingInv
<1>1. LoopInit => TrainingInv
  BY Zenon, InitTraining
<1>2. LoopInv /\ TrainingInv /\ [LoopNext]_loopVars => TrainingInv'
  BY Zenon, TrainingStep
<1> QED
  BY <1>1, <1>2, LoopInvariant, PTL DEF LoopSpec

(* RowsAreTheAnswer: whatever a server answers, a tick that goes on has    *)
(* rows that say the same (prometheus.go, http.go).                        *)
THEOREM PipelineRowsAreTheAnswer == LoopSpec => []RowsAreTheAnswer
<1>1. LoopInv => RowsAreTheAnswer
  BY DEF LoopInv, FrameInv
<1> QED
  BY <1>1, LoopInvariant, PTL

(* SnapshotFits: the values of a stored snapshot fill the horizon, there   *)
(* is a count for each, and the counts keep the bounds, for every model    *)
(* and every configuration that validateWorkload lets through, and         *)
(* whatever the values are.                                                *)
THEOREM PipelineSnapshotFits == LoopSpec => []SnapshotFits
<1>1. LoopInv => SnapshotFits
  BY DEF LoopInv
<1> QED
  BY <1>1, LoopInvariant, PTL

(* PanicsOnlyWithoutResiduals: for all orders, no sequence of successful   *)
(* and failed trainings makes the prediction of ARIMA or SARIMA panic but  *)
(* a training of this tick that left no residual.                          *)
THEOREM PipelinePanicsOnlyWithoutResiduals == LoopSpec => []PanicsOnlyWithoutResiduals
<1>1. LoopInv => PanicsOnlyWithoutResiduals
  BY DEF LoopInv
<1> QED
  BY <1>1, LoopInvariant, PTL

(* ContinuesLastTraining: a forecast continues the rows of this tick or,   *)
(* for ARIMA and SARIMA, the last successful training, for all orders; and *)
(* the errors of SARIMA are of an earlier one exactly if that training     *)
(* left too few residuals to replace them (sarima.go:199).                 *)
THEOREM PipelineContinuesLastTraining == LoopSpec => []ContinuesLastTraining
BY LoopInvariant, TrainingInvariant, ContinuesInv, PTL

(* SeasonLagsByCarry: for every last row and every step the pattern the    *)
(* baseline blends in is that of the forecast time, or the one before it   *)
(* exactly when the fractions of the minute, or of the hour, carry.        *)
THEOREM PipelineSeasonLagsByCarry == LoopSpec => []SeasonLagsByCarry
BY LoopInvariant, SeasonInv, PTL

(* DriftIsBounded: for every configuration the first count of a stored     *)
(* plan is within one rate step for each plan since the one stored before, *)
(* although currentReplicas (forecaster.go:402) follows all of them.       *)
THEOREM PipelineDriftIsBounded == LoopSpec => DriftIsBounded
<1>1. LoopInv /\ LoopNext =>
        (stage = "predicted" /\ misses' = 0 /\ wc.UpMaxFactorPerStep >= 100
           => WithinSteps)
  BY Zenon, Hypotheses, DriftStep
<1>2. LoopInv /\ [LoopNext]_loopVars =>
        [stage = "predicted" /\ misses' = 0 /\ wc.UpMaxFactorPerStep >= 100
           => WithinSteps]_loopVars
  BY Zenon, <1>1
<1> QED
  BY <1>2, LoopInvariant, PTL DEF LoopSpec, DriftIsBounded

(* BacktestAligned: for every series, window, horizon, stride and model    *)
(* the comparison of a walk-forward backtest (backtest.go:46) is one of    *)
(* a forecast with the load at the time it was made for.                   *)
THEOREM BacktestIsAligned == BacktestSpec => []BacktestAligned
<1>1. /\ BacktestInit => BacktestInv
      /\ BacktestInv /\ [BacktestNext]_backtestVars => BacktestInv'
      /\ BacktestInv => BacktestAligned
  BY Zenon, Hypotheses, BacktestSteps
<1> QED
  BY <1>1, PTL DEF BacktestSpec
==============================================================================
