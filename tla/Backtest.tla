------------------------------ MODULE Backtest ------------------------------
(***************************************************************************)
(* The walk-forward backtest (pkg/backtest, cmd/backtest): a window slides *)
(* over a recorded series, a fresh model is trained on the window and      *)
(* predicts, and the prediction is compared with what followed.            *)
(*                                                                         *)
(* Positions count from 0 as in the code, so points[j + 1] is              *)
(* series.Values[j].  The error figures of the report are not computed:    *)
(* they are sums over the lists kept here.                                 *)
(***************************************************************************)
EXTENDS WorkloadConfig, DataPath, Planner

CONSTANT Jobs   \* what the command line may ask for; durations in ms

Job ==
  [Model : STRING, Order : Orders, BYOMURL : STRING,
   QuantileLevel : [form : STRING, hundredths : Int],
   Window : Int, Horizon : Int, Step : Int, Stride : Int,
   TargetPerPod : Int, Headroom : Int, MinReplicas : Int, MaxReplicas : Int,
   UpMaxFactorPerStep : Int, DownMaxPercentPerStep : Int, points : Seq(Sample)]

ASSUME JobsAssumption == Jobs \subseteq Job

VARIABLES
  job,      \* the flags, and the series as points [ts, value], ts in ms
  phase,    \* "off", "flags", "running", "report", "failed" or "panicked"
  position, \* i
  windows,  \* report.Windows
  skipped,  \* report.Skipped
  pairs,    \* predicted and actual: which forecast is compared with what
  planned, needed, \* replica counts, planned and in fact needed
  prevReplicas

backtestVars ==
  <<job, phase, position, windows, skipped, pairs, planned, needed, prevReplicas>>

windowSteps == job.Window \div job.Step
horizonSteps == job.Horizon \div job.Step
strideSteps == Max({1, job.Stride \div job.Step})

NothingCounted ==
  /\ position = 0 /\ windows = 0 /\ skipped = 0 /\ prevReplicas = 0
  /\ pairs = << >> /\ planned = << >> /\ needed = << >>

BacktestInit == job \in Jobs /\ phase = "flags" /\ NothingCounted

(* main and the head of Run: flags that do not fit end the run; the first  *)
(* model is built for its name only, and its constructor may panic.        *)
FlagsOK ==
  /\ job.Model \in {"baseline", "arima", "sarima", "byom"}
  /\ job.Model = "byom" => job.BYOMURL # Empty
  /\ LevelOK(job.QuantileLevel)
  /\ job.points # << >>

RunOK ==
  /\ job.Step > 0 /\ job.Horizon >= job.Step /\ job.Window >= job.Step
  /\ Len(job.points) >= windowSteps + horizonSteps

StartBacktest ==
  /\ phase = "flags"
  /\ \/ /\ FlagsOK /\ RunOK /\ ~ModelPanics(job)
        /\ phase' = "running"
        /\ position' = windowSteps
        /\ prevReplicas' = job.MinReplicas
     \/ /\ \/ ~(FlagsOK /\ RunOK) /\ phase' = "failed"
           \/ FlagsOK /\ RunOK /\ ModelPanics(job) /\ phase' = "panicked"
        /\ UNCHANGED <<position, prevReplicas>>
  /\ UNCHANGED <<job, windows, skipped, pairs, planned, needed>>

(* Mutant of historyDataFrame: the end of the range is included.           *)
historyDataFrameTo(points, from, to) ==
  [j \in 1..to - from + 1 |->
     [ts |-> points[from + j].ts \div 1000, value |-> points[from + j].value]]

(* Positions from, ..., to - 1.                                            *)
historyDataFrame(points, from, to) ==
  [j \in 1..to - from |->
     [ts |-> points[from + j].ts \div 1000, value |-> points[from + j].value]]

neededReplicas(value) ==
  Max({job.MinReplicas,
       IF job.TargetPerPod > 0 THEN CeilDiv(value, job.TargetPerPod) ELSE 0})

Skip ==
  /\ skipped' = skipped + 1
  /\ position' = position + strideSteps
  /\ UNCHANGED <<phase, windows, pairs, planned, needed, prevReplicas>>

(* The forecast made after the point at position - 1 is compared with the  *)
(* points from position on.  last is the newest row the model has seen.    *)
Compare(forecast, last) ==
  LET replicas == ToReplicas(prevReplicas, forecast.values, PolicyOf(job),
                             forecast.quantiles)
      count == Min({Len(forecast.values), horizonSteps})
      future(k) == position + k - 1
  IN /\ pairs' = pairs \o
          [k \in 1..count |->
             [seen |-> last.timestamp,
              predicted |-> last.timestamp + k * Seconds(job.Step),
              actual |-> future(k)]]
     /\ planned' = planned \o [k \in 1..count |-> replicas[k]]
     /\ needed' = needed \o
          [k \in 1..count |-> neededReplicas(job.points[future(k) + 1].value)]
     /\ prevReplicas' = replicas[1]
     /\ windows' = windows + 1
     /\ position' = position + strideSteps
     /\ UNCHANGED <<phase, skipped>>

(* One iteration of the loop.  A failed training is ignored.               *)
Evaluate ==
  /\ phase = "running" /\ position + horizonSteps <= Len(job.points)
  /\ LET rows == BuildFeatures(historyDataFrame(job.points,
                                 position - windowSteps, position)).rows
     IN \E trained \in Train(NewForWorkload(job), rows, 1) :
          \E result \in Predict(trained.model, rows, 1) :
            \/ result.kind = "error" /\ Skip
            \/ result.kind = "ok" /\ Compare(result.forecast, rows[Len(rows)])
            \/ /\ result.kind = "panic" /\ phase' = "panicked"
               /\ UNCHANGED <<position, windows, skipped, pairs, planned, needed,
                              prevReplicas>>
  /\ UNCHANGED job

Finish ==
  /\ phase = "running" /\ position + horizonSteps > Len(job.points)
  /\ phase' = IF windows = 0 THEN "failed" ELSE "report"
  /\ UNCHANGED <<job, position, windows, skipped, pairs, planned, needed,
                 prevReplicas>>

BacktestNext == StartBacktest \/ Evaluate \/ Finish

BacktestSpec == BacktestInit /\ [][BacktestNext]_backtestVars

------------------------------------------------------------------------------

(* A step of whole seconds and a series with that step: "the input series  *)
(* must match it" (backtest.go:21).                                        *)
Regular ==
  /\ job.Step > 0 /\ job.Step % 1000 = 0
  /\ \A i \in 1..Len(job.points) - 1 :
       job.points[i + 1].ts = job.points[i].ts + job.Step

(* "Walk-forward" (backtest.go:46): whenever the step is a whole number of *)
(* seconds and the series has that step (Regular), a forecast is           *)
(* compared with the load at exactly the time it was made for, and the     *)
(* model has seen nothing of that time or after it.  Planned and needed    *)
(* counts stay paired with them, and at the end every position the stride  *)
(* reaches has been evaluated or skipped.                                  *)
BacktestAligned ==
  /\ Regular =>
       \A n \in DOMAIN pairs :
         LET time == job.points[pairs[n].actual + 1].ts \div 1000
         IN pairs[n].predicted = time /\ pairs[n].seen < time
  /\ Len(planned) = Len(pairs) /\ Len(needed) = Len(pairs)
  /\ phase = "report" =>
       windows + skipped =
         (Len(job.points) - windowSteps - horizonSteps) \div strideSteps + 1
==============================================================================
