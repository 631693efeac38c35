--------------------------- MODULE WorkloadConfig ---------------------------
(***************************************************************************)
(* From flags to a forecaster: LoadWorkloads and validateWorkload          *)
(* (cmd/forecaster/config), the adapter and model factories and            *)
(* buildWorkloadForecaster.  Durations are milliseconds; Headroom and      *)
(* UpMaxFactorPerStep are percentages; the orders of ARIMA and SARIMA are  *)
(* one record, of which ARIMA uses p, d and q.                             *)
(***************************************************************************)
EXTENDS ForecastModels

CONSTANT Names        \* the workload names that match workloadNameRegex

Empty == ""

(* The kinds of the fields of WorkloadConfig.                              *)
Orders == [p : Int, d : Int, q : Int, P : Int, D : Int, Q : Int, s : Int]

Config ==
  [Name : STRING, Metric : STRING, Adapter : STRING,
   AdapterConfig : SUBSET STRING, TimestampFormat : STRING,
   Horizon : Int, Step : Int, Interval : Int, Window : Int,
   Model : STRING, Order : Orders, BYOMURL : STRING,
   TargetPerPod : Int, Headroom : Int,
   QuantileLevel : [form : STRING, hundredths : Int],
   MinReplicas : Int, MaxReplicas : Int, UpMaxFactorPerStep : Int,
   DownMaxPercentPerStep : Int, Storage : STRING]

Seconds(duration) == duration \div 1000

(* ParseFlags ends the process when one of these is missing.               *)
RequiredFlags(c) == Empty \notin {c.Name, c.Metric, c.Adapter}

(* The tests of validateWorkload.                                          *)
Valid(w) ==
  /\ w.Name # Empty /\ w.Name \in Names
  /\ w.Metric # Empty /\ w.Adapter # Empty
  /\ w.Horizon > 0 /\ w.Step > 0 /\ w.Step <= w.Horizon
  /\ w.MinReplicas >= 0 /\ w.MaxReplicas >= w.MinReplicas
  /\ w.TargetPerPod > 0
  /\ w.DownMaxPercentPerStep \in 0..100
  /\ w.Model \in {Empty, "baseline", "arima", "sarima", "byom"}
  /\ w.Model = "byom" => w.BYOMURL # Empty

(* Its defaults.                                                           *)
Defaulted(w) ==
  LET positive(x, default) == IF x <= 0 THEN default ELSE x
  IN [w EXCEPT
        !.Interval = positive(@, 30000), !.Window = positive(@, 1800000),
        !.MaxReplicas = IF @ = 0 THEN 100 ELSE @,
        !.Headroom = positive(@, 100),
        !.UpMaxFactorPerStep = positive(@, 200),
        !.Model = IF @ = Empty THEN "baseline" ELSE @]

(* The keys each adapter needs; "badJSON" stands for headers or template   *)
(* variables that do not parse.                                            *)
newPrometheus(config) == "query" \in config

newVictoriaMetrics(config) == "query" \in config

newHTTP(config) ==
  /\ {"url", "valuePath", "timestampPath"} \subseteq config
  /\ "badJSON" \notin config

AdapterOK(kind, config) ==
  \/ kind = "prometheus" /\ newPrometheus(config)
  \/ kind = "victoriametrics" /\ newVictoriaMetrics(config)
  \/ kind = "http" /\ newHTTP(config)

(* A level is written as a percentile or as a fraction, here in hundredths.*)
LevelOK(level) ==
  \/ level.form = "off"
  \/ level.form \in {"p", "fraction"} /\ level.hundredths \in 0..100

ParseQuantileLevel(level) == IF level.form = "off" THEN 0 ELSE level.hundredths

(* The model factory panics where the constructor of the model does.       *)
ModelPanics(w) ==
  CASE w.Model = "arima" ->
         NewARIMAPanics(Seconds(w.Step), Seconds(w.Horizon), w.Order)
    [] w.Model = "sarima" ->
         NewSARIMAPanics(Seconds(w.Step), Seconds(w.Horizon), w.Order)
    [] OTHER -> FALSE

NewForWorkload(w) ==
  LET step == Seconds(w.Step)
      horizon == Seconds(w.Horizon)
  IN CASE w.Model = "arima" -> NewARIMAModel(step, horizon, w.Order)
       [] w.Model = "sarima" -> NewSARIMAModel(step, horizon, w.Order)
       [] w.Model = "baseline" -> NewBaselineModel(step, horizon, w.Order)
       [] w.Model = "byom" -> NewBYOMModel(step, horizon, w.Order)

(* The capacity policy; rounding and prewarming cannot be configured.      *)
PolicyOf(w) ==
  [TargetPerPod |-> w.TargetPerPod, Headroom |-> w.Headroom,
   QuantileLevel |-> ParseQuantileLevel(w.QuantileLevel),
   MinReplicas |-> w.MinReplicas, MaxReplicas |-> w.MaxReplicas,
   UpMaxFactorPerStep |-> w.UpMaxFactorPerStep,
   DownMaxPercentPerStep |-> w.DownMaxPercentPerStep,
   PrewarmWindowSteps |-> 0, RoundingMode |-> Empty]
==============================================================================
