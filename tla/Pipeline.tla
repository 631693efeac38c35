------------------------------ MODULE Pipeline ------------------------------
(***************************************************************************)
(* One workload's forecast loop from the flags to the snapshot: the        *)
(* configuration is loaded, the forecaster is built, and each tick         *)
(* collects, trains, predicts, plans and stores (cmd/forecaster/           *)
(* forecaster.go:261-331).  MultiForecaster models the goroutines around   *)
(* this loop and takes any plan; here the loop runs alone and the plan is  *)
(* the one of the models and of the planner.                               *)
(***************************************************************************)
EXTENDS WorkloadConfig, DataPath, Planner

CONSTANTS
  Configs,      \* the configurations ParseFlags may return
  RangeAnswers, \* answers of a Prometheus or VictoriaMetrics server
  HTTPAnswers,  \* answers of another HTTP endpoint
  MaxTicks      \* bound on the number of ticks

ASSUME PipelineAssumption ==
  MaxTicks \in Nat /\ Bad \notin Loads

ASSUME ConfigsAssumption == Configs \subseteq Config

ASSUME AnswersAssumption ==
  RangeAnswers \subseteq RangeAnswer /\ HTTPAnswers \subseteq HTTPAnswer

VARIABLES
  wc,        \* the workload's configuration
  stage,     \* how far start-up or the current tick has come
  tick,      \* ticks started
  answer,    \* the server's answer in this tick
  frame,     \* the rows collected, then the feature rows
  model,     \* the state of the model
  trainedAt, \* the last tick whose Train returned nil, 0 before
  forecast,  \* the forecast of this tick
  current,   \* currentReplicas
  snapshot,  \* the stored plan
  misses     \* plans since then that could not be stored

loopVars == <<wc, stage, tick, answer, frame, model, trainedAt, forecast,
              current, snapshot, misses>>

NoAnswer == [ok |-> FALSE]

NoSnapshot == [DesiredReplicas |-> << >>, Values |-> << >>, StepSeconds |-> 0,
               HorizonSeconds |-> 0]

LoopInit ==
  /\ wc \in Configs
  /\ stage = "flags"
  /\ tick = 0 /\ trainedAt = 0 /\ current = 0 /\ misses = 0
  /\ answer = NoAnswer /\ frame = << >>
  /\ model = Untrained("none", 0, 0, wc.Order)
  /\ forecast = NoForecast /\ snapshot = NoSnapshot

tickVars == <<tick, answer, frame, trainedAt, forecast, snapshot, misses>>

(* ParseFlags, the choice of the store and LoadWorkloads: the process ends *)
(* or goes on with the defaults filled in.                                 *)
LoadWorkloads ==
  /\ stage = "flags"
  /\ IF RequiredFlags(wc) /\ wc.Storage \in {"memory", "redis"} /\ Valid(wc)
     THEN stage' = "loaded" /\ wc' = Defaulted(wc)
     ELSE stage' = "exited" /\ wc' = wc
  /\ UNCHANGED <<model, current, tickVars>>

(* buildWorkloadForecaster and NewWorkloadForecaster: adapter, model,      *)
(* quantile level, in this order.                                          *)
Build ==
  /\ stage = "loaded"
  /\ \/ /\ AdapterOK(wc.Adapter, wc.AdapterConfig)
        /\ ~ModelPanics(wc)
        /\ LevelOK(wc.QuantileLevel)
        /\ stage' = "idle"
        /\ model' = NewForWorkload(wc)
        /\ current' = wc.MinReplicas
     \/ /\ AdapterOK(wc.Adapter, wc.AdapterConfig)
        /\ ModelPanics(wc)
        /\ stage' = "panicked"
        /\ UNCHANGED <<model, current>>
     \/ /\ \/ ~AdapterOK(wc.Adapter, wc.AdapterConfig)
           \/ ~ModelPanics(wc) /\ ~LevelOK(wc.QuantileLevel)
        /\ stage' = "exited"
        /\ UNCHANGED <<model, current>>
  /\ UNCHANGED <<wc, tickVars>>

(* A tick is over, with or without an error: nothing of it is kept but     *)
(* the model, currentReplicas and the store.                               *)
EndTick ==
  /\ stage' = "idle"
  /\ answer' = NoAnswer /\ frame' = << >> /\ forecast' = NoForecast

(* collect: the adapter asks the server, whose answer may be unusable.     *)
CollectMetrics ==
  /\ stage = "idle" /\ tick < MaxTicks
  /\ tick' = tick + 1
  /\ \E a \in IF wc.Adapter = "http" THEN HTTPAnswers ELSE RangeAnswers :
       \E df \in Collect(wc.Adapter, wc.TimestampFormat, a) :
         IF df.ok
         THEN /\ stage' = "collected" /\ answer' = a /\ frame' = df.rows
              /\ UNCHANGED forecast
         ELSE EndTick
  /\ UNCHANGED <<wc, model, trainedAt, current, snapshot, misses>>

(* buildFeatures and Train.  A failed training is only logged.             *)
TrainModel ==
  /\ stage = "collected"
  /\ LET features == BuildFeatures(frame)
     IN \/ /\ ~features.ok
           /\ EndTick
           /\ UNCHANGED <<model, trainedAt>>
        \/ /\ features.ok
           /\ \E result \in Train(model, features.rows, tick) :
                /\ model' = result.model
                /\ trainedAt' = IF result.err THEN trainedAt ELSE tick
           /\ stage' = "trained"
           /\ frame' = features.rows
           /\ UNCHANGED <<answer, forecast>>
  /\ UNCHANGED <<wc, tick, current, snapshot, misses>>

(* predict.  A panic ends the loop: Run recovers it and returns.           *)
PredictLoad ==
  /\ stage = "trained"
  /\ \E result \in Predict(model, frame, tick) :
       \/ result.kind = "error" /\ EndTick
       \/ /\ result.kind = "panic"
          /\ stage' = "ended"
          /\ UNCHANGED <<answer, frame, forecast>>
       \/ /\ result.kind = "ok"
          /\ stage' = "predicted" /\ forecast' = result.forecast
          /\ UNCHANGED <<answer, frame>>
  /\ UNCHANGED <<wc, tick, model, trainedAt, current, snapshot, misses>>

(* The Redis store encodes a snapshot as JSON.  encoding/json refuses a    *)
(* map with float64 keys; the tag omitempty spares only an empty one.      *)
Encodable == wc.Storage = "redis" => forecast.quantiles = << >>

(* calculateReplicas and storeSnapshot: currentReplicas follows the plan   *)
(* before it is known whether the plan can be stored.                      *)
Plan == ToReplicas(current, forecast.values, PolicyOf(wc), forecast.quantiles)

Store(next) ==
  /\ stage = "predicted"
  /\ current' = IF Plan = << >> THEN current ELSE next
  /\ \/ /\ Encodable
        /\ snapshot' = [DesiredReplicas |-> Plan, Values |-> forecast.values,
                        StepSeconds |-> Seconds(wc.Step),
                        HorizonSeconds |-> Seconds(wc.Horizon)]
        /\ misses' = 0
     \/ snapshot' = snapshot /\ misses' = misses + 1
  /\ EndTick
  /\ UNCHANGED <<wc, tick, model, trainedAt>>

(* Mutant of StoreSnapshot: the count at the end of the plan is taken.     *)
StoreSnapshotEnd == Store(Plan[Len(Plan)])

StoreSnapshot == Store(Plan[1])

LoopNext ==
  \/ LoadWorkloads \/ Build
  \/ CollectMetrics \/ TrainModel \/ PredictLoad \/ StoreSnapshot

LoopSpec == LoopInit /\ [][LoopNext]_loopVars

------------------------------------------------------------------------------

(* The rows an adapter returns say what the server said                    *)
(* (prometheus.go:20, "values with the same timestamp are SUMMED"): they   *)
(* are in time order, every second has the load of all its samples, and a  *)
(* Prometheus answer gives one row for each second.  A usable frame never  *)
(* comes from an answer with a malformed pair.                             *)
RowsAreTheAnswer ==
  stage = "collected" =>
    SaysTheSame(frame, wc.Adapter, SamplesOf(wc.Adapter, wc.TimestampFormat, answer))

(* What the scaler relies on in a stored snapshot, for every model and     *)
(* every configuration that validateWorkload lets through: the values      *)
(* fill the horizon (model.go:33, "len(Values) = Horizon / StepSec"),      *)
(* there is one count per value, and every count is within the configured  *)
(* bounds, whatever the values are: those of ARIMA and SARIMA can be       *)
(* negative.                                                               *)
SnapshotFits ==
  snapshot # NoSnapshot =>
    LET n == Len(snapshot.Values)
    IN /\ n >= 1
       /\ n * snapshot.StepSeconds <= snapshot.HorizonSeconds
       /\ snapshot.HorizonSeconds < (n + 1) * snapshot.StepSeconds
       /\ Len(snapshot.DesiredReplicas) = n
       /\ \A i \in 1..n :
            snapshot.DesiredReplicas[i] \in wc.MinReplicas..wc.MaxReplicas

(* A forecast continues the load of this tick, or, for ARIMA and SARIMA,   *)
(* whose Predict ignores the rows, the load of the last successful         *)
(* training, which a failed Train (forecaster.go:285 only logs it) makes   *)
(* an old one.  It rests on minPoints never being smaller than the values  *)
(* SARIMA wants to keep (sarima.go:191).  The errors that correct it are   *)
(* of that training too with ARIMA; with SARIMA exactly if that training   *)
(* left enough residuals (sarima.go:199), and otherwise of an earlier one, *)
(* so that parts of two trainings are mixed.                               *)
ContinuesLastTraining ==
  stage = "predicted" =>
    IF model.kind \notin {"arima", "sarima"} THEN forecast.base = tick
    ELSE /\ forecast.base = trainedAt /\ forecast.errors <= trainedAt
         /\ model.kind = "arima" => forecast.errors = trainedAt
         /\ trainedAt = tick =>
              (forecast.errors = tick <=> ReplacesErrors(model, Len(frame)))

(* One if what is left of x and of y beyond whole units makes up a unit.   *)
Carry(x, y, unit) == IF (x % unit) + (y % unit) >= unit THEN 1 ELSE 0

(* The pattern of ahead seconds after an instant, or the one before when   *)
(* the fractions of the minute, or of the hour, carry.                     *)
LagsByCarry(season, last, ahead) ==
  /\ season.unit = "minute" =>
       season.bucket = ((last + ahead) \div 60 - Carry(last, ahead, 60)) % 60
  /\ season.unit = "hour" =>
       season.bucket = ((last + ahead) \div 3600 - Carry(last, ahead, 3600)) % 24

(* The pattern the baseline blends in at each step.  It is the one "for    *)
(* that future time" (baseline.go:227) unless the code, which adds whole   *)
(* minutes and hours to those of the last row (baseline.go:289, 310),      *)
(* drops a carry; then it is the one before: with a last row at 0:59:50    *)
(* and steps of a minute, hour 0 for every time up to 1:58:50.  It is      *)
(* never another one.                                                      *)
SeasonLagsByCarry ==
  stage = "predicted" =>
    \A i \in DOMAIN forecast.seasons :
      LagsByCarry(forecast.seasons[i], frame[Len(frame)].timestamp, i * model.stepSec)

(* The rate limits across failures: the first count of a stored plan       *)
(* differs from that of the plan stored before by at most one rate step    *)
(* for each plan computed since, stored or not, although currentReplicas   *)
(* (forecaster.go:402) follows plans nobody saw.  With one plan per tick   *)
(* and no failure these are the limits of a single step.                   *)
FirstCount ==
  IF snapshot = NoSnapshot THEN wc.MinReplicas ELSE snapshot.DesiredReplicas[1]

WithinSteps ==
  FirstCount' \in Lowest(FirstCount, wc.DownMaxPercentPerStep, misses + 1)
                 ..Highest(FirstCount, wc.UpMaxFactorPerStep, misses + 1)

DriftIsBounded ==
  [][stage = "predicted" /\ misses' = 0 /\ wc.UpMaxFactorPerStep >= 100
       => WithinSteps]_loopVars

(* A trained ARIMA or SARIMA model can be asked for a prediction unless    *)
(* its last successful training, whose rows met the "Minimum data          *)
(* requirements" (arima.go:104, sarima.go:121), left no residual at all:   *)
(* then maCoeffs is empty while lastErrors is not.  No other sequence of   *)
(* successful and failed trainings makes Predict panic and end the loop.   *)
PanicsOnlyWithoutResiduals ==
  stage = "ended" /\ model.kind \in {"arima", "sarima"} =>
    trainedAt = tick /\ Residuals(model, Len(frame)) <= 0

(* docs/ARCHITECTURE.md:63, "Forecast snapshot is stored (memory or        *)
(* Redis)": whatever a model predicts, the snapshot made of it is one that *)
(* the configured store can take.                                          *)
SnapshotCanBeStored == stage = "predicted" => Encodable
==============================================================================
