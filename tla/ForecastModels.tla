--------------------------- MODULE ForecastModels ---------------------------
(***************************************************************************)
(* The four models of pkg/models: baseline, ARIMA, SARIMA and the external *)
(* model (BYOM).  What a model computes is any of Loads: the arithmetic on *)
(* floats is left out, but not the bounds that ARIMA and SARIMA put on its *)
(* result.  What is kept is everything that decides whether a call         *)
(* succeeds, how long each slice is, which training a number comes from    *)
(* and which seasonal pattern a step uses.                                 *)
(*                                                                         *)
(* A slice of coefficients is its length; lastValues and lastErrors are a  *)
(* length and the tick they were computed in, with the last of the values. *)
(* Train returns a set of [err, model] and Predict a set of                *)
(* [kind, forecast].                                                       *)
(***************************************************************************)
EXTENDS Integers, Sequences, FiniteSetsExt

CONSTANT Loads        \* what a model may compute, negative results made zero

ASSUME LoadsAssumption == Loads \subseteq Nat

NoValues == [len |-> 0, from |-> 0, last |-> 0]
NoErrors == [len |-> 0, from |-> 0]

(* The fields of a model.  minuteSeasonality and hourSeasonality map a     *)
(* bucket to the training that wrote it and to whether its values differ.  *)
Untrained(kind, stepSec, horizonSec, order) ==
  [kind |-> kind, stepSec |-> stepSec, horizonSec |-> horizonSec,
   order |-> order, trained |-> FALSE,
   ar |-> 0, ma |-> 0, sar |-> 0, sma |-> 0,
   lastValues |-> NoValues, lastErrors |-> NoErrors,
   minuteSeasonality |-> << >>, hourSeasonality |-> << >>,
   residualStdDev |-> FALSE]

(* An order of zero means "auto", which is one.                            *)
AutoOrder(o) ==
  LET one(x) == IF x = 0 THEN 1 ELSE x
  IN [o EXCEPT !.p = one(@), !.d = one(@), !.q = one(@)]

NewBaselineModel(stepSec, horizonSec, o) ==
  Untrained("baseline", stepSec, horizonSec, o)

NewBYOMModel(stepSec, horizonSec, o) ==
  Untrained("byom", stepSec, horizonSec, o)

NewARIMAPanics(stepSec, horizonSec, o) ==
  \/ stepSec <= 0 \/ horizonSec < stepSec
  \/ o.d \notin 0..2 \/ o.p < 0 \/ o.q < 0

NewARIMAModel(stepSec, horizonSec, o) ==
  Untrained("arima", stepSec, horizonSec, AutoOrder(o))

NewSARIMAPanics(stepSec, horizonSec, o) ==
  \/ NewARIMAPanics(stepSec, horizonSec, o)
  \/ o.D \notin 0..1 \/ o.P < 0 \/ o.Q < 0
  \/ (o.P > 0 \/ o.D > 0 \/ o.Q > 0) /\ o.s <= 0

NewSARIMAModel(stepSec, horizonSec, o) ==
  Untrained("sarima", stepSec, horizonSec, AutoOrder(o))

------------------------------------------------------------------------------
(* Training.  Lengths of the intermediate series.                          *)

difference(n, d) == n - d

seasonalDifference(n, D, s) == IF D = 0 \/ s <= 0 \/ n <= s THEN n ELSE n - s

computeResiduals(n, p) == IF n <= p THEN 0 ELSE n - p

computeSeasonalResiduals(n, p, P, s) ==
  LET startIdx == Max({p, P * s}) IN IF n <= startIdx THEN 0 ELSE n - startIdx

(* The Yule-Walker solution has p entries, and so has its substitute when  *)
(* the recursion is unstable.                                              *)
fitAR(n, p) == p

fitSeasonalAR(n, P, s) == IF P = 0 \/ s <= 0 THEN 0 ELSE P

(* Mutant of fitMA: no coefficients unless all q autocorrelations exist.   *)
fitMAOfEnough(residuals, q) == IF residuals <= q THEN 0 ELSE q

fitMA(residuals, q) == IF residuals = 0 THEN 0 ELSE q

fitSeasonalMA(residuals, Q, s) ==
  IF Q = 0 \/ s <= 0 \/ residuals = 0 THEN 0 ELSE Q

(* The deviation of the residuals may be zero or not once there are two.   *)
Deviations(residuals) == IF residuals > 1 THEN BOOLEAN ELSE {FALSE}

TrainError(m) == {[err |-> TRUE, model |-> m]}

ARIMATrain(m, rows, k) ==
  LET o == m.order
      n == Len(rows)
      residuals == computeResiduals(difference(n, o.d), o.p)
  IN IF n < Max({o.p + o.d, o.q + o.d, 10}) THEN TrainError(m)
     ELSE {[err |-> FALSE,
            model |-> [m EXCEPT !.trained = TRUE,
                         !.ar = fitAR(n, o.p), !.ma = fitMA(residuals, o.q),
                         !.lastValues = [len |-> o.p, from |-> k,
                                         last |-> rows[n].value],
                         !.lastErrors = [len |-> o.q, from |-> k],
                         !.residualStdDev = dev]] : dev \in Deviations(residuals)}

SARIMAMinPoints(o) ==
  Max({o.p + o.d, o.q + o.d, 20}
      \cup (IF o.s <= 0 THEN {} ELSE {o.s * (o.P + o.D), o.s * (o.Q + o.D)})
      \cup (IF o.s > 0 /\ (o.D > 0 \/ o.P > 0 \/ o.Q > 0) THEN {2 * o.s} ELSE {}))

(* Mutant of Kept: a series of exactly the needed length is not enough.    *)
KeptIfLonger(old, need, available, new) ==
  IF need > 0 /\ need < available THEN new ELSE old

(* lastValues and lastErrors are replaced only if the new series is long   *)
(* enough; otherwise those of an earlier training stay.                    *)
Kept(old, need, available, new) ==
  IF need > 0 /\ need <= available THEN new ELSE old

SARIMATrain(m, rows, k) ==
  LET o == m.order
      n == Len(rows)
      centered == seasonalDifference(difference(n, o.d), o.D, o.s)
      residuals == computeSeasonalResiduals(centered, o.p, o.P, o.s)
      values == Max({o.p, o.s * o.P})
      errors == Max({o.q, o.s * o.Q})
  IN IF n < SARIMAMinPoints(o) THEN TrainError(m)
     ELSE {[err |-> FALSE,
            model |-> [m EXCEPT !.trained = TRUE,
                         !.ar = fitAR(centered, o.p),
                         !.sar = fitSeasonalAR(centered, o.P, o.s),
                         !.ma = fitMA(residuals, o.q),
                         !.sma = fitSeasonalMA(residuals, o.Q, o.s),
                         !.lastValues = Kept(@, values, n,
                           [len |-> values, from |-> k, last |-> rows[n].value]),
                         !.lastErrors = Kept(@, errors, residuals,
                           [len |-> errors, from |-> k]),
                         !.residualStdDev = dev]] : dev \in Deviations(residuals)}

(* A pattern is the summary of a bucket's values; its deviation is         *)
(* positive when two of them differ.                                       *)
computeSeasonalPattern(values, k) ==
  [from |-> k, stddev |-> Cardinality(values) > 1]

(* Buckets with two or more values are learnt anew, the others keep what   *)
(* an earlier training left.                                               *)
Learn(patterns, rows, unit, k) ==
  LET at(b) == {i \in DOMAIN rows : rows[i][unit] = b}
      learnt == {b \in {rows[i][unit] : i \in DOMAIN rows} :
                   Cardinality(at(b)) >= 2}
  IN [b \in DOMAIN patterns \cup learnt |->
        IF b \notin learnt THEN patterns[b]
        ELSE computeSeasonalPattern({rows[i].value : i \in at(b)}, k)]

(* Every row has a minute and an hour, so without a deviation in any       *)
(* pattern the fallback looks at all values, each taken twice.             *)
BaselineTrain(m, rows, k) ==
  LET minute == Learn(m.minuteSeasonality, rows, "minute", k)
      hour == Learn(m.hourSeasonality, rows, "hour", k)
      spread == \/ \E b \in DOMAIN minute : minute[b].stddev
                \/ \E b \in DOMAIN hour : hour[b].stddev
                \/ \E i, j \in DOMAIN rows : rows[i].value # rows[j].value
  IN {[err |-> FALSE,
       model |-> [m EXCEPT !.minuteSeasonality = minute,
                           !.hourSeasonality = hour, !.residualStdDev = spread]]}

Train(m, rows, k) ==
  CASE m.kind = "arima" -> ARIMATrain(m, rows, k)
    [] m.kind = "sarima" -> SARIMATrain(m, rows, k)
    [] m.kind = "baseline" -> BaselineTrain(m, rows, k)
    [] m.kind = "byom" -> {[err |-> FALSE, model |-> m]}

------------------------------------------------------------------------------
(* Prediction.                                                             *)

NoForecast == [values |-> << >>, quantiles |-> << >>, base |-> 0, errors |-> 0,
               seasons |-> << >>]

PredictError == [kind |-> "error", forecast |-> NoForecast]
PredictPanic == [kind |-> "panic", forecast |-> NoForecast]

(* base and errors: the ticks of the loads it continues and of the errors  *)
(* it corrects them by.                                                    *)
Predicted(values, quantiles, base, errors, seasons) ==
  [kind |-> "ok",
   forecast |-> [values |-> values, quantiles |-> quantiles, base |-> base,
                 errors |-> errors, seasons |-> seasons]]

(* Mutant of Steps: one more for the step that is under way.               *)
StepsInclusive(m) == m.horizonSec \div m.stepSec + 1

Steps(m) == Max({1, m.horizonSec \div m.stepSec})

(* Quantile forecasts add z times the deviation, here one per level, and   *)
(* are not negative.                                                       *)
Quantiles(m, values) ==
  LET z == [level \in {50, 75, 90, 95} |->
              CASE level = 50 -> 0 [] level = 75 -> 1
                [] level = 90 -> 2 [] level = 95 -> 3]
  IN IF ~m.residualStdDev THEN << >>
     ELSE [level \in DOMAIN z |-> [i \in DOMAIN values |-> Max({0, values[i] + z[level]})]]

(* The first step multiplies coefficients and last values or errors        *)
(* pairwise.  The loops are bounded by the orders and by the lengths of    *)
(* the latter, not by those of the coefficients.                           *)
ARIMAInRange(m) ==
  /\ \A i \in 0..m.order.p - 1 : i < m.lastValues.len => i < m.ar
  /\ \A j \in 0..m.order.q - 1 : j < m.lastErrors.len => j < m.ma

(* So is the seasonal part of SARIMA, which looks whole seasons back.      *)
SARIMAInRange(m) ==
  LET o == m.order
      back(last, i) == last.len - 1 - (i + 1) * o.s \in 0..last.len - 1
  IN /\ ARIMAInRange(m)
     /\ \A i \in 0..o.P - 1 : back(m.lastValues, i) => i < m.sar
     /\ \A j \in 0..o.Q - 1 : back(m.lastErrors, j) => j < m.sma

(* ARIMA and SARIMA ignore the rows and continue the stored last values.   *)
(* A result is made zero if it is negative and only then cut at twice the  *)
(* last value plus 100, which is negative for a last value below -50.      *)
Continue(m) ==
  LET cut(v) == [i \in DOMAIN v |-> Min({v[i], 2 * m.lastValues.last + 100})]
  IN {Predicted(cut(v), Quantiles(m, cut(v)), m.lastValues.from, m.lastErrors.from,
                << >>) : v \in [1..Steps(m) -> Loads]}

ARIMAPredict(m) ==
  IF ~m.trained THEN {PredictError}
  ELSE IF ~ARIMAInRange(m) THEN {PredictPanic} ELSE Continue(m)

SARIMAPredict(m) ==
  IF ~m.trained THEN {PredictError}
  ELSE IF ~SARIMAInRange(m) THEN {PredictPanic} ELSE Continue(m)

(* Mutant of Season: the bucket of the step before.                        *)
SeasonBefore(m, last, i) ==
  LET minute == (last.minute + ((i - 1) * m.stepSec) \div 60) % 60
  IN IF minute \in DOMAIN m.minuteSeasonality
     THEN [unit |-> "minute", bucket |-> minute]
     ELSE [unit |-> "none", bucket |-> 0]

(* The pattern that step i uses: minute of the hour first, then hour of    *)
(* the day.  Whole minutes and hours ahead are added to those of the last  *)
(* row.                                                                    *)
Season(m, last, i) ==
  LET ahead == i * m.stepSec
      minute == (last.minute + ahead \div 60) % 60
      hour == (last.hour + ahead \div 3600) % 24
  IN CASE minute \in DOMAIN m.minuteSeasonality ->
            [unit |-> "minute", bucket |-> minute]
       [] /\ minute \notin DOMAIN m.minuteSeasonality
          /\ hour \in DOMAIN m.hourSeasonality ->
            [unit |-> "hour", bucket |-> hour]
       [] OTHER -> [unit |-> "none", bucket |-> 0]

(* The baseline extrapolates the last row and blends a pattern in; the     *)
(* division by a step of zero seconds panics.                              *)
BaselinePredict(m, rows, k) ==
  IF rows = << >> THEN {PredictError}
  ELSE IF m.stepSec = 0 THEN {PredictPanic}
  ELSE {Predicted(v, Quantiles(m, v), k, k,
                  [i \in 1..Steps(m) |-> Season(m, rows[Len(rows)], i)]) :
          v \in [1..Steps(m) -> Loads]}

(* The external model answers any list or fails; a list of another length  *)
(* is refused, negative loads become zero, and there are no quantiles.     *)
BYOMPredict(m, rows, k) ==
  IF rows = << >> THEN {PredictError}
  ELSE {PredictError} \cup
       (IF m.stepSec = 0 THEN {PredictPanic}
        ELSE {Predicted([i \in DOMAIN v |-> Max({0, v[i]})], << >>, k, k, << >>) :
                v \in [1..m.horizonSec \div m.stepSec -> Loads \cup {-1}]})

Predict(m, rows, k) ==
  CASE m.kind = "arima" -> ARIMAPredict(m)
    [] m.kind = "sarima" -> SARIMAPredict(m)
    [] m.kind = "baseline" -> BaselinePredict(m, rows, k)
    [] m.kind = "byom" -> BYOMPredict(m, rows, k)

(* How many residuals a training on n rows leaves: the rows less those     *)
(* that differencing takes and those that the longest lag needs.           *)
Residuals(m, n) ==
  LET o == m.order
      seasonal == IF m.kind = "sarima" THEN 1 ELSE 0
  IN n - o.d - seasonal * o.D * o.s - Max({o.p, seasonal * o.P * o.s})

(* Whether they are enough to replace the errors of an earlier training.   *)
ReplacesErrors(m, n) ==
  m.kind = "sarima" => Residuals(m, n) >= Max({m.order.q, m.order.s * m.order.Q})
==============================================================================
