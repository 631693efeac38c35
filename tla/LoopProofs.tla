----------------------------- MODULE LoopProofs -----------------------------
(***************************************************************************)
(* Proofs about ForecastModels and WorkloadConfig, what Train, Predict,    *)
(* validation and the factories do for all arguments; then the inductive   *)
(* invariants of Pipeline and of Backtest, and that each of their steps    *)
(* preserves them.                                                         *)
(*                                                                         *)
(* What the steps need of the planner, of the adapters and of the natural  *)
(* numbers is stated first and taken as a hypothesis.  OperatorProofs      *)
(* proves it, and PipelineProofs puts both together.                       *)
(***************************************************************************)
EXTENDS Pipeline, Backtest, TLAPS

(* Induction, for a property given as the set of numbers that have it.     *)
Inductive ==
  \A S : 0 \in S /\ (\A x \in Nat : x \in S => x + 1 \in S) => Nat \subseteq S

(* What an adapter returns is an error or says what the server said.       *)
CollectsRight ==
  \A adapter \in {"prometheus", "victoriametrics", "http"} :
    \A format : \A reply \in IF adapter = "http" THEN HTTPAnswer ELSE RangeAnswer :
      \A df \in Collect(adapter, format, reply) :
        \/ df = Failed
        \/ /\ df.ok /\ df.rows \in Seq(Sample)
           /\ SaysTheSame(df.rows, adapter, SamplesOf(adapter, format, reply))

(* A plan has one count per value and keeps the limits of its policy.      *)
PlansRight ==
  \A pol \in Policy :
    /\ 0 <= pol.MinReplicas /\ 0 < pol.MaxReplicas
    /\ 0 < pol.UpMaxFactorPerStep /\ pol.DownMaxPercentPerStep \in 0..100
    => \A prev \in pol.MinReplicas..pol.MaxReplicas, values \in Seq(Int) :
         \A quantiles : SeriesOf(quantiles) =>
           /\ Len(ToReplicas(prev, values, pol, quantiles)) = Len(values)
           /\ KeepsLimits(ToReplicas(prev, values, pol, quantiles), prev, pol)

(* One rate step from a count that n steps can reach is one that n + 1     *)
(* steps can reach.                                                        *)
RatesRight ==
  \A c \in Nat, n \in Nat, up \in Nat \ {0}, down \in 0..100 :
    StepsReach(c, up, down, n)

(* A function on 1..m is a list of length m.                               *)
LEMMA ArrayIsSeq ==
  ASSUME NEW S, NEW m \in Nat, NEW f \in [1..m -> S]
  PROVE  f \in Seq(S) /\ Len(f) = m
OBVIOUS

(* A list is a function on the positions up to its length.                 *)
LEMMA LengthFacts ==
  ASSUME NEW S, NEW list \in Seq(S)
  PROVE  /\ Len(list) \in Nat /\ DOMAIN list = 1..Len(list)
         /\ list \in [1..Len(list) -> S]
OBVIOUS

(* An element of a list.                                                   *)
LEMMA ElementFacts ==
  ASSUME NEW S, NEW list \in Seq(S), NEW j \in 1..Len(list)
  PROVE  list[j] \in S
OBVIOUS

(* The empty list is the list of length 0.                                 *)
LEMMA EmptyFacts ==
  ASSUME NEW S
  PROVE  /\ << >> \in Seq(S)
         /\ \A list \in Seq(S) : list = << >> <=> Len(list) = 0
OBVIOUS

(* Lists over a larger set.                                                *)
LEMMA WidenedFacts ==
  ASSUME NEW S, NEW T, S \subseteq T
  PROVE  Seq(S) \subseteq Seq(T)
OBVIOUS

(* One list after another.                                                 *)
LEMMA ConcatElements ==
  ASSUME NEW S, NEW a \in Seq(S), NEW b \in Seq(S)
  PROVE  /\ a \o b \in Seq(S) /\ Len(a \o b) = Len(a) + Len(b)
         /\ \A j \in 1..Len(a) + Len(b) :
              (a \o b)[j] = IF j <= Len(a) THEN a[j] ELSE b[j - Len(a)]
OBVIOUS

------------------------------------------------------------------------------
(* Lists and quotients.                                                    *)

(* A sequence, of whatever.                                                *)
IsSeq(s) == Len(s) \in Nat /\ s = [i \in 1..Len(s) |-> s[i]]

(* A list with its length is a sequence, and the other way round.          *)
LEMMA IsSeqFacts ==
  ASSUME NEW s
  PROVE  /\ IsSeq(s) => \E S : s \in Seq(S)
         /\ \A S : s \in Seq(S) => IsSeq(s)
<1>1. ASSUME IsSeq(s) PROVE \E S : s \in Seq(S)
  <2> DEFINE S == {s[i] : i \in 1..Len(s)}
  <2>1. s \in [1..Len(s) -> S] /\ Len(s) \in Nat
    BY <1>1 DEF IsSeq
  <2> HIDE DEF S
  <2>2. s \in Seq(S)
    BY <2>1, ArrayIsSeq
  <2> QED
    BY <2>2
<1>2. ASSUME NEW S, s \in Seq(S) PROVE IsSeq(s)
  <2>1. Len(s) \in Nat /\ DOMAIN s = 1..Len(s) /\ s \in [1..Len(s) -> S]
    BY <1>2, LengthFacts
  <2> QED
    BY <2>1 DEF IsSeq
<1> QED
  BY <1>1, <1>2

(* u is s with the n elements of t after it.                               *)
Appended(s, t, n, u) ==
  /\ IsSeq(u) /\ Len(u) = Len(s) + n
  /\ \A i \in 1..Len(s) : u[i] = s[i]
  /\ \A i \in 1..n : u[Len(s) + i] = t[i]

(* Appending what one window contributed.                                  *)
LEMMA ConcatFacts ==
  ASSUME NEW s, IsSeq(s), NEW n \in Nat, NEW t, t = [k \in 1..n |-> t[k]]
  PROVE  Appended(s, t, n, s \o t)
<1>1. PICK S : s \in Seq(S)
  BY IsSeqFacts
<1> DEFINE R == {t[k] : k \in 1..n}
           U == S \cup R
<1>2. t \in [1..n -> R]
  OBVIOUS
<1>3. t \in Seq(R) /\ Len(t) = n
  <2> HIDE DEF R
  <2> QED
    BY <1>2, ArrayIsSeq
<1>4. S \subseteq U /\ R \subseteq U
  OBVIOUS
<1> HIDE DEF R, U
<1>5. s \in Seq(U) /\ t \in Seq(U)
  BY <1>1, <1>3, <1>4, WidenedFacts
<1>6. /\ s \o t \in Seq(U) /\ Len(s \o t) = Len(s) + Len(t)
      /\ \A i \in 1..Len(s) + Len(t) :
           (s \o t)[i] = IF i <= Len(s) THEN s[i] ELSE t[i - Len(s)]
  BY <1>5, ConcatElements
<1>7. Len(s) \in Nat
  BY <1>1, LengthFacts
<1> DEFINE c == s \o t
           m == Len(s)
<1>8. /\ m \in Nat
      /\ \A i \in 1..m + n : c[i] = IF i <= m THEN s[i] ELSE t[i - m]
  BY <1>3, <1>6, <1>7
<1> HIDE DEF c, m
<1>9. ASSUME NEW i \in 1..m PROVE c[i] = s[i]
  <2>1. i \in 1..m + n /\ i <= m
    BY <1>8
  <2> QED
    BY <1>8, <2>1, Zenon
<1>10. ASSUME NEW i \in 1..n PROVE c[m + i] = t[i]
  <2>1. m + i \in 1..m + n /\ ~(m + i <= m) /\ (m + i) - m = i
    BY <1>8
  <2>2. c[m + i] = t[(m + i) - m]
    BY <1>8, <2>1, Zenon
  <2> QED
    BY <2>1, <2>2
<1>11. IsSeq(c) /\ Len(c) = m + n
  BY Zenon, <1>3, <1>6, IsSeqFacts DEF c, m
<1> QED
  BY <1>9, <1>10, <1>11 DEF c, m, Appended

(* A quotient from its bounds.                                             *)
LEMMA DivUnique ==
  ASSUME NEW d \in Int, NEW s \in Nat \ {0}, NEW c \in Int,
         (c - 1) * s <= d, d < c * s
  PROVE  d \div s + 1 = c
<1>1. d = s * (d \div s) + (d % s) /\ d \div s \in Int /\ d % s \in 0..s - 1
  OBVIOUS
<1> DEFINE q == d \div s
<1>2. q \in Int /\ s * q <= d /\ d < s * q + s
  BY <1>1
<1> HIDE DEF q
<1>3. (c - 1) * s = s * c - s /\ c * s = s * c
  OBVIOUS
<1>4. s * c - s < s * q + s /\ s * q < s * c
  BY <1>2, <1>3
<1>5. \A x, y \in Int : s * x < s * y => x < y
  <2> SUFFICES ASSUME NEW x \in Int, NEW y \in Int, s * x < s * y, ~(x < y)
               PROVE  FALSE
    OBVIOUS
  <2>1. x - y \in Nat /\ s * x = s * y + s * (x - y)
    OBVIOUS
  <2>2. s * (x - y) \in Nat
    BY <2>1
  <2> QED
    BY <2>1, <2>2
<1>6. s * (c - 1) < s * (q + 1)
  BY <1>2, <1>4
<1>7. c - 1 < q + 1 /\ q < c
  BY <1>2, <1>4, <1>5, <1>6
<1> QED
  BY <1>2, <1>7 DEF q

(* How a quotient fits into its dividend.                                  *)
LEMMA DivBounds ==
  ASSUME NEW h \in Nat, NEW s \in Nat \ {0}
  PROVE  /\ (h \div s) * s <= h
         /\ h < (h \div s + 1) * s
<1>1. h = s * (h \div s) + (h % s) /\ h \div s \in Int /\ h % s \in 0..s - 1
  OBVIOUS
<1> DEFINE q == h \div s
<1>2. q * s = s * q /\ (q + 1) * s = s * q + s
  BY <1>1
<1> HIDE DEF q
<1> QED
  BY <1>1, <1>2 DEF q

------------------------------------------------------------------------------
(* The forecast models.                                                    *)

(* What the constructors of ARIMA and SARIMA guarantee of the orders.      *)
OrderOK(kind, o) ==
  /\ o \in Orders
  /\ kind \in {"arima", "sarima"} => o.p >= 1 /\ o.d \in 1..2 /\ o.q >= 1
  /\ kind = "sarima" =>
       /\ o.D \in 0..1 /\ o.P >= 0 /\ o.Q >= 0
       /\ o.P > 0 \/ o.D > 0 \/ o.Q > 0 => o.s > 0

(* A model has the fields of Untrained.                                    *)
IsModel(m) == DOMAIN m = DOMAIN Untrained("none", 0, 0, 0)

InRange(m) == IF m.kind = "arima" THEN ARIMAInRange(m) ELSE SARIMAInRange(m)

(* What Train returns from the rows of tick k, n of them: an error and the *)
(* model as it was, or a model of the same configuration.  An ARIMA or     *)
(* SARIMA model then continues the rows of tick k, has its errors from     *)
(* them if they were enough, and can be asked for a prediction unless      *)
(* there was no residual.                                                  *)
TrainResult(m, r, n, k) ==
  \/ r.err /\ r.model = m
  \/ /\ ~r.err /\ IsModel(r.model)
     /\ r.model.kind = m.kind /\ r.model.order = m.order
     /\ r.model.stepSec = m.stepSec /\ r.model.horizonSec = m.horizonSec
     /\ m.kind \in {"arima", "sarima"} =>
          /\ r.model.trained /\ r.model.lastValues.from = k
          /\ r.model.lastValues.last \in Int
          /\ r.model.lastErrors.from
               = IF ReplacesErrors(m, n) THEN k ELSE m.lastErrors.from
          /\ InRange(r.model) \/ Residuals(r.model, n) <= 0

(* Max of a set that has a largest element.                                *)
HasMax(S) == S \subseteq Int /\ \E x \in S : \A y \in S : x >= y

(* Max of such a set is its largest element.                               *)
LEMMA MaxFacts ==
  ASSUME NEW S, HasMax(S)
  PROVE  Max(S) \in S /\ Max(S) \in Int /\ \A y \in S : Max(S) >= y
BY Zenon DEF HasMax, Max

(* One more number leaves the set with a largest one.                      *)
LEMMA HasMaxAdd ==
  ASSUME NEW S, HasMax(S), NEW a \in Int
  PROVE  HasMax(S \cup {a})
<1>1. PICK x \in S : \A y \in S : x >= y
  BY DEF HasMax
<1>2. CASE x >= a
  BY <1>1, <1>2 DEF HasMax
<1>3. CASE ~(x >= a)
  <2>1. \A y \in S \cup {a} : a >= y
    BY <1>1, <1>3 DEF HasMax
  <2> QED
    BY <2>1 DEF HasMax
<1> QED
  BY <1>2, <1>3

(* Max of a pair, which is how the code writes it.                         *)
LEMMA MaxTwo ==
  ASSUME NEW a \in Int, NEW b \in Int
  PROVE  Max({a, b}) = IF a >= b THEN a ELSE b
<1>1. HasMax({a, b})
  BY DEF HasMax
<1>2. Max({a, b}) \in {a, b} /\ Max({a, b}) >= a /\ Max({a, b}) >= b
  BY <1>1, MaxFacts
<1> QED
  BY <1>2

(* Train of ARIMA (arima.go:86): whatever the length of the history, it    *)
(* fails and leaves the model alone or the model continues these rows.     *)
LEMMA ARIMATrainFacts ==
  ASSUME NEW m, IsModel(m), m.kind = "arima", OrderOK("arima", m.order),
         NEW rows, Len(rows) \in Nat, rows[Len(rows)].value \in Int, NEW k,
         NEW r \in ARIMATrain(m, rows, k)
  PROVE  TrainResult(m, r, Len(rows), k)
<1> DEFINE o == m.order
           len == Len(rows)
           residuals == computeResiduals(difference(len, o.d), o.p)
<1>1. o.p \in Nat /\ o.q \in Nat /\ o.d \in Nat /\ o.p >= 1 /\ len \in Int
  BY DEF OrderOK, Orders
<1>2. CASE r \in TrainError(m)
  BY <1>2 DEF TrainError, TrainResult
<1>3. CASE r \notin TrainError(m)
  <2>1. PICK dev \in Deviations(residuals) :
          r = [err |-> FALSE,
               model |-> [m EXCEPT !.trained = TRUE,
                         !.ar = fitAR(len, o.p), !.ma = fitMA(residuals, o.q),
                         !.lastValues = [len |-> o.p, from |-> k,
                                         last |-> rows[len].value],
                         !.lastErrors = [len |-> o.q, from |-> k],
                         !.residualStdDev = dev]]
    BY Zenon, <1>3 DEF ARIMATrain
  <2>2. /\ ~r.err /\ IsModel(r.model) /\ r.model.trained
        /\ r.model.kind = m.kind /\ r.model.order = o
        /\ r.model.stepSec = m.stepSec /\ r.model.horizonSec = m.horizonSec
        /\ r.model.ar = o.p /\ r.model.ma = fitMA(residuals, o.q)
        /\ r.model.lastValues
             = [len |-> o.p, from |-> k, last |-> rows[len].value]
        /\ r.model.lastErrors = [len |-> o.q, from |-> k]
    BY ZenonT(30), <2>1 DEF IsModel, Untrained, fitAR
  <2>5. /\ r.model.lastValues.from = k /\ r.model.lastValues.last \in Int
        /\ r.model.lastErrors.from = k /\ ReplacesErrors(m, len)
    BY <2>2 DEF ReplacesErrors
  <2>3. CASE residuals # 0
    <3>1. r.model.ma = o.q
      BY SMTT(30), <2>2, <2>3 DEF fitMA
    <3>2. InRange(r.model)
      BY SMTT(30), <1>1, <2>2, <3>1 DEF InRange, ARIMAInRange
    <3> QED
      BY Zenon, <2>2, <2>5, <3>2 DEF TrainResult
  <2>4. CASE residuals = 0
    <3>1. len - o.d <= o.p
      BY SMTT(30), <1>1, <2>4 DEF computeResiduals, difference
    <3>2. 0 * o.D * o.s = 0 /\ 0 * o.P * o.s = 0
      BY DEF OrderOK, Orders
    <3>3. Residuals(r.model, len) = len - o.d - 0 - Max({o.p, 0})
      BY Zenon, <2>2, <3>2 DEF Residuals
    <3>4. Max({o.p, 0}) = o.p
      BY <1>1, MaxTwo
    <3> HIDE DEF len, o
    <3>5. Residuals(r.model, len) <= 0
      BY <1>1, <3>1, <3>3, <3>4
    <3> QED
      BY Zenon, <2>2, <2>5, <3>5 DEF TrainResult, len, o
  <2> QED
    BY SMTT(30), <2>3, <2>4
<1> QED
  BY <1>2, <1>3

(* The least number of rows SARIMA trains on is at least each of these.    *)
LEMMA SARIMAMinPointsFacts ==
  ASSUME NEW o, OrderOK("sarima", o), NEW n \in Nat, ~(n < SARIMAMinPoints(o))
  PROVE  /\ n >= o.p + o.d /\ n >= 20
         /\ o.s > 0 => n >= o.s * (o.P + o.D)
         /\ o.s > 0 /\ o.D > 0 => n >= 2 * o.s
<1> DEFINE x == o.s * (o.P + o.D)
           y == o.s * (o.Q + o.D)
           z == 2 * o.s
           A == {o.p + o.d, o.q + o.d, 20}
<1>1. /\ o.p + o.d \in Int /\ o.q + o.d \in Int /\ x \in Int /\ y \in Int /\ z \in Int
      /\ o.s \in Int /\ o.D \in Int
  BY DEF OrderOK, Orders
<1>2. HasMax(A)
  <2>1. HasMax({20})
    BY DEF HasMax
  <2>2. HasMax({20} \cup {o.q + o.d})
    BY <1>1, <2>1, HasMaxAdd
  <2>3. HasMax({20} \cup {o.q + o.d} \cup {o.p + o.d})
    BY <1>1, <2>2, HasMaxAdd
  <2>4. {20} \cup {o.q + o.d} \cup {o.p + o.d} = A
    OBVIOUS
  <2> QED
    BY <2>3, <2>4
<1>3. CASE ~(o.s > 0)
  <2>1. o.s <= 0
    BY <1>1, <1>3
  <2>2. SARIMAMinPoints(o) = Max(A \cup {} \cup {})
    BY <1>3, <2>1 DEF SARIMAMinPoints
  <2>3. A \cup {} \cup {} = A
    OBVIOUS
  <2>4. o.p + o.d \in A /\ 20 \in A
    OBVIOUS
  <2> HIDE DEF A
  <2>5. Max(A) \in Int /\ Max(A) >= o.p + o.d /\ Max(A) >= 20
    BY <1>2, <2>4, MaxFacts
  <2>6. SARIMAMinPoints(o) = Max(A)
    BY <2>2, <2>3
  <2> QED
    BY <1>1, <1>3, <2>5, <2>6
<1>4. CASE o.s > 0
  <2> DEFINE B == A \cup {x} \cup {y}
             C == B \cup {z}
  <2>1. HasMax(A \cup {x})
    BY <1>1, <1>2, HasMaxAdd
  <2>2. HasMax(B)
    BY <1>1, <2>1, HasMaxAdd
  <2>3. HasMax(C)
    BY Zenon, <1>1, <2>2, HasMaxAdd
  <2> HIDE DEF x, y, z
  <2>4. SARIMAMinPoints(o) = IF o.D > 0 \/ o.P > 0 \/ o.Q > 0 THEN Max(C) ELSE Max(B)
    <3>1. ~(o.s <= 0)
      BY <1>1, <1>4
    <3>2. A \cup {x, y} = B
      OBVIOUS
    <3>3. SARIMAMinPoints(o) = Max(A \cup {x, y}
             \cup (IF o.D > 0 \/ o.P > 0 \/ o.Q > 0 THEN {z} ELSE {}))
      BY <1>4, <3>1 DEF SARIMAMinPoints, x, y, z
    <3> QED
      BY <3>2, <3>3
  <2>5. o.p + o.d \in B /\ 20 \in B /\ x \in B /\ B \subseteq C /\ z \in C
    OBVIOUS
  <2> HIDE DEF B, C
  <2>6. CASE o.D > 0 \/ o.P > 0 \/ o.Q > 0
    <3>1. Max(C) \in Int /\ \A c \in C : Max(C) >= c
      BY <2>3, MaxFacts
    <3>2. SARIMAMinPoints(o) = Max(C)
      BY <2>4, <2>6
    <3> QED
      BY <1>1, <2>5, <3>1, <3>2 DEF x, z
  <2>7. CASE ~(o.D > 0 \/ o.P > 0 \/ o.Q > 0)
    <3>1. Max(B) \in Int /\ \A c \in B : Max(B) >= c
      BY <2>2, MaxFacts
    <3>2. SARIMAMinPoints(o) = Max(B)
      BY Zenon, <2>4, <2>7
    <3> QED
      BY <1>1, <2>5, <2>7, <3>1, <3>2 DEF x, z
  <2> QED
    BY <2>6, <2>7
<1> QED
  BY <1>3, <1>4
(* The two seasonal products, by what the orders allow.                    *)
LEMMA SeasonalFacts ==
  ASSUME NEW o, OrderOK("sarima", o)
  PROVE  /\ o.p \in Nat \ {0} /\ o.q \in Nat \ {0} /\ o.d \in 1..2 /\ o.D \in 0..1
         /\ o.P \in Nat /\ o.Q \in Nat /\ o.s \in Int
         /\ o.s * o.P \in Nat /\ o.P * o.s = o.s * o.P /\ 1 * o.P * o.s = o.s * o.P
         /\ o.s > 0 => o.s * o.P <= o.s * (o.P + o.D)
         /\ ~(o.s > 0) => o.P = 0 /\ o.Q = 0 /\ o.D = 0 /\ o.s * o.P = 0
         /\ 1 * o.D * o.s = IF o.D = 0 THEN 0 ELSE o.s
<1>1. /\ o.p \in Nat \ {0} /\ o.q \in Nat \ {0} /\ o.d \in 1..2 /\ o.D \in 0..1
      /\ o.P \in Nat /\ o.Q \in Nat /\ o.s \in Int
      /\ o.P > 0 \/ o.D > 0 \/ o.Q > 0 => o.s > 0
  BY DEF OrderOK, Orders
<1>2. \A s, P \in Int : P * s = s * P /\ 1 * P * s = s * P
  OBVIOUS
<1>3. \A s, P \in Nat, D \in 0..1 : s * P \in Nat /\ s * P <= s * (P + D)
  <2>1. \A s, P \in Nat : s * P \in Nat /\ s * (P + 0) = s * P /\ s * (P + 1) = s * P + s
    OBVIOUS
  <2> QED
    BY <2>1
<1>4. o.D = 0 \/ o.D = 1
  BY <1>1
<1>5. 1 * o.D * o.s = IF o.D = 0 THEN 0 ELSE o.s
  BY <1>1, <1>4
<1>6. CASE o.s > 0
  BY <1>1, <1>2, <1>3, <1>5, <1>6
<1>7. CASE ~(o.s > 0)
  <2>1. o.P = 0 /\ o.Q = 0 /\ o.D = 0
    BY <1>1, <1>7
  <2>2. o.s * o.P = 0
    BY <1>1, <2>1
  <2> QED
    BY <1>1, <1>2, <1>5, <1>7, <2>1, <2>2
<1> QED
  BY <1>6, <1>7

(* A history that both differences leave something of.                     *)
LongEnough(len, d, D, s) ==
  /\ d \in 1..2 /\ D \in 0..1 /\ s \in Int /\ len \in Nat /\ len >= 20
  /\ s > 0 /\ D > 0 => len >= 2 * s
  /\ ~(s > 0) => D = 0

(* How long SARIMA's series is after both differences.                     *)
LEMMA SARIMAHistory ==
  ASSUME NEW len, NEW d, NEW D, NEW s, LongEnough(len, d, D, s)
  PROVE  seasonalDifference(difference(len, d), D, s)
           = len - d - (IF D = 0 THEN 0 ELSE s)
<1> USE DEF LongEnough
<1>1. CASE D = 0
  BY <1>1 DEF seasonalDifference, difference
<1>2. CASE D = 1
  <2>1. s > 0 /\ ~(len - d <= s)
    BY <1>2
  <2> QED
    BY <1>2, <2>1 DEF seasonalDifference, difference
<1> QED
  BY <1>1, <1>2

(* The residuals of a series that is too short for them.                   *)
LEMMA NoResiduals ==
  ASSUME NEW n \in Int, NEW p, NEW P, NEW s, Max({p, P * s}) \in Int,
         computeSeasonalResiduals(n, p, P, s) = 0
  PROVE  n <= Max({p, P * s})
<1> DEFINE start == Max({p, P * s})
<1>1. (IF n <= start THEN 0 ELSE n - start) = 0
  BY DEF computeSeasonalResiduals
<1>2. start \in Int
  OBVIOUS
<1> HIDE DEF start
<1>3. n <= start
  BY <1>1, <1>2
<1> QED
  BY <1>3 DEF start

(* A trained SARIMA model has a coefficient for every index that Predict   *)
(* reads.                                                                  *)
LEMMA SARIMACoefficients ==
  ASSUME NEW m, m.kind = "sarima", m.order.P \in Nat, m.order.Q \in Nat,
         ~(m.order.s > 0) => m.order.P = 0 /\ m.order.Q = 0, m.order.s \in Int,
         m.order.p \in Nat, m.order.q \in Nat, NEW n, NEW residuals, residuals # 0,
         m.ar = m.order.p, m.ma = fitMA(residuals, m.order.q),
         m.sar = fitSeasonalAR(n, m.order.P, m.order.s),
         m.sma = fitSeasonalMA(residuals, m.order.Q, m.order.s)
  PROVE  InRange(m)
<1>1. m.ma = m.order.q
  BY DEF fitMA
<1>2. m.order.P > 0 => m.sar = m.order.P
  BY DEF fitSeasonalAR
<1>3. m.order.Q > 0 => m.sma = m.order.Q
  BY DEF fitSeasonalMA
<1>4. ARIMAInRange(m)
  BY <1>1 DEF ARIMAInRange
<1>5. \A i \in 0..m.order.P - 1 : i < m.sar
  BY <1>2
<1>6. \A i \in 0..m.order.Q - 1 : i < m.sma
  BY <1>3
<1> QED
  BY Zenon, <1>4, <1>5, <1>6 DEF SARIMAInRange, InRange

(* Train of SARIMA (sarima.go), as for ARIMA; the seasonal differences     *)
(* make the history shorter.                                               *)
LEMMA SARIMATrainFacts ==
  ASSUME NEW m, IsModel(m), m.kind = "sarima", OrderOK("sarima", m.order),
         NEW rows, Len(rows) \in Nat, rows[Len(rows)].value \in Int, NEW k,
         NEW r \in SARIMATrain(m, rows, k)
  PROVE  TrainResult(m, r, Len(rows), k)
<1> DEFINE o == m.order
           len == Len(rows)
           centered == seasonalDifference(difference(len, o.d), o.D, o.s)
           residuals == computeSeasonalResiduals(centered, o.p, o.P, o.s)
           b == o.s * o.P
           need == Max({o.p, b})
           errors == Max({o.q, o.s * o.Q})
           newValues == [len |-> need, from |-> k, last |-> rows[len].value]
           newErrors == [len |-> errors, from |-> k]
<1>1. /\ o.p \in Nat \ {0} /\ o.q \in Nat \ {0} /\ o.d \in 1..2 /\ o.D \in 0..1
      /\ o.P \in Nat /\ o.Q \in Nat /\ o.s \in Int
      /\ o.s * o.P \in Nat /\ o.P * o.s = o.s * o.P /\ 1 * o.P * o.s = o.s * o.P
      /\ o.s > 0 => o.s * o.P <= o.s * (o.P + o.D)
      /\ ~(o.s > 0) => o.P = 0 /\ o.Q = 0 /\ o.D = 0 /\ o.s * o.P = 0
      /\ 1 * o.D * o.s = IF o.D = 0 THEN 0 ELSE o.s
  BY Zenon, SeasonalFacts
<1>2. CASE r \in TrainError(m)
  BY <1>2 DEF TrainError, TrainResult
<1>3. CASE r \notin TrainError(m)
  <2>1. PICK dev \in Deviations(residuals) :
          r = [err |-> FALSE,
               model |-> [m EXCEPT !.trained = TRUE,
                         !.ar = fitAR(centered, o.p),
                         !.sar = fitSeasonalAR(centered, o.P, o.s),
                         !.ma = fitMA(residuals, o.q),
                         !.sma = fitSeasonalMA(residuals, o.Q, o.s),
                         !.lastValues = Kept(@, need, len, newValues),
                         !.lastErrors = Kept(@, errors, residuals, newErrors),
                         !.residualStdDev = dev]]
    BY Zenon, <1>3 DEF SARIMATrain
  <2>2. ~(len < SARIMAMinPoints(o))
    BY ZenonT(30), <1>3 DEF SARIMATrain
  <2>3. /\ len >= o.p + o.d /\ len >= 20
        /\ o.s > 0 => len >= o.s * (o.P + o.D)
        /\ o.s > 0 /\ o.D > 0 => len >= 2 * o.s
    BY <2>2, SARIMAMinPointsFacts
  <2>4. /\ ~r.err /\ IsModel(r.model) /\ r.model.trained
        /\ r.model.kind = m.kind /\ r.model.order = o
        /\ r.model.stepSec = m.stepSec /\ r.model.horizonSec = m.horizonSec
        /\ r.model.ar = o.p /\ r.model.ma = fitMA(residuals, o.q)
        /\ r.model.sar = fitSeasonalAR(centered, o.P, o.s)
        /\ r.model.sma = fitSeasonalMA(residuals, o.Q, o.s)
        /\ r.model.lastValues = Kept(m.lastValues, need, len, newValues)
        /\ r.model.lastErrors = Kept(m.lastErrors, errors, residuals, newErrors)
    <3> HIDE DEF newValues, newErrors
    <3> QED
      BY ZenonT(30), <2>1 DEF IsModel, Untrained, fitAR
  <2>5. b \in Nat /\ b <= len /\ o.P * o.s = b /\ 1 * o.P * o.s = b
    <3> DEFINE c == o.s * (o.P + o.D)
    <3>1. /\ b \in Nat /\ o.s \in Int /\ o.P * o.s = b /\ 1 * o.P * o.s = b
          /\ (o.s > 0 => b <= c /\ len >= c) /\ (~(o.s > 0) => b = 0)
      BY ZenonT(30), <1>1, <2>3
    <3>2. c \in Int /\ len \in Nat
      BY <1>1
    <3> HIDE DEF b, c, len
    <3> QED
      BY <3>1, <3>2
  <2> HIDE DEF o, len, b, centered, residuals, need, errors
  <2>6. /\ need \in Int /\ need > 0 /\ need <= len
        /\ centered = len - o.d - (IF o.D = 0 THEN 0 ELSE o.s)
    <3>1. /\ o.p \in Nat \ {0} /\ o.d \in 1..2 /\ o.D \in 0..1 /\ o.s \in Int
          /\ ~(o.s > 0) => o.D = 0
      BY Zenon, <1>1
    <3>2. len \in Nat
      BY DEF len
    <3>3. need = IF o.p >= b THEN o.p ELSE b
      BY <2>5, <3>1, MaxTwo DEF need
    <3>4. centered = len - o.d - (IF o.D = 0 THEN 0 ELSE o.s)
      <4>1. LongEnough(len, o.d, o.D, o.s)
        BY <2>3, <3>1, <3>2 DEF LongEnough
      <4> QED
        BY <4>1, SARIMAHistory DEF centered
    <3> QED
      BY <2>3, <2>5, <3>1, <3>2, <3>3, <3>4
  <2>7. r.model.lastValues.from = k /\ r.model.lastValues.last \in Int
    <3>1. r.model.lastValues = newValues
      BY <2>4, <2>6 DEF Kept
    <3> QED
      BY <3>1 DEF len
  <2>10. /\ Max({o.p, o.P * o.s}) = need /\ Max({o.p, 1 * o.P * o.s}) = need
         /\ centered \in Int
    <3>1. Max({o.p, o.P * o.s}) = need /\ Max({o.p, 1 * o.P * o.s}) = need
      BY ZenonT(30), <2>5 DEF need
    <3> QED
      BY <1>1, <2>6, <3>1 DEF len
  <2>11. Residuals(r.model, len) = centered - need /\ Residuals(m, len) = centered - need
    <3>1. /\ Residuals(r.model, len)
                = len - o.d - 1 * o.D * o.s - Max({o.p, 1 * o.P * o.s})
          /\ Residuals(m, len)
                = len - o.d - 1 * o.D * o.s - Max({o.p, 1 * o.P * o.s})
      BY Zenon, <2>4 DEF Residuals, o
    <3> QED
      BY <1>1, <2>6, <2>10, <3>1 DEF len
  <2>12. r.model.lastErrors.from
           = IF ReplacesErrors(m, len) THEN k ELSE m.lastErrors.from
    <3>1. residuals = IF centered <= need THEN 0 ELSE centered - need
      BY Zenon, <2>10 DEF residuals, computeSeasonalResiduals
    <3>2. o.s * o.Q \in Int
      BY <1>1
    <3>3. errors \in Int /\ errors > 0
      <4> DEFINE y == o.s * o.Q
      <4>1. o.q \in Nat \ {0} /\ y \in Int
        BY Zenon, <1>1, <3>2
      <4> HIDE DEF y
      <4>2. Max({o.q, y}) = IF o.q >= y THEN o.q ELSE y
        BY <4>1, MaxTwo
      <4>3. Max({o.q, y}) \in Int /\ Max({o.q, y}) > 0
        BY <4>1, <4>2
      <4> QED
        BY Zenon, <4>3 DEF errors, y
    <3>4. errors > 0 /\ errors <= residuals <=> centered - need >= errors
      BY <2>6, <2>10, <3>1, <3>3
    <3>5. ReplacesErrors(m, len) <=> centered - need >= errors
      BY Zenon, <2>11 DEF ReplacesErrors, errors, o
    <3>6. newErrors.from = k
      OBVIOUS
    <3> HIDE DEF newErrors
    <3> QED
      BY Zenon, <2>4, <3>4, <3>5, <3>6 DEF Kept
  <2>8. CASE residuals # 0
    <3>1. InRange(r.model)
      BY Zenon, <1>1, <2>4, <2>8, SARIMACoefficients
    <3> QED
      BY ZenonT(30), <2>4, <2>7, <2>12, <3>1 DEF TrainResult, len, o
  <2>9. CASE residuals = 0
    <3>1. centered <= need
      BY <2>6, <2>9, <2>10, NoResiduals DEF residuals
    <3>2. Residuals(r.model, len) <= 0
      BY <2>6, <2>10, <2>11, <3>1
    <3> QED
      BY Zenon, <2>4, <2>7, <2>12, <3>2 DEF TrainResult, len, o
  <2> QED
    BY <2>8, <2>9
<1> QED
  BY <1>2, <1>3

(* The same for every model.                                               *)
LEMMA TrainFacts ==
  ASSUME NEW m, IsModel(m), m.kind \in {"baseline", "arima", "sarima", "byom"},
         OrderOK(m.kind, m.order), NEW rows, Len(rows) \in Nat,
         rows[Len(rows)].value \in Int, NEW k, NEW r \in Train(m, rows, k)
  PROVE  TrainResult(m, r, Len(rows), k)
<1>1. CASE m.kind = "arima"
  <2>1. r \in ARIMATrain(m, rows, k)
    BY <1>1 DEF Train
  <2> QED
    BY <1>1, <2>1, ARIMATrainFacts
<1>2. CASE m.kind = "sarima"
  <2>1. r \in SARIMATrain(m, rows, k)
    BY <1>2 DEF Train
  <2> QED
    BY <1>2, <2>1, SARIMATrainFacts
<1>3. CASE m.kind = "baseline"
  <2>1. r \in BaselineTrain(m, rows, k)
    BY <1>3 DEF Train
  <2> DEFINE minute == Learn(m.minuteSeasonality, rows, "minute", k)
             hour == Learn(m.hourSeasonality, rows, "hour", k)
             spread == \/ \E b \in DOMAIN minute : minute[b].stddev
                       \/ \E b \in DOMAIN hour : hour[b].stddev
                       \/ \E i, j \in DOMAIN rows : rows[i].value # rows[j].value
  <2>2. r = [err |-> FALSE,
             model |-> [m EXCEPT !.minuteSeasonality = minute,
                          !.hourSeasonality = hour, !.residualStdDev = spread]]
    BY <2>1, Zenon DEF BaselineTrain
  <2> HIDE DEF minute, hour, spread
  <2> QED
    BY Zenon, <1>3, <2>2 DEF TrainResult, IsModel, Untrained
<1>4. CASE m.kind = "byom"
  <2>1. r = [err |-> FALSE, model |-> m]
    BY <1>4 DEF Train
  <2> QED
    BY <1>4, <2>1 DEF TrainResult
<1> QED
  BY Zenon, <1>1, <1>2, <1>3, <1>4
(* A forecast of the model: its values fill the horizon, and it continues  *)
(* the last training or the rows of tick k.                                *)
Forecasts(m, f, rows, k) ==
  /\ m.stepSec > 0
  /\ f.values \in Seq(Int) /\ Len(f.values) = m.horizonSec \div m.stepSec
  /\ Len(f.values) >= 1
  /\ SeriesOf(f.quantiles)
  /\ f.base = IF m.kind \in {"arima", "sarima"} THEN m.lastValues.from ELSE k
  /\ m.kind \in {"arima", "sarima"} => f.errors = m.lastErrors.from
  /\ f.seasons # << >> =>
       f.seasons = [i \in 1..Steps(m) |-> Season(m, rows[Len(rows)], i)]

(* What Predict returns.                                                   *)
PredictResult(m, r, rows, k) ==
  \/ /\ r.kind = "error"
     /\ m.kind \in {"arima", "sarima"} => ~m.trained
  \/ /\ r.kind = "panic"
     /\ m.kind \in {"arima", "sarima"} => m.trained /\ ~InRange(m)
  \/ /\ r.kind = "ok" /\ Forecasts(m, r.forecast, rows, k)
     /\ m.kind \in {"arima", "sarima"} => m.trained /\ InRange(m)

(* One series per quantile level.                                          *)
LEMMA QuantilesFacts ==
  ASSUME NEW m, NEW n \in Nat, NEW v \in [1..n -> Int]
  PROVE  SeriesOf(Quantiles(m, v))
<1>1. CASE ~m.residualStdDev
  <2>1. Quantiles(m, v) = << >>
    BY <1>1 DEF Quantiles
  <2> QED
    BY <2>1 DEF SeriesOf
<1>2. CASE m.residualStdDev
  <2> DEFINE z == [level \in {50, 75, 90, 95} |->
                     CASE level = 50 -> 0 [] level = 75 -> 1
                       [] level = 90 -> 2 [] level = 95 -> 3]
  <2>1. DOMAIN z = {50, 75, 90, 95} /\ \A level \in DOMAIN z : z[level] \in Int
    OBVIOUS
  <2>2. Quantiles(m, v)
          = [level \in DOMAIN z |-> [i \in DOMAIN v |-> Max({0, v[i] + z[level]})]]
    BY <1>2 DEF Quantiles
  <2> HIDE DEF z
  <2>3. ASSUME NEW level \in DOMAIN z
        PROVE  [i \in DOMAIN v |-> Max({0, v[i] + z[level]})] \in Seq(Int)
    <3>1. \A i \in 1..n : v[i] + z[level] \in Int
      BY <2>1
    <3>2. \A x \in Int : Max({0, x}) \in Int
      BY MaxTwo
    <3>3. [i \in DOMAIN v |-> Max({0, v[i] + z[level]})] \in [1..n -> Int]
      BY Zenon, <3>1, <3>2
    <3> QED
      BY Zenon, <3>3, ArrayIsSeq
  <2> QED
    BY <2>2, <2>3 DEF SeriesOf
<1> QED
  BY <1>1, <1>2

(* The number of steps in a horizon.                                       *)
LEMMA StepsFacts ==
  ASSUME NEW m, m.stepSec \in Nat \ {0}, m.horizonSec \in Nat,
         m.stepSec <= m.horizonSec
  PROVE  /\ m.horizonSec \div m.stepSec \in Nat
         /\ m.horizonSec \div m.stepSec >= 1
         /\ Steps(m) = m.horizonSec \div m.stepSec
<1> DEFINE q == m.horizonSec \div m.stepSec
<1>1. \A h \in Nat, s \in Nat \ {0} : s <= h => h \div s \in Nat /\ h \div s >= 1
  OBVIOUS
<1>2. q \in Nat /\ q >= 1
  BY <1>1
<1>3. Max({1, q}) = q
  <2> HIDE DEF q
  <2> QED
    BY <1>2, MaxTwo
<1> QED
  BY <1>2, <1>3 DEF Steps

(* Min of a pair.                                                          *)
LEMMA MinTwo ==
  ASSUME NEW a \in Int, NEW b \in Int
  PROVE  Min({a, b}) = IF a <= b THEN a ELSE b
<1>1. \E x \in {a, b} : \A y \in {a, b} : x <= y
  OBVIOUS
<1>2. Min({a, b}) \in {a, b} /\ Min({a, b}) <= a /\ Min({a, b}) <= b
  BY Zenon, <1>1 DEF Min
<1> QED
  BY <1>2

(* A model whose steps fit its horizon, and that continues a number.       *)
Predictable(m) ==
  /\ m.kind \in {"baseline", "arima", "sarima", "byom"}
  /\ m.stepSec \in Nat /\ m.horizonSec \in Nat /\ m.stepSec <= m.horizonSec
  /\ m.kind \in {"arima", "sarima"} =>
       m.stepSec > 0 /\ (m.trained => m.lastValues.last \in Int)

(* Predict of each of the four models: an error only of an untrained       *)
(* model, a panic only out of range, and otherwise a forecast for the      *)
(* rows.                                                                   *)
LEMMA PredictFacts ==
  ASSUME NEW m, Predictable(m), NEW rows, NEW k, NEW r \in Predict(m, rows, k)
  PROVE  PredictResult(m, r, rows, k)
<1> USE LoadsAssumption DEF Predictable
<1> DEFINE Values == [1..Steps(m) -> Loads]
<1>1. ASSUME m.stepSec > 0, NEW v \in [1..Steps(m) -> Int]
      PROVE  /\ v \in Seq(Int) /\ Len(v) = m.horizonSec \div m.stepSec
             /\ Len(v) >= 1 /\ SeriesOf(Quantiles(m, v))
  <2>1. /\ m.horizonSec \div m.stepSec \in Nat /\ m.horizonSec \div m.stepSec >= 1
        /\ Steps(m) = m.horizonSec \div m.stepSec
    BY <1>1, StepsFacts
  <2>2. Steps(m) \in Nat
    BY Zenon, <2>1
  <2> QED
    BY Zenon, <2>1, <2>2, ArrayIsSeq, QuantilesFacts
<1>2. ASSUME m.kind \in {"arima", "sarima"}, m.trained, InRange(m),
             r \in Continue(m)
      PROVE  PredictResult(m, r, rows, k)
  <2> DEFINE cap == 2 * m.lastValues.last + 100
             cut(v) == [i \in DOMAIN v |-> Min({v[i], cap})]
  <2>1. PICK v \in Values :
          r = Predicted(cut(v), Quantiles(m, cut(v)), m.lastValues.from,
                        m.lastErrors.from, << >>)
    BY Zenon, <1>2 DEF Continue
  <2>3. cap \in Int
    BY <1>2
  <2> HIDE DEF cap
  <2>4. \A x \in Int : Min({x, cap}) \in Int
    BY <2>3, MinTwo
  <2>5. cut(v) \in [1..Steps(m) -> Int]
    <3>1. Loads \subseteq Int
      OBVIOUS
    <3> QED
      BY Zenon, <2>4, <3>1
  <2>2. r.kind = "ok" /\ Forecasts(m, r.forecast, rows, k)
    <3> HIDE DEF cut
    <3> QED
      BY Zenon, <1>1, <1>2, <2>1, <2>5 DEF Predicted, Forecasts
  <2> QED
    BY <1>2, <2>2 DEF PredictResult
<1>3. CASE m.kind = "arima"
  <2>1. r \in ARIMAPredict(m)
    BY <1>3 DEF Predict
  <2>2. \/ ~m.trained /\ r = PredictError
        \/ m.trained /\ ~InRange(m) /\ r = PredictPanic
        \/ m.trained /\ InRange(m) /\ r \in Continue(m)
    BY Zenon, <1>3, <2>1 DEF ARIMAPredict, InRange
  <2> QED
    BY <1>2, <1>3, <2>2 DEF PredictError, PredictPanic, PredictResult
<1>4. CASE m.kind = "sarima"
  <2>1. r \in SARIMAPredict(m)
    BY <1>4 DEF Predict
  <2>2. \/ ~m.trained /\ r = PredictError
        \/ m.trained /\ ~InRange(m) /\ r = PredictPanic
        \/ m.trained /\ InRange(m) /\ r \in Continue(m)
    BY Zenon, <1>4, <2>1 DEF SARIMAPredict, InRange
  <2> QED
    BY <1>2, <1>4, <2>2 DEF PredictError, PredictPanic, PredictResult
<1>5. CASE m.kind = "baseline"
  <2> DEFINE seasons == [i \in 1..Steps(m) |-> Season(m, rows[Len(rows)], i)]
  <2>1. r \in BaselinePredict(m, rows, k)
    BY <1>5 DEF Predict
  <2>2. \/ r = PredictError
        \/ r = PredictPanic
        \/ m.stepSec # 0 /\ \E v \in Values :
                               r = Predicted(v, Quantiles(m, v), k, k, seasons)
    BY Zenon, <2>1 DEF BaselinePredict
  <2>3. ASSUME m.stepSec # 0, NEW v \in Values,
               r = Predicted(v, Quantiles(m, v), k, k, seasons)
        PROVE  r.kind = "ok" /\ Forecasts(m, r.forecast, rows, k)
    <3>1. m.stepSec > 0
      BY <2>3
    <3>5. v \in [1..Steps(m) -> Int]
      <4>1. Loads \subseteq Int
        OBVIOUS
      <4> QED
        BY Zenon, <4>1
    <3> HIDE DEF Values
    <3>2. /\ v \in Seq(Int) /\ Len(v) = m.horizonSec \div m.stepSec
          /\ Len(v) >= 1 /\ SeriesOf(Quantiles(m, v))
      BY Zenon, <1>1, <3>1, <3>5
    <3>3. /\ r.kind = "ok" /\ r.forecast.values = v /\ r.forecast.base = k
          /\ r.forecast.quantiles = Quantiles(m, v) /\ r.forecast.seasons = seasons
      <4> HIDE DEF seasons
      <4> QED
        BY <2>3 DEF Predicted
    <3>4. m.kind \notin {"arima", "sarima"}
      BY <1>5
    <3> QED
      BY <3>1, <3>2, <3>3, <3>4, Zenon DEF Forecasts
  <2>4. r = PredictError \/ r = PredictPanic => r.kind \in {"error", "panic"}
    BY DEF PredictError, PredictPanic
  <2>5. m.kind \notin {"arima", "sarima"}
    BY <1>5
  <2>6. \/ r.kind \in {"error", "panic"}
        \/ r.kind = "ok" /\ Forecasts(m, r.forecast, rows, k)
    BY <2>2, <2>3, <2>4, Zenon
  <2> QED
    BY <2>5, <2>6 DEF PredictResult
<1>6. CASE m.kind = "byom"
  <2> DEFINE n == m.horizonSec \div m.stepSec
             cut(v) == [i \in DOMAIN v |-> Max({0, v[i]})]
  <2>1. r \in BYOMPredict(m, rows, k)
    BY <1>6 DEF Predict
  <2>2. \/ r = PredictError
        \/ r = PredictPanic
        \/ m.stepSec # 0 /\ \E v \in [1..n -> Loads \cup {-1}] :
                               r = Predicted(cut(v), << >>, k, k, << >>)
    BY Zenon, <2>1 DEF BYOMPredict
  <2>3. ASSUME m.stepSec # 0, NEW v \in [1..n -> Loads \cup {-1}],
               r = Predicted(cut(v), << >>, k, k, << >>)
        PROVE  r.kind = "ok" /\ Forecasts(m, r.forecast, rows, k)
    <3>1. m.stepSec > 0
      BY <2>3
    <3>2. n \in Nat /\ n >= 1
      BY <3>1, StepsFacts
    <3>3. \A x \in Loads \cup {-1} : Max({0, x}) \in Int
      <4>1. \A x \in Loads \cup {-1} : x \in Int
        OBVIOUS
      <4>2. \A x \in Int : Max({0, x}) = IF 0 >= x THEN 0 ELSE x
        BY MaxTwo
      <4> QED
        BY <4>1, <4>2
    <3>4. cut(v) \in [1..n -> Int]
      BY Zenon, <3>3
    <3>5. cut(v) \in Seq(Int) /\ Len(cut(v)) = n
      <4> HIDE DEF cut, n
      <4> QED
        BY Zenon, <3>2, <3>4, ArrayIsSeq
    <3>6. /\ r.kind = "ok" /\ r.forecast.values = cut(v) /\ r.forecast.base = k
          /\ r.forecast.quantiles = << >> /\ r.forecast.seasons = << >>
      <4> HIDE DEF cut
      <4> QED
        BY <2>3 DEF Predicted
    <3>7. m.kind \notin {"arima", "sarima"}
      BY Zenon, <1>6
    <3>8. SeriesOf(r.forecast.quantiles)
      BY <3>6 DEF SeriesOf
    <3> QED
      BY <3>1, <3>2, <3>5, <3>6, <3>7, <3>8, Zenon DEF Forecasts
  <2>4. r = PredictError \/ r = PredictPanic => r.kind \in {"error", "panic"}
    BY DEF PredictError, PredictPanic
  <2>5. m.kind \notin {"arima", "sarima"}
    BY <1>6
  <2>6. \/ r.kind \in {"error", "panic"}
        \/ r.kind = "ok" /\ Forecasts(m, r.forecast, rows, k)
    BY <2>2, <2>3, <2>4, Zenon
  <2> QED
    BY <2>5, <2>6 DEF PredictResult
<1> QED
  BY Zenon, <1>3, <1>4, <1>5, <1>6

(* Whole minutes and hours added to those of instant x, against the minute *)
(* and the hour of x + a.                                                  *)
AddedSeasons(x, a) ==
  /\ (((x \div 60) % 60) + a \div 60) % 60 = ((x + a) \div 60 - Carry(x, a, 60)) % 60
  /\ (((x \div 3600) % 24) + a \div 3600) % 24
       = ((x + a) \div 3600 - Carry(x, a, 3600)) % 24

(* Adding to the hour and the minute of an instant what the code adds is   *)
(* adding to the instant, up to the carry it drops.                        *)
LEMMA SeasonArithmetic ==
  ASSUME NEW x \in Int, NEW a \in Nat
  PROVE  AddedSeasons(x, a)
<1>1. \A b \in Int, e \in Int : ((b % 60) + e) % 60 = (b + e) % 60
  OBVIOUS
<1>2. \A b \in Int, e \in Int : ((b % 24) + e) % 24 = (b + e) % 24
  OBVIOUS
<1>3. (x + a) \div 60 - Carry(x, a, 60) = x \div 60 + a \div 60
  BY DEF Carry
<1>4. (x + a) \div 3600 - Carry(x, a, 3600) = x \div 3600 + a \div 3600
  BY DEF Carry
<1>5. /\ x \div 60 \in Int /\ a \div 60 \in Int
      /\ x \div 3600 \in Int /\ a \div 3600 \in Int
  OBVIOUS
<1>6. (((x \div 60) % 60) + a \div 60) % 60 = (x \div 60 + a \div 60) % 60
  BY <1>1, <1>5
<1>7. (((x \div 3600) % 24) + a \div 3600) % 24 = (x \div 3600 + a \div 3600) % 24
  BY <1>2, <1>5
<1> QED
  BY <1>3, <1>4, <1>6, <1>7 DEF AddedSeasons

------------------------------------------------------------------------------
(* The configuration, and the model and the policy made of it.             *)

(* What the model factory needs to be given.                               *)
Buildable(w) ==
  /\ w.Horizon \in Nat /\ w.Step \in Nat \ {0} /\ w.Step <= w.Horizon
  /\ w.Model \in {"baseline", "arima", "sarima", "byom"}
  /\ w.Order \in Orders

(* What validateWorkload and its defaults guarantee.                       *)
Accepted(w) ==
  /\ Buildable(w)
  /\ w.MinReplicas \in Nat /\ w.MaxReplicas \in Nat \ {0}
  /\ w.MinReplicas <= w.MaxReplicas
  /\ w.UpMaxFactorPerStep \in Nat \ {0}
  /\ w.DownMaxPercentPerStep \in 0..100
  /\ w.TargetPerPod \in Int /\ w.Headroom \in Int
  /\ w.QuantileLevel.hundredths \in Int

(* The model that the factory built for the configuration, whatever it has *)
(* been trained on since.                                                  *)
ModelFor(m, w) ==
  /\ IsModel(m) /\ m.kind = w.Model
  /\ m.stepSec = Seconds(w.Step) /\ m.horizonSec = Seconds(w.Horizon)
  /\ OrderOK(m.kind, m.order)
  /\ m.kind \in {"arima", "sarima"} => m.stepSec > 0

(* Feature rows carry a load and the hour and the minute of their instant. *)
Featured(rows) ==
  /\ Len(rows) \in Nat \ {0}
  /\ \A i \in 1..Len(rows) :
       /\ rows[i].timestamp \in Int /\ rows[i].value \in Int
       /\ rows[i].hour = (rows[i].timestamp \div 3600) % 24
       /\ rows[i].minute = (rows[i].timestamp \div 60) % 60

(* validateWorkload and its defaults.                                      *)
LEMMA DefaultedFacts ==
  ASSUME NEW w \in Config, Valid(w)
  PROVE  Accepted(Defaulted(w))
<1>1. /\ Defaulted(w).Horizon = w.Horizon /\ Defaulted(w).Step = w.Step
      /\ Defaulted(w).MinReplicas = w.MinReplicas
      /\ Defaulted(w).MaxReplicas = IF w.MaxReplicas = 0 THEN 100 ELSE w.MaxReplicas
      /\ Defaulted(w).UpMaxFactorPerStep
           = IF w.UpMaxFactorPerStep <= 0 THEN 200 ELSE w.UpMaxFactorPerStep
      /\ Defaulted(w).DownMaxPercentPerStep = w.DownMaxPercentPerStep
      /\ Defaulted(w).Model = IF w.Model = Empty THEN "baseline" ELSE w.Model
  BY DEF Defaulted, Config
<1>2. /\ Defaulted(w).Headroom = IF w.Headroom <= 0 THEN 100 ELSE w.Headroom
      /\ Defaulted(w).TargetPerPod = w.TargetPerPod
      /\ Defaulted(w).QuantileLevel = w.QuantileLevel
      /\ Defaulted(w).Order = w.Order
  BY DEF Defaulted, Config
<1>3. /\ w.Horizon \in Nat /\ w.Step \in Nat \ {0} /\ w.Step <= w.Horizon
      /\ w.MinReplicas \in Nat /\ w.MaxReplicas \in Nat
      /\ w.MinReplicas <= w.MaxReplicas /\ w.UpMaxFactorPerStep \in Int
      /\ w.DownMaxPercentPerStep \in 0..100
      /\ w.Model \in {Empty, "baseline", "arima", "sarima", "byom"}
  BY DEF Valid, Config
<1>4. /\ w.TargetPerPod \in Int /\ w.Headroom \in Int /\ w.Order \in Orders
      /\ w.QuantileLevel.hundredths \in Int
  BY Zenon DEF Config
<1>5. Defaulted(w).Model \in {"baseline", "arima", "sarima", "byom"}
  BY Zenon, <1>1, <1>3
<1>6. /\ Defaulted(w).Headroom \in Int /\ Defaulted(w).TargetPerPod \in Int
      /\ Defaulted(w).QuantileLevel.hundredths \in Int
      /\ Defaulted(w).Order \in Orders
  BY <1>2, <1>4
<1> QED
  BY <1>1, <1>3, <1>5, <1>6 DEF Accepted, Buildable

(* The seconds the models work with.                                       *)
LEMMA SecondsFacts ==
  ASSUME NEW w, Buildable(w)
  PROVE  /\ Seconds(w.Step) \in Nat /\ Seconds(w.Horizon) \in Nat
         /\ Seconds(w.Step) <= Seconds(w.Horizon)
<1>1. \A a, b \in Nat : a <= b => /\ a \div 1000 \in Nat /\ b \div 1000 \in Nat
                                 /\ a \div 1000 <= b \div 1000
  OBVIOUS
<1>2. w.Step \in Nat /\ w.Horizon \in Nat /\ w.Step <= w.Horizon
  BY DEF Buildable
<1> QED
  BY <1>1, <1>2 DEF Seconds

(* A model as its constructor leaves it.                                   *)
Fresh(m, kind, step, horizon, order) ==
  /\ IsModel(m) /\ m.kind = kind /\ m.order = order /\ ~m.trained
  /\ m.stepSec = step /\ m.horizonSec = horizon /\ m.lastErrors = NoErrors

(* A model with nothing trained is one as its constructor leaves it.       *)
LEMMA UntrainedFacts ==
  ASSUME NEW kind, NEW step, NEW horizon, NEW order
  PROVE  Fresh(Untrained(kind, step, horizon, order), kind, step, horizon, order)
BY Zenon DEF Fresh, Untrained, IsModel

(* When such a model is the one for a configuration.                       *)
LEMMA FreshModel ==
  ASSUME NEW m, NEW w, NEW order,
         Fresh(m, w.Model, Seconds(w.Step), Seconds(w.Horizon), order),
         OrderOK(w.Model, order),
         w.Model \in {"arima", "sarima"} => Seconds(w.Step) > 0
  PROVE  ModelFor(m, w) /\ ~m.trained /\ m.lastErrors = NoErrors
BY DEF ModelFor, Fresh

(* The model factory.                                                      *)
LEMMA NewModelFacts ==
  ASSUME NEW w, Buildable(w), ~ModelPanics(w)
  PROVE  /\ ModelFor(NewForWorkload(w), w) /\ ~NewForWorkload(w).trained
         /\ NewForWorkload(w).lastErrors = NoErrors
<1> DEFINE step == Seconds(w.Step)
           horizon == Seconds(w.Horizon)
           o == w.Order
           a == AutoOrder(o)
<1>1. o \in Orders /\ step \in Nat /\ horizon \in Nat
  BY Zenon, SecondsFacts DEF Buildable
<1>2. /\ a \in Orders
      /\ a.p = (IF o.p = 0 THEN 1 ELSE o.p) /\ a.d = (IF o.d = 0 THEN 1 ELSE o.d)
      /\ a.q = (IF o.q = 0 THEN 1 ELSE o.q)
      /\ a.P = o.P /\ a.D = o.D /\ a.Q = o.Q /\ a.s = o.s
  <2> DEFINE p == IF o.p = 0 THEN 1 ELSE o.p
             d == IF o.d = 0 THEN 1 ELSE o.d
             q == IF o.q = 0 THEN 1 ELSE o.q
  <2>1. a = [[[o EXCEPT !.p = p] EXCEPT !.d = d] EXCEPT !.q = q]
    BY DEF AutoOrder
  <2>2. p \in Int /\ d \in Int /\ q \in Int
    BY <1>1 DEF Orders
  <2> HIDE DEF p, d, q, o, a
  <2>3. /\ a \in Orders /\ a.p = p /\ a.d = d /\ a.q = q
        /\ a.P = o.P /\ a.D = o.D /\ a.Q = o.Q /\ a.s = o.s
    BY ZenonT(30), <1>1, <2>1, <2>2 DEF Orders
  <2> QED
    BY <2>3 DEF p, d, q
<1> HIDE DEF step, horizon, o, a
<1>3. ASSUME NEW order, OrderOK(w.Model, order),
             Fresh(NewForWorkload(w), w.Model, step, horizon, order),
             w.Model \in {"arima", "sarima"} => step > 0
      PROVE  /\ ModelFor(NewForWorkload(w), w) /\ ~NewForWorkload(w).trained
             /\ NewForWorkload(w).lastErrors = NoErrors
  BY Zenon, <1>3, FreshModel DEF step, horizon
<1>4. ASSUME ~NewARIMAPanics(step, horizon, o)
      PROVE  step > 0 /\ OrderOK("arima", a)
  <2>1. step > 0 /\ o.d \in 0..2 /\ o.p \in Nat /\ o.q \in Nat
    BY <1>1, <1>4 DEF NewARIMAPanics, Orders
  <2>2. a.p >= 1 /\ a.d \in 1..2 /\ a.q >= 1
    BY <1>2, <2>1
  <2> QED
    BY Zenon, <1>2, <2>1, <2>2 DEF OrderOK
<1>5. ASSUME ~NewSARIMAPanics(step, horizon, o)
      PROVE  step > 0 /\ OrderOK("sarima", a)
  <2>1. /\ ~NewARIMAPanics(step, horizon, o)
        /\ o.D \in 0..1 /\ ~(o.P < 0) /\ ~(o.Q < 0)
        /\ o.P > 0 \/ o.D > 0 \/ o.Q > 0 => ~(o.s <= 0)
    BY <1>5 DEF NewSARIMAPanics
  <2>2. step > 0 /\ OrderOK("arima", a)
    BY Zenon, <1>4, <2>1
  <2>3. /\ o.P >= 0 /\ o.Q >= 0
        /\ o.P > 0 \/ o.D > 0 \/ o.Q > 0 => o.s > 0
    BY <1>1, <2>1 DEF Orders
  <2> QED
    BY Zenon, <1>2, <2>1, <2>2, <2>3 DEF OrderOK
<1>6. CASE w.Model = "arima"
  <2>1. ~NewARIMAPanics(step, horizon, o)
    BY <1>6 DEF ModelPanics, step, horizon, o
  <2>2. NewForWorkload(w) = Untrained("arima", step, horizon, a)
    BY Zenon, <1>6 DEF NewForWorkload, NewARIMAModel, step, horizon, o, a
  <2> QED
    BY Zenon, <1>3, <1>4, <1>6, <2>1, <2>2, UntrainedFacts
<1>7. CASE w.Model = "sarima"
  <2>1. ~NewSARIMAPanics(step, horizon, o)
    BY <1>7 DEF ModelPanics, step, horizon, o
  <2>2. NewForWorkload(w) = Untrained("sarima", step, horizon, a)
    BY Zenon, <1>7 DEF NewForWorkload, NewSARIMAModel, step, horizon, o, a
  <2> QED
    BY Zenon, <1>3, <1>5, <1>7, <2>1, <2>2, UntrainedFacts
<1>8. CASE w.Model = "baseline"
  <2>1. NewForWorkload(w) = Untrained("baseline", step, horizon, o)
    BY <1>8 DEF NewForWorkload, NewBaselineModel, step, horizon, o
  <2>2. OrderOK("baseline", o)
    BY Zenon, <1>1 DEF OrderOK
  <2> QED
    BY Zenon, <1>3, <1>8, <2>1, <2>2, UntrainedFacts
<1>9. CASE w.Model = "byom"
  <2>1. NewForWorkload(w) = Untrained("byom", step, horizon, o)
    BY <1>9 DEF NewForWorkload, NewBYOMModel, step, horizon, o
  <2>2. OrderOK("byom", o)
    BY <1>1 DEF OrderOK
  <2> QED
    BY Zenon, <1>3, <1>9, <2>1, <2>2, UntrainedFacts
<1> QED
  BY Zenon, <1>6, <1>7, <1>8, <1>9 DEF Buildable

(* The policy of the planner.                                              *)
LEMMA PolicyFacts ==
  ASSUME NEW w, Accepted(w)
  PROVE  /\ PolicyOf(w) \in Policy
         /\ PolicyOf(w).MinReplicas = w.MinReplicas
         /\ PolicyOf(w).MaxReplicas = w.MaxReplicas
         /\ PolicyOf(w).UpMaxFactorPerStep = w.UpMaxFactorPerStep
         /\ PolicyOf(w).DownMaxPercentPerStep = w.DownMaxPercentPerStep
<1>1. Empty = Unset
  BY Zenon DEF Empty, Unset
<1>2. ParseQuantileLevel(w.QuantileLevel) \in Int
  BY DEF ParseQuantileLevel, Accepted
<1>3. /\ w.TargetPerPod \in Int /\ w.Headroom \in Int
      /\ w.MinReplicas \in Int /\ w.MaxReplicas \in Int
      /\ w.UpMaxFactorPerStep \in Int /\ w.DownMaxPercentPerStep \in Int
  BY DEF Accepted
<1>4. Empty \in STRING \cup {Unset} /\ 0 \in Int
  BY <1>1
<1>5. PolicyOf(w) \in Policy
  BY Zenon, <1>2, <1>3, <1>4 DEF PolicyOf, Policy
<1> QED
  BY Zenon, <1>5 DEF PolicyOf

(* The feature rows.                                                       *)
LEMMA FeaturesFacts ==
  ASSUME NEW rows \in Seq(Sample), BuildFeatures(rows).ok
  PROVE  Featured(BuildFeatures(rows).rows)
<1> DEFINE f == BuildFeatures(rows).rows
           n == Len(rows)
           hour(t) == (t \div 3600) % 24
           minute(t) == (t \div 60) % 60
<1>0. rows # << >>
  <2> DEFINE r == [i \in DOMAIN rows |->
                    [value |-> rows[i].value, timestamp |-> rows[i].ts,
                     hour |-> (rows[i].ts \div 3600) % 24,
                     minute |-> (rows[i].ts \div 60) % 60]]
             some == rows # << >>
  <2>1. BuildFeatures(rows) = [ok |-> some, rows |-> r]
    BY Zenon DEF BuildFeatures
  <2> HIDE DEF r, some
  <2>2. some
    BY <2>1
  <2> QED
    BY SMTT(30), <2>2 DEF some
<1>1. n \in Nat /\ n # 0 /\ DOMAIN rows = 1..n
  BY <1>0, EmptyFacts, LengthFacts
<1>2. \A i \in 1..n : rows[i].ts \in Int /\ rows[i].value \in Int
  <2>1. \A i \in 1..n : rows[i] \in Sample
    BY SMTT(30), ElementFacts
  <2> QED
    BY Zenon, <2>1 DEF Sample
<1>3. f = [i \in 1..n |->
             [value |-> rows[i].value, timestamp |-> rows[i].ts,
              hour |-> (rows[i].ts \div 3600) % 24,
              minute |-> (rows[i].ts \div 60) % 60]]
  BY Zenon, <1>1 DEF BuildFeatures
<1> HIDE DEF f, n
<1>4. \A i \in 1..n : /\ f[i].timestamp = rows[i].ts /\ f[i].value = rows[i].value
                      /\ f[i].hour = hour(rows[i].ts)
                      /\ f[i].minute = minute(rows[i].ts)
  BY <1>3
<1>5. Len(f) = n
  <2> DEFINE e(i) == [value |-> rows[i].value, timestamp |-> rows[i].ts,
                      hour |-> (rows[i].ts \div 3600) % 24,
                      minute |-> (rows[i].ts \div 60) % 60]
  <2>1. f \in [1..n -> {e(i) : i \in 1..n}]
    BY <1>3
  <2> HIDE DEF e
  <2> QED
    BY Zenon, <1>1, <2>1, ArrayIsSeq
<1>6. Featured(f)
  <2> HIDE DEF hour, minute
  <2>1. ASSUME NEW i \in 1..Len(f)
        PROVE  /\ f[i].timestamp \in Int /\ f[i].value \in Int
               /\ f[i].hour = hour(f[i].timestamp)
               /\ f[i].minute = minute(f[i].timestamp)
    BY Zenon, <1>2, <1>4, <1>5
  <2>2. Len(f) \in Nat \ {0}
    BY Zenon, <1>1, <1>5
  <2> QED
    BY Zenon, <2>1, <2>2 DEF Featured, hour, minute
<1> QED
  BY <1>6 DEF f

------------------------------------------------------------------------------
(* The inductive invariant.                                                *)

(* The forecaster has been built: the loop of Run is under way or over.    *)
Built == stage \in {"idle", "collected", "trained", "predicted", "ended"}

ConfigInv ==
  /\ stage = "flags" => wc \in Config
  /\ stage = "loaded" \/ Built => Accepted(wc)
  /\ Built => /\ wc.Adapter \in {"prometheus", "victoriametrics", "http"}
              /\ ModelFor(model, wc)

Regressive == model.kind \in {"arima", "sarima"}

(* A trained ARIMA or SARIMA model continues its last successful training  *)
(* from a number, and a prediction is in range unless that training is of this tick and   *)
(* left no residual.                                                       *)
ModelInv ==
  Built /\ Regressive /\ model.trained =>
    /\ model.lastValues.from = trainedAt /\ model.lastValues.last \in Int
    /\ \/ InRange(model)
       \/ /\ stage \in {"trained", "ended"} /\ trainedAt = tick
          /\ Residuals(model, Len(frame)) <= 0

FrameInv ==
  /\ RowsAreTheAnswer
  /\ stage = "collected" => frame \in Seq(Sample)
  /\ stage \in {"trained", "predicted"} => Featured(frame)
  /\ stage = "predicted" =>
       /\ Forecasts(model, forecast, frame, tick)
       /\ Regressive => model.trained

(* currentReplicas lies within the bounds and within one rate step of the  *)
(* stored plan for each plan that was not stored.                          *)
ReplicasInv ==
  /\ misses \in Nat
  /\ ~Built => snapshot = NoSnapshot /\ misses = 0
  /\ Built => current \in wc.MinReplicas..wc.MaxReplicas
  /\ Built /\ wc.UpMaxFactorPerStep >= 100 =>
       current \in Lowest(FirstCount, wc.DownMaxPercentPerStep, misses)
                   ..Highest(FirstCount, wc.UpMaxFactorPerStep, misses)

(* The ticks of the last successful training and of its errors: ARIMA      *)
(* replaces them in every training, SARIMA if it left enough residuals.    *)
TrainingInv ==
  /\ tick \in Nat /\ trainedAt \in 0..tick
  /\ ~Built => trainedAt = 0
  /\ stage = "collected" => trainedAt < tick
  /\ Built /\ Regressive =>
       /\ model.lastErrors.from \in 0..trainedAt
       /\ model.kind = "arima" => model.lastErrors.from = trainedAt
       /\ stage \in {"trained", "predicted"} /\ trainedAt = tick =>
            (model.lastErrors.from = tick <=> ReplacesErrors(model, Len(frame)))

LoopInv ==
  /\ ConfigInv /\ ModelInv /\ FrameInv /\ ReplicasInv
  /\ SnapshotFits /\ PanicsOnlyWithoutResiduals

------------------------------------------------------------------------------
(* The invariant holds initially, and one lemma for each action.           *)

(* The initial states satisfy the invariant.                               *)
LEMMA InitInv == LoopInit => LoopInv
<1> SUFFICES ASSUME LoopInit PROVE LoopInv
  OBVIOUS
<1>1. ~Built /\ stage = "flags" /\ wc \in Config /\ snapshot = NoSnapshot /\ misses = 0
  BY ConfigsAssumption DEF LoopInit, Built
<1> QED
  BY <1>1 DEF LoopInv, ConfigInv, ModelInv, FrameInv, RowsAreTheAnswer, ReplicasInv,
              SnapshotFits, PanicsOnlyWithoutResiduals

(* LoadWorkloads: the configuration is defaulted and validated.            *)
LEMMA LoadInv == LoopInv /\ LoadWorkloads => LoopInv'
<1> SUFFICES ASSUME LoopInv, LoadWorkloads PROVE LoopInv'
  BY Zenon
<1>1. /\ stage = "flags" /\ wc \in Config /\ snapshot = NoSnapshot /\ misses = 0
      /\ snapshot' = snapshot /\ misses' = misses
  BY DEF LoopInv, ConfigInv, ReplicasInv, Built, LoadWorkloads, tickVars
<1>2. /\ stage' \in {"loaded", "exited"}
      /\ stage' = "loaded" => wc' = Defaulted(wc) /\ Valid(wc)
  BY DEF LoadWorkloads
<1>3. ~Built' /\ stage' \notin {"flags", "collected", "trained", "predicted", "ended"}
  BY <1>2 DEF Built
<1>4. stage' = "loaded" => Accepted(wc')
  BY Zenon, <1>1, <1>2, DefaultedFacts
<1> QED
  BY Zenon, <1>1, <1>3, <1>4
     DEF LoopInv, ConfigInv, ModelInv, FrameInv, RowsAreTheAnswer, ReplicasInv,
         SnapshotFits, PanicsOnlyWithoutResiduals

(* Build: the forecaster is made with its model and its policy.            *)
LEMMA BuildInv ==
  ASSUME RatesRight
  PROVE  LoopInv /\ Build => LoopInv'
<1> SUFFICES ASSUME LoopInv, Build PROVE LoopInv'
  BY Zenon
<1>1. /\ stage = "loaded" /\ Accepted(wc) /\ snapshot = NoSnapshot /\ misses = 0
      /\ snapshot' = snapshot /\ misses' = misses /\ wc' = wc
  BY DEF LoopInv, ConfigInv, ReplicasInv, Built, Build, tickVars
<1>2. CASE stage' \in {"panicked", "exited"}
  <2>1. /\ ~Built'
        /\ stage' \notin {"flags", "loaded", "collected", "trained", "predicted", "ended"}
    BY <1>2 DEF Built
  <2> QED
    BY Zenon, <1>1, <2>1 DEF LoopInv, ConfigInv, ModelInv, FrameInv, RowsAreTheAnswer,
                      ReplicasInv, SnapshotFits, PanicsOnlyWithoutResiduals
<1>3. CASE stage' \notin {"panicked", "exited"}
  <2>1. /\ AdapterOK(wc.Adapter, wc.AdapterConfig) /\ ~ModelPanics(wc)
        /\ stage' = "idle" /\ model' = NewForWorkload(wc) /\ current' = wc.MinReplicas
    BY Zenon, <1>3 DEF Build
  <2>2. ModelFor(model', wc') /\ ~model'.trained
    BY Zenon, <1>1, <2>1, NewModelFacts DEF Accepted
  <2>3. wc'.Adapter \in {"prometheus", "victoriametrics", "http"}
    BY Zenon, <1>1, <2>1 DEF AdapterOK
  <2>4. ConfigInv' /\ ModelInv' /\ FrameInv'
    BY Zenon, <1>1, <2>1, <2>2, <2>3 DEF ConfigInv, ModelInv, FrameInv, RowsAreTheAnswer
  <2>5. /\ wc.MinReplicas \in Nat /\ wc.MaxReplicas \in Nat
        /\ wc.MinReplicas <= wc.MaxReplicas /\ wc.UpMaxFactorPerStep \in Nat \ {0}
        /\ wc.DownMaxPercentPerStep \in 0..100
    BY Zenon, <1>1 DEF Accepted
  <2>6. FirstCount' = wc.MinReplicas
    BY <1>1 DEF FirstCount
  <2>7. /\ Highest(wc.MinReplicas, wc.UpMaxFactorPerStep, 0) = wc.MinReplicas
        /\ Lowest(wc.MinReplicas, wc.DownMaxPercentPerStep, 0) = wc.MinReplicas
    BY Zenon, <2>5 DEF RatesRight, StepsReach
  <2>8. ReplicasInv'
    BY <1>1, <2>1, <2>5, <2>6, <2>7 DEF ReplicasInv, Built
  <2>9. SnapshotFits' /\ PanicsOnlyWithoutResiduals'
    BY <1>1, <2>1 DEF SnapshotFits, PanicsOnlyWithoutResiduals
  <2> QED
    BY Zenon, <2>4, <2>8, <2>9 DEF LoopInv
<1> QED
  BY <1>2, <1>3

(* What only StoreSnapshot changes, while the loop runs.                   *)
LEMMA PlanKept ==
  ASSUME LoopInv, Built, Built', UNCHANGED <<wc, current, snapshot, misses>>
  PROVE  ReplicasInv' /\ SnapshotFits'
<1>1. FirstCount' = FirstCount
  BY DEF FirstCount
<1> QED
  BY Zenon, <1>1 DEF LoopInv, ReplicasInv, SnapshotFits

(* CollectMetrics: a tick has the rows of the answer it got.               *)
LEMMA CollectInv ==
  ASSUME CollectsRight
  PROVE  LoopInv /\ CollectMetrics => LoopInv'
<1> SUFFICES ASSUME LoopInv, CollectMetrics PROVE LoopInv'
  OBVIOUS
<1>1. /\ stage = "idle" /\ Built
      /\ UNCHANGED <<wc, model, trainedAt, current, snapshot, misses>>
  BY DEF CollectMetrics, Built
<1>2. /\ wc.Adapter \in {"prometheus", "victoriametrics", "http"}
      /\ ModelFor(model, wc) /\ Accepted(wc)
  BY Zenon, <1>1 DEF LoopInv, ConfigInv
<1>3. stage' \in {"idle", "collected"}
  BY DEF CollectMetrics, EndTick
<1>4. Built' /\ stage' \notin {"flags", "loaded", "trained", "predicted", "ended"}
  BY <1>3 DEF Built
<1>5. ReplicasInv' /\ SnapshotFits'
  BY Zenon, <1>1, <1>4, PlanKept
<1>6. ConfigInv'
  BY Zenon, <1>1, <1>2, <1>4 DEF ConfigInv
<1>7. ModelInv'
  BY Zenon, <1>1 DEF LoopInv, ModelInv, Regressive
<1>8. stage' = "collected" =>
        /\ SaysTheSame(frame', wc.Adapter,
                       SamplesOf(wc.Adapter, wc.TimestampFormat, answer'))
        /\ frame' \in Seq(Sample)
  <2> SUFFICES ASSUME stage' = "collected"
               PROVE  /\ SaysTheSame(frame', wc.Adapter,
                           SamplesOf(wc.Adapter, wc.TimestampFormat, answer'))
                      /\ frame' \in Seq(Sample)
    BY Zenon
  <2>1. PICK a \in IF wc.Adapter = "http" THEN HTTPAnswers ELSE RangeAnswers :
          \E df \in Collect(wc.Adapter, wc.TimestampFormat, a) :
            IF df.ok
            THEN /\ stage' = "collected" /\ answer' = a /\ frame' = df.rows
                 /\ UNCHANGED forecast
            ELSE EndTick
    BY Zenon DEF CollectMetrics
  <2>2. PICK df \in Collect(wc.Adapter, wc.TimestampFormat, a) :
          IF df.ok
          THEN /\ stage' = "collected" /\ answer' = a /\ frame' = df.rows
               /\ UNCHANGED forecast
          ELSE EndTick
    BY Zenon, <2>1
  <2>3. df.ok /\ answer' = a /\ frame' = df.rows
    BY <2>2 DEF EndTick
  <2>4. a \in IF wc.Adapter = "http" THEN HTTPAnswer ELSE RangeAnswer
    BY AnswersAssumption
  <2>5. \/ df = Failed
        \/ /\ df.ok /\ df.rows \in Seq(Sample)
           /\ SaysTheSame(df.rows, wc.Adapter,
                          SamplesOf(wc.Adapter, wc.TimestampFormat, a))
    BY Zenon, <1>2, <2>4 DEF CollectsRight
  <2>6. df # Failed
    BY <2>3 DEF Failed
  <2> QED
    BY Zenon, <2>3, <2>5, <2>6
<1>9. FrameInv'
  BY Zenon, <1>1, <1>4, <1>8 DEF FrameInv, RowsAreTheAnswer
<1>10. PanicsOnlyWithoutResiduals'
  BY <1>4 DEF PanicsOnlyWithoutResiduals
<1> QED
  BY Zenon, <1>5, <1>6, <1>7, <1>9, <1>10 DEF LoopInv

(* A training on the features of a tick.                                   *)
TrainedBy(result) ==
  /\ model' = result.model /\ trainedAt' = (IF result.err THEN trainedAt ELSE tick)
  /\ TrainResult(model, result, Len(frame'), tick)

(* What TrainModel does if there are features.                             *)
LEMMA TrainedFacts ==
  ASSUME LoopInv, TrainModel, BuildFeatures(frame).ok
  PROVE  /\ stage' = "trained" /\ Featured(frame')
         /\ \E result : TrainedBy(result)
<1> DEFINE features == BuildFeatures(frame)
<1>1. stage = "collected"
  BY Zenon DEF TrainModel
<1>2. ModelFor(model, wc) /\ Accepted(wc) /\ frame \in Seq(Sample)
  BY Zenon, <1>1 DEF LoopInv, ConfigInv, FrameInv, Built
<1>3. PICK result \in Train(model, features.rows, tick) :
        /\ model' = result.model
        /\ trainedAt' = IF result.err THEN trainedAt ELSE tick
  BY Zenon DEF TrainModel
<1>4. stage' = "trained" /\ frame' = features.rows
  BY Zenon DEF TrainModel
<1>5. Featured(frame')
  BY Zenon, <1>2, <1>4, FeaturesFacts
<1>6. Len(frame') \in Nat /\ frame'[Len(frame')].value \in Int
  <2>1. Len(frame') \in Nat \ {0}
    BY Zenon, <1>5 DEF Featured
  <2>2. Len(frame') \in 1..Len(frame')
    BY <2>1
  <2> QED
    BY <1>5, <2>1, <2>2 DEF Featured
<1>7. /\ IsModel(model) /\ model.kind \in {"baseline", "arima", "sarima", "byom"}
      /\ OrderOK(model.kind, model.order)
  BY Zenon, <1>2 DEF ModelFor, Accepted, Buildable
<1>8. TrainResult(model, result, Len(frame'), tick)
  <2> HIDE DEF features
  <2> QED
    BY Zenon, <1>3, <1>4, <1>6, <1>7, TrainFacts
<1> QED
  BY Zenon, <1>3, <1>4, <1>5, <1>8 DEF TrainedBy

(* TrainModel: the features and the model trained on them.                 *)
LEMMA TrainInv == LoopInv /\ TrainModel => LoopInv'
<1> SUFFICES ASSUME LoopInv, TrainModel PROVE LoopInv'
  OBVIOUS
<1>1. /\ stage = "collected" /\ Built
      /\ UNCHANGED <<wc, tick, current, snapshot, misses>>
  BY Zenon DEF TrainModel, Built
<1>2. /\ wc.Adapter \in {"prometheus", "victoriametrics", "http"}
      /\ ModelFor(model, wc) /\ Accepted(wc) /\ frame \in Seq(Sample)
  BY Zenon, <1>1 DEF LoopInv, ConfigInv, FrameInv
<1>3. stage' \in {"idle", "trained"}
  BY DEF TrainModel, EndTick
<1>4. Built' /\ stage' \notin {"flags", "loaded", "collected", "predicted", "ended"}
  BY Zenon, <1>3 DEF Built
<1>5. ReplicasInv' /\ SnapshotFits'
  BY Zenon, <1>1, <1>4, PlanKept
<1>6. PanicsOnlyWithoutResiduals'
  BY <1>4 DEF PanicsOnlyWithoutResiduals
<1> DEFINE features == BuildFeatures(frame)
<1>7. CASE ~features.ok
  <2>1. stage' = "idle" /\ UNCHANGED <<model, trainedAt>>
    BY Zenon, <1>7 DEF TrainModel, EndTick
  <2>2. ConfigInv'
    BY Zenon, <1>1, <1>2, <1>4, <2>1 DEF ConfigInv
  <2>3. ModelInv'
    BY Zenon, <1>1, <2>1 DEF LoopInv, ModelInv, Regressive
  <2>4. FrameInv'
    BY Zenon, <2>1 DEF FrameInv, RowsAreTheAnswer
  <2> QED
    BY Zenon, <1>5, <1>6, <2>2, <2>3, <2>4 DEF LoopInv
<1>8. CASE features.ok
  <2>1. PICK result : TrainedBy(result)
    BY Zenon, <1>8, TrainedFacts
  <2>2. stage' = "trained" /\ Featured(frame')
    BY Zenon, <1>8, TrainedFacts
  <2>3. /\ model' = result.model
        /\ trainedAt' = (IF result.err THEN trainedAt ELSE tick)
        /\ TrainResult(model, result, Len(frame'), tick)
    BY Zenon, <2>1 DEF TrainedBy
  <2>4. ModelFor(model', wc)
    BY Zenon, <1>2, <2>3 DEF ModelFor, TrainResult
  <2>5. ConfigInv'
    BY Zenon, <1>1, <1>2, <1>4, <2>4 DEF ConfigInv
  <2>6. ModelInv'
    <3>1. CASE result.err /\ result.model = model
      BY Zenon, <1>1, <2>2, <2>3, <3>1 DEF LoopInv, ModelInv, Regressive
    <3>2. CASE ~(result.err /\ result.model = model)
      BY Zenon, <1>1, <2>2, <2>3, <3>2 DEF TrainResult, ModelInv, Regressive
    <3> QED
      BY Zenon, <3>1, <3>2
  <2>7. FrameInv'
    BY Zenon, <2>2 DEF FrameInv, RowsAreTheAnswer
  <2> QED
    BY Zenon, <1>5, <1>6, <2>5, <2>6, <2>7 DEF LoopInv
<1> QED
  BY Zenon, <1>7, <1>8

(* PredictLoad: the forecast that this tick will store.                    *)
LEMMA PredictInv == LoopInv /\ PredictLoad => LoopInv'
<1> SUFFICES ASSUME LoopInv, PredictLoad PROVE LoopInv'
  OBVIOUS
<1>1. /\ stage = "trained" /\ Built
      /\ UNCHANGED <<wc, tick, model, trainedAt, current, snapshot, misses>>
  BY Zenon DEF PredictLoad, Built
<1>2. /\ wc.Adapter \in {"prometheus", "victoriametrics", "http"}
      /\ ModelFor(model, wc) /\ Accepted(wc) /\ Featured(frame)
  BY Zenon, <1>1 DEF LoopInv, ConfigInv, FrameInv
<1>3. PICK result \in Predict(model, frame, tick) :
        \/ result.kind = "error" /\ EndTick
        \/ /\ result.kind = "panic"
           /\ stage' = "ended"
           /\ UNCHANGED <<answer, frame, forecast>>
        \/ /\ result.kind = "ok"
           /\ stage' = "predicted" /\ forecast' = result.forecast
           /\ UNCHANGED <<answer, frame>>
  BY DEF PredictLoad
<1>4. Built' /\ stage' \in {"idle", "ended", "predicted"}
  BY Zenon, <1>3 DEF EndTick, Built
<1>5. ReplicasInv' /\ SnapshotFits'
  BY Zenon, <1>1, <1>4, PlanKept
<1>6. ConfigInv'
  BY <1>1, <1>2, <1>4 DEF ConfigInv
<1>7. PredictResult(model, result, frame, tick)
  <2>1. /\ Seconds(wc.Step) \in Nat /\ Seconds(wc.Horizon) \in Nat
        /\ Seconds(wc.Step) <= Seconds(wc.Horizon)
    BY Zenon, <1>2, SecondsFacts DEF Accepted
  <2>2. Predictable(model)
    BY Zenon, <1>1, <1>2, <2>1
       DEF ModelFor, Accepted, Buildable, Predictable, LoopInv, ModelInv, Regressive
  <2> QED
    BY Zenon, <2>2, PredictFacts
<1>8. ModelInv /\ ~(stage \in {"ended"})
  BY Zenon, <1>1 DEF LoopInv
<1>9. CASE result.kind = "error" /\ EndTick
  <2>1. Regressive => ~model.trained
    BY Zenon, <1>7, <1>9 DEF PredictResult, Regressive
  <2>2. stage' = "idle"
    BY Zenon, <1>9 DEF EndTick
  <2> QED
    BY Zenon, <1>1, <1>5, <1>6, <2>1, <2>2
       DEF LoopInv, ModelInv, FrameInv, RowsAreTheAnswer, Regressive,
           PanicsOnlyWithoutResiduals
<1>10. CASE /\ result.kind = "panic"
            /\ stage' = "ended"
            /\ UNCHANGED <<answer, frame, forecast>>
  <2>1. Regressive => model.trained /\ ~InRange(model)
    BY Zenon, <1>7, <1>10 DEF PredictResult, Regressive
  <2>2. Regressive => /\ model.lastValues.from = trainedAt /\ trainedAt = tick
                      /\ model.lastValues.last \in Int
                      /\ Residuals(model, Len(frame)) <= 0
    BY Zenon, <1>1, <1>8, <2>1 DEF ModelInv
  <2>3. ModelInv'
    BY Zenon, <1>1, <1>10, <2>2 DEF ModelInv, Regressive
  <2>4. FrameInv'
    BY Zenon, <1>10 DEF FrameInv, RowsAreTheAnswer
  <2>5. PanicsOnlyWithoutResiduals'
    BY Zenon, <1>1, <1>10, <2>2 DEF PanicsOnlyWithoutResiduals, Regressive
  <2> QED
    BY Zenon, <1>5, <1>6, <2>3, <2>4, <2>5 DEF LoopInv
<1>11. CASE /\ result.kind = "ok"
            /\ stage' = "predicted" /\ forecast' = result.forecast
            /\ UNCHANGED <<answer, frame>>
  <2>1. /\ Forecasts(model, result.forecast, frame, tick)
        /\ Regressive => model.trained /\ InRange(model)
    BY Zenon, <1>7, <1>11 DEF PredictResult, Regressive
  <2>2. ModelInv'
    BY Zenon, <1>1, <1>8, <1>11, <2>1 DEF ModelInv, Regressive
  <2>3. FrameInv'
    BY Zenon, <1>1, <1>2, <1>11, <2>1 DEF FrameInv, RowsAreTheAnswer, Regressive
  <2>4. PanicsOnlyWithoutResiduals'
    BY Zenon, <1>11 DEF PanicsOnlyWithoutResiduals
  <2> QED
    BY <1>5, <1>6, <2>2, <2>3, <2>4 DEF LoopInv
<1> QED
  BY Zenon, <1>3, <1>9, <1>10, <1>11

(* The plan of a forecast: one count for each value, within the bounds,    *)
(* the first one within a rate step of currentReplicas.                    *)
LEMMA PlanFacts ==
  ASSUME PlansRight, LoopInv, stage = "predicted"
  PROVE  /\ Plan \in Seq(Nat) /\ Len(Plan) = Len(forecast.values)
         /\ Len(Plan) >= 1 /\ Plan # << >>
         /\ \A j \in 1..Len(Plan) : Plan[j] \in wc.MinReplicas..wc.MaxReplicas
         /\ wc.UpMaxFactorPerStep >= 100 =>
              /\ Plan[1] <= MaxUp(IF current = 0 THEN 1 ELSE current,
                                  wc.UpMaxFactorPerStep)
              /\ Plan[1] >= MinDown(current, wc.DownMaxPercentPerStep)
<1> DEFINE pol == PolicyOf(wc)
<1>1. /\ Accepted(wc) /\ current \in wc.MinReplicas..wc.MaxReplicas
      /\ Forecasts(model, forecast, frame, tick)
  BY Zenon DEF LoopInv, ConfigInv, ReplicasInv, FrameInv, Built
<1>2. /\ pol \in Policy
      /\ pol.MinReplicas = wc.MinReplicas /\ pol.MaxReplicas = wc.MaxReplicas
      /\ pol.UpMaxFactorPerStep = wc.UpMaxFactorPerStep
      /\ pol.DownMaxPercentPerStep = wc.DownMaxPercentPerStep
  BY Zenon, <1>1, PolicyFacts
<1> HIDE DEF pol
<1>3. /\ 0 <= pol.MinReplicas /\ 0 < pol.MaxReplicas /\ 0 < pol.UpMaxFactorPerStep
      /\ pol.DownMaxPercentPerStep \in 0..100
      /\ current \in pol.MinReplicas..pol.MaxReplicas
      /\ wc.MinReplicas \in Nat /\ wc.MaxReplicas \in Nat
  BY <1>1, <1>2 DEF Accepted
<1>4. forecast.values \in Seq(Int) /\ Len(forecast.values) >= 1
      /\ SeriesOf(forecast.quantiles)
  BY Zenon, <1>1 DEF Forecasts
<1>6. Plan = ToReplicas(current, forecast.values, pol, forecast.quantiles)
  BY DEF Plan, pol
<1>7. Len(Plan) = Len(forecast.values) /\ KeepsLimits(Plan, current, pol)
  BY Zenon, <1>2, <1>3, <1>4, <1>6 DEF PlansRight
<1> HIDE DEF Plan
<1>8. Plan \in Seq(Nat) /\ Len(Plan) >= 1
  BY Zenon, <1>4, <1>7 DEF KeepsLimits
<1>9. Plan # << >>
  BY <1>8, EmptyFacts
<1>10. ASSUME NEW j \in 1..Len(Plan) PROVE Plan[j] \in wc.MinReplicas..wc.MaxReplicas
  <2>1. Plan[j] \in Nat
    BY Zenon, <1>8, ElementFacts
  <2>2. wc.MinReplicas <= Plan[j] /\ Plan[j] <= wc.MaxReplicas
    BY Zenon, <1>2, <1>7 DEF KeepsLimits, WithinBounds
  <2> QED
    BY <1>3, <2>1, <2>2
<1>11. wc.UpMaxFactorPerStep >= 100 => WithinStep(pol, current, Plan[1])
  BY Zenon, <1>2, <1>7, <1>9 DEF KeepsLimits
<1> QED
  BY Zenon, <1>2, <1>7, <1>8, <1>9, <1>10, <1>11 DEF WithinStep

(* A plan that is stored.                                                  *)
LEMMA StoredFacts ==
  ASSUME PlansRight, LoopInv, stage = "predicted", UNCHANGED wc,
         snapshot' = [DesiredReplicas |-> Plan, Values |-> forecast.values,
                      StepSeconds |-> Seconds(wc.Step),
                      HorizonSeconds |-> Seconds(wc.Horizon)]
  PROVE  SnapshotFits' /\ FirstCount' = Plan[1]
<1> DEFINE len == Len(forecast.values)
           step == Seconds(wc.Step)
           horizon == Seconds(wc.Horizon)
<1>1. /\ Accepted(wc) /\ ModelFor(model, wc)
      /\ Forecasts(model, forecast, frame, tick)
  BY Zenon DEF LoopInv, ConfigInv, FrameInv, Built
<1>2. step \in Nat \ {0} /\ horizon \in Nat /\ len = horizon \div step /\ len >= 1
  <2>1. step \in Nat /\ horizon \in Nat
    BY Zenon, <1>1, SecondsFacts DEF Accepted
  <2>2. model.stepSec = step /\ model.horizonSec = horizon
    BY Zenon, <1>1 DEF ModelFor
  <2>3. /\ model.stepSec > 0 /\ len >= 1
        /\ len = model.horizonSec \div model.stepSec
    BY Zenon, <1>1 DEF Forecasts
  <2> HIDE DEF len, step, horizon
  <2> QED
    BY <2>1, <2>2, <2>3
<1>3. /\ snapshot'.DesiredReplicas = Plan /\ snapshot'.Values = forecast.values
      /\ snapshot'.StepSeconds = step /\ snapshot'.HorizonSeconds = horizon
  OBVIOUS
<1>4. len * step <= horizon /\ horizon < (len + 1) * step
  BY Zenon, <1>2, DivBounds
<1>6. Len(Plan) = len /\ \A j \in 1..Len(Plan) : Plan[j] \in wc.MinReplicas..wc.MaxReplicas
  BY PlanFacts
<1> HIDE DEF Plan, len, step, horizon
<1>7. SnapshotFits'
  BY Zenon, <1>2, <1>3, <1>4, <1>6 DEF SnapshotFits, len
<1>8. snapshot' # NoSnapshot
  <2>1. NoSnapshot.StepSeconds = 0
    BY Zenon DEF NoSnapshot
  <2> QED
    BY Zenon, <1>2, <1>3, <2>1
<1> QED
  BY Zenon, <1>3, <1>7, <1>8 DEF FirstCount

(* The first count of a plan, against the rate steps since the last stored *)
(* plan.                                                                   *)
LEMMA OneMoreStep ==
  ASSUME PlansRight, RatesRight, LoopInv, stage = "predicted"
  PROVE  /\ misses \in Nat /\ FirstCount \in Nat
         /\ wc.UpMaxFactorPerStep >= 100 =>
              Plan[1] \in Lowest(FirstCount, wc.DownMaxPercentPerStep, misses + 1)
                          ..Highest(FirstCount, wc.UpMaxFactorPerStep, misses + 1)
<1>1. Accepted(wc) /\ misses \in Nat /\ Built
  BY Zenon DEF LoopInv, ConfigInv, ReplicasInv, Built
<1>2. /\ wc.MinReplicas \in Nat /\ wc.MaxReplicas \in Nat
      /\ wc.UpMaxFactorPerStep \in Nat \ {0} /\ wc.DownMaxPercentPerStep \in 0..100
  BY Zenon, <1>1 DEF Accepted
<1>3. FirstCount \in Nat
  <2>1. snapshot # NoSnapshot =>
          snapshot.DesiredReplicas[1] \in wc.MinReplicas..wc.MaxReplicas
    <3> DEFINE len == Len(snapshot.Values)
    <3>1. snapshot # NoSnapshot =>
            /\ len >= 1
            /\ \A j \in 1..len :
                 snapshot.DesiredReplicas[j] \in wc.MinReplicas..wc.MaxReplicas
      BY DEF LoopInv, SnapshotFits
    <3>2. len \in Nat => (len >= 1 => 1 \in 1..len)
      OBVIOUS
    <3> QED
      BY <3>1, <3>2
  <2> QED
    BY <1>2, <2>1 DEF FirstCount
<1>4. current \in Nat /\ Plan[1] \in Nat
  BY <1>1, <1>2, PlanFacts DEF LoopInv, ReplicasInv
<1>5. ASSUME wc.UpMaxFactorPerStep >= 100
      PROVE  Plan[1] \in Lowest(FirstCount, wc.DownMaxPercentPerStep, misses + 1)
                         ..Highest(FirstCount, wc.UpMaxFactorPerStep, misses + 1)
  <2>1. current \in Lowest(FirstCount, wc.DownMaxPercentPerStep, misses)
                    ..Highest(FirstCount, wc.UpMaxFactorPerStep, misses)
    BY Zenon, <1>1, <1>5 DEF LoopInv, ReplicasInv
  <2>2. /\ Plan[1] <= MaxUp(IF current = 0 THEN 1 ELSE current, wc.UpMaxFactorPerStep)
        /\ Plan[1] >= MinDown(current, wc.DownMaxPercentPerStep)
    BY Zenon, <1>5, PlanFacts
  <2> HIDE DEF Plan
  <2> QED
    BY Zenon, <1>1, <1>2, <1>3, <1>4, <2>1, <2>2
       DEF RatesRight, StepsReach
<1> QED
  BY Zenon, <1>1, <1>3, <1>5

(* StoreSnapshot: the plan, stored or lost, and currentReplicas.           *)
LEMMA StoreInv ==
  ASSUME PlansRight, RatesRight
  PROVE  LoopInv /\ StoreSnapshot => LoopInv'
<1> SUFFICES ASSUME LoopInv, StoreSnapshot PROVE LoopInv'
  BY Zenon
<1>1. /\ stage = "predicted" /\ Built /\ stage' = "idle" /\ Built'
      /\ UNCHANGED <<wc, tick, model, trainedAt>>
  BY Zenon DEF StoreSnapshot, Store, EndTick, Built
<1>2. /\ wc.Adapter \in {"prometheus", "victoriametrics", "http"}
      /\ ModelFor(model, wc) /\ Accepted(wc)
  BY Zenon, <1>1 DEF LoopInv, ConfigInv
<1>3. /\ Len(Plan) >= 1 /\ Plan # << >> /\ Plan \in Seq(Nat)
      /\ \A j \in 1..Len(Plan) : Plan[j] \in wc.MinReplicas..wc.MaxReplicas
  BY Zenon, <1>1, PlanFacts
<1>4. current' = Plan[1]
  BY Zenon, <1>3 DEF StoreSnapshot, Store
<1>5. Plan[1] \in Nat /\ Plan[1] \in wc.MinReplicas..wc.MaxReplicas
  BY <1>2, <1>3 DEF Accepted
<1>6. /\ misses \in Nat /\ FirstCount \in Nat
      /\ wc.UpMaxFactorPerStep >= 100 =>
           Plan[1] \in Lowest(FirstCount, wc.DownMaxPercentPerStep, misses + 1)
                       ..Highest(FirstCount, wc.UpMaxFactorPerStep, misses + 1)
  BY Zenon, <1>1, OneMoreStep
<1>7. ConfigInv' /\ FrameInv' /\ ModelInv' /\ PanicsOnlyWithoutResiduals'
  <2>1. ConfigInv' /\ FrameInv' /\ PanicsOnlyWithoutResiduals'
    BY Zenon, <1>1, <1>2 DEF ConfigInv, FrameInv, RowsAreTheAnswer, PanicsOnlyWithoutResiduals
  <2>2. ModelInv'
    BY Zenon, <1>1 DEF LoopInv, ModelInv, Regressive
  <2> QED
    BY Zenon, <2>1, <2>2
<1>8. \/ /\ snapshot' = [DesiredReplicas |-> Plan, Values |-> forecast.values,
                         StepSeconds |-> Seconds(wc.Step),
                         HorizonSeconds |-> Seconds(wc.Horizon)]
         /\ misses' = 0
      \/ snapshot' = snapshot /\ misses' = misses + 1
  BY Zenon DEF StoreSnapshot, Store
<1> HIDE DEF Plan
<1>9. CASE misses' = 0
  <2>1. SnapshotFits' /\ FirstCount' = Plan[1]
    BY <1>1, <1>6, <1>8, <1>9, StoredFacts
  <2>2. /\ Highest(Plan[1], wc.UpMaxFactorPerStep, 0) = Plan[1]
        /\ Lowest(Plan[1], wc.DownMaxPercentPerStep, 0) = Plan[1]
    <3>1. /\ wc.UpMaxFactorPerStep \in Nat \ {0} /\ wc.DownMaxPercentPerStep \in 0..100
          /\ Plan[1] \in Nat /\ 0 \in Nat
      BY Zenon, <1>2, <1>5 DEF Accepted
    <3> QED
      BY Zenon, <3>1 DEF RatesRight, StepsReach
  <2>3. ReplicasInv'
    BY <1>1, <1>4, <1>5, <1>9, <2>1, <2>2 DEF ReplicasInv
  <2> QED
    BY Zenon, <1>7, <2>1, <2>3 DEF LoopInv
<1>10. CASE snapshot' = snapshot /\ misses' = misses + 1
  <2>1. FirstCount' = FirstCount
    BY Zenon, <1>1, <1>10 DEF FirstCount
  <2>2. SnapshotFits'
    BY Zenon, <1>1, <1>10 DEF LoopInv, SnapshotFits
  <2>3. ReplicasInv'
    BY <1>1, <1>4, <1>5, <1>6, <1>10, <2>1 DEF ReplicasInv
  <2> QED
    BY Zenon, <1>7, <2>2, <2>3 DEF LoopInv
<1> QED
  BY Zenon, <1>8, <1>9, <1>10

(* A step that changes nothing.                                            *)
LEMMA StutterInv ==
  ASSUME LoopInv, UNCHANGED loopVars
  PROVE  LoopInv'
<1>1. ConfigInv' /\ ModelInv'
  BY Zenon DEF loopVars, LoopInv, ConfigInv, ModelInv, Built, Regressive
<1>2. FrameInv'
  BY Zenon DEF loopVars, LoopInv, FrameInv, RowsAreTheAnswer, Regressive
<1>3. ReplicasInv'
  BY DEF loopVars, LoopInv, ReplicasInv, Built, FirstCount
<1>4. SnapshotFits' /\ PanicsOnlyWithoutResiduals'
  BY Zenon DEF loopVars, LoopInv, SnapshotFits, PanicsOnlyWithoutResiduals
<1> QED
  BY Zenon, <1>1, <1>2, <1>3, <1>4 DEF LoopInv

(* TrainingInv holds initially.                                            *)
LEMMA InitTraining == LoopInit => TrainingInv
<1>1. LoopInit => tick = 0 /\ trainedAt = 0 /\ stage = "flags"
  BY Zenon DEF LoopInit
<1> QED
  BY <1>1 DEF TrainingInv, Built

(* A step that leaves the model and both ticks alone, and does not train.  *)
LEMMA TrainingKept ==
  ASSUME TrainingInv, UNCHANGED <<tick, trainedAt, model>>, Built => Built',
         Built' => Built, stage' # "collected",
         stage' \in {"trained", "predicted"} =>
           stage \in {"trained", "predicted"} /\ frame' = frame
  PROVE  TrainingInv'
BY Zenon DEF TrainingInv, Regressive

(* TrainingInv and a training: the errors are those of this tick or older  *)
(* than it.                                                                *)
LEMMA TrainTraining ==
  ASSUME LoopInv, TrainingInv, TrainModel, BuildFeatures(frame).ok
  PROVE  TrainingInv'
<1> DEFINE n == Len(frame')
<1>1. PICK result : TrainedBy(result)
  BY Zenon, TrainedFacts
<1>2. /\ model' = result.model
      /\ trainedAt' = (IF result.err THEN trainedAt ELSE tick)
      /\ TrainResult(model, result, n, tick)
  BY Zenon, <1>1 DEF TrainedBy
<1>3. /\ stage = "collected" /\ Built /\ stage' = "trained" /\ Built' /\ tick' = tick
  BY Zenon, TrainedFacts DEF TrainModel, Built
<1>4. /\ tick \in Nat /\ trainedAt \in Nat /\ trainedAt < tick
      /\ Regressive => /\ model.lastErrors.from \in 0..trainedAt
                       /\ model.kind = "arima" => model.lastErrors.from = trainedAt
  BY <1>3 DEF TrainingInv
<1>5. CASE result.err /\ result.model = model
  <2>1. trainedAt' = trainedAt /\ model' = model
    BY Zenon, <1>2, <1>5
  <2>2. trainedAt' \in 0..tick' /\ trainedAt' # tick'
    BY <1>3, <1>4, <2>1
  <2> QED
    BY Zenon, <1>3, <1>4, <2>1, <2>2 DEF TrainingInv, Regressive
<1>6. CASE ~(result.err /\ result.model = model)
  <2>1. /\ trainedAt' = tick /\ model'.kind = model.kind /\ model'.order = model.order
        /\ Regressive =>
             model'.lastErrors.from
               = IF ReplacesErrors(model, n) THEN tick ELSE model.lastErrors.from
    BY Zenon, <1>2, <1>6 DEF TrainResult, Regressive
  <2>2. ReplacesErrors(model', n) <=> ReplacesErrors(model, n)
    BY Zenon, <2>1 DEF ReplacesErrors, Residuals
  <2>3. model.kind = "arima" => ReplacesErrors(model, n)
    BY DEF ReplacesErrors
  <2> DEFINE e == model.lastErrors.from
             replaced == ReplacesErrors(model, n)
  <2>4. Regressive =>
          /\ model'.lastErrors.from \in 0..tick
          /\ model.kind = "arima" => model'.lastErrors.from = tick
          /\ model'.lastErrors.from = tick <=> replaced
    <3>1. Regressive => e \in 0..trainedAt /\ e # tick /\ e \in 0..tick
      BY <1>4
    <3>2. tick \in 0..tick
      BY <1>4
    <3> QED
      BY Zenon, <2>1, <2>3, <3>1, <3>2
  <2>5. trainedAt' \in 0..tick' /\ tick' \in Nat
    BY <1>3, <1>4, <2>1
  <2> QED
    BY Zenon, <1>3, <2>1, <2>2, <2>4, <2>5 DEF TrainingInv, Regressive
<1> QED
  BY Zenon, <1>5, <1>6

(* Every step of the loop preserves TrainingInv.                           *)
LEMMA TrainingStep == LoopInv /\ TrainingInv /\ [LoopNext]_loopVars => TrainingInv'
<1> SUFFICES ASSUME LoopInv, TrainingInv, [LoopNext]_loopVars PROVE TrainingInv'
  BY Zenon
<1>1. CASE LoadWorkloads
  <2>1. /\ stage = "flags" /\ stage' \in {"loaded", "exited"}
        /\ UNCHANGED <<tick, trainedAt, model>>
    BY Zenon, <1>1 DEF LoadWorkloads, tickVars
  <2>2. ~Built /\ ~Built' /\ stage' \notin {"collected", "trained", "predicted"}
    BY <2>1 DEF Built
  <2> QED
    BY Zenon, <2>1, <2>2, TrainingKept
<1>2. CASE Build
  <2>1. stage = "loaded" /\ UNCHANGED <<tick, trainedAt>>
    BY Zenon, <1>2 DEF Build, tickVars
  <2>2. ~Built
    BY <2>1 DEF Built
  <2>3. tick \in Nat /\ trainedAt = 0
    BY Zenon, <2>2 DEF TrainingInv
  <2>4. CASE stage' = "idle"
    <3>1. model' = NewForWorkload(wc) /\ ~ModelPanics(wc) /\ Accepted(wc)
      BY Zenon, <1>2, <2>1, <2>4 DEF Build, LoopInv, ConfigInv
    <3>2. model'.lastErrors.from = 0
      <4>1. model'.lastErrors = NoErrors
        BY Zenon, <3>1, NewModelFacts DEF Accepted
      <4> QED
        BY <4>1 DEF NoErrors
    <3>3. stage' \notin {"collected", "trained", "predicted"}
      BY <2>4
    <3>4. 0 \in 0..0 /\ 0 \in 0..tick
      BY <2>3
    <3> QED
      BY Zenon, <2>1, <2>3, <3>2, <3>3, <3>4 DEF TrainingInv
  <2>5. CASE stage' # "idle"
    <3>1. stage' \in {"panicked", "exited"}
      BY Zenon, <1>2, <2>5 DEF Build
    <3>2. ~Built' /\ stage' # "collected"
      BY <3>1 DEF Built
    <3>3. 0 \in 0..tick
      BY <2>3
    <3> QED
      BY Zenon, <2>1, <2>3, <3>2, <3>3 DEF TrainingInv
  <2> QED
    BY Zenon, <2>4, <2>5
<1>3. CASE CollectMetrics
  <2>1. /\ stage = "idle" /\ tick' = tick + 1 /\ UNCHANGED <<model, trainedAt>>
        /\ stage' \in {"idle", "collected"}
    BY Zenon, <1>3 DEF CollectMetrics, EndTick
  <2>2. Built /\ Built' /\ stage' \notin {"trained", "predicted"}
    BY <2>1 DEF Built
  <2>3. tick' \in Nat /\ trainedAt' \in 0..tick' /\ trainedAt' < tick'
    BY <2>1 DEF TrainingInv
  <2> QED
    BY Zenon, <2>1, <2>2, <2>3 DEF TrainingInv, Regressive
<1>4. CASE TrainModel
  <2>1. CASE BuildFeatures(frame).ok
    BY Zenon, <1>4, <2>1, TrainTraining
  <2>2. CASE ~BuildFeatures(frame).ok
    <3>1. /\ stage = "collected" /\ stage' = "idle"
          /\ UNCHANGED <<tick, trainedAt, model>>
      BY Zenon, <1>4, <2>2 DEF TrainModel, EndTick
    <3>2. Built /\ Built' /\ stage' \notin {"collected", "trained", "predicted"}
      BY <3>1 DEF Built
    <3> QED
      BY Zenon, <3>1, <3>2, TrainingKept
  <2> QED
    BY Zenon, <2>1, <2>2
<1>5. CASE PredictLoad
  <2>1. /\ stage = "trained" /\ stage' \in {"idle", "ended", "predicted"}
        /\ UNCHANGED <<tick, trainedAt, model>>
        /\ stage' = "predicted" => frame' = frame
    BY Zenon, <1>5 DEF PredictLoad, EndTick
  <2>2. Built /\ Built' /\ stage' \notin {"collected", "trained"}
    BY <2>1 DEF Built
  <2> QED
    BY Zenon, <2>1, <2>2, TrainingKept
<1>6. CASE StoreSnapshot
  <2>1. /\ stage = "predicted" /\ stage' = "idle" /\ UNCHANGED <<tick, trainedAt, model>>
    BY Zenon, <1>6 DEF StoreSnapshot, Store, EndTick
  <2>2. Built /\ Built' /\ stage' \notin {"collected", "trained", "predicted"}
    BY <2>1 DEF Built
  <2> QED
    BY Zenon, <2>1, <2>2, TrainingKept
<1>7. CASE UNCHANGED loopVars
  BY Zenon, <1>7 DEF loopVars, TrainingInv, Built, Regressive
<1> QED
  BY Zenon, <1>1, <1>2, <1>3, <1>4, <1>5, <1>6, <1>7 DEF LoopNext

(* The trainings that the loads and the errors of a forecast come from.    *)
LEMMA ContinuesInv == LoopInv /\ TrainingInv => ContinuesLastTraining
<1> SUFFICES ASSUME LoopInv, TrainingInv, stage = "predicted"
             PROVE  ContinuesLastTraining
  BY Zenon DEF ContinuesLastTraining
<1>1. /\ Built /\ Forecasts(model, forecast, frame, tick)
      /\ Regressive => model.trained
  BY Zenon DEF LoopInv, FrameInv, Built
<1>2. Regressive => model.lastValues.from = trainedAt
  BY Zenon, <1>1 DEF LoopInv, ModelInv
<1>3. /\ ~Regressive => forecast.base = tick
      /\ Regressive => /\ forecast.base = trainedAt
                       /\ forecast.errors = model.lastErrors.from
  BY Zenon, <1>1, <1>2 DEF Forecasts, Regressive
<1>4. Regressive =>
        /\ model.lastErrors.from \in 0..trainedAt
        /\ model.kind = "arima" => model.lastErrors.from = trainedAt
        /\ trainedAt = tick =>
             (model.lastErrors.from = tick <=> ReplacesErrors(model, Len(frame)))
  BY Zenon, <1>1 DEF TrainingInv
<1>5. Regressive => forecast.errors <= trainedAt
  <2>1. trainedAt \in Int
    BY DEF TrainingInv
  <2> QED
    BY <1>3, <1>4, <2>1
<1> QED
  BY Zenon, <1>3, <1>4, <1>5 DEF ContinuesLastTraining, Regressive

(* The pattern of the baseline, by the arithmetic of minutes and hours.    *)
LEMMA SeasonInv == LoopInv => SeasonLagsByCarry
<1> SUFFICES ASSUME LoopInv, stage = "predicted", NEW k \in DOMAIN forecast.seasons
             PROVE  LagsByCarry(forecast.seasons[k], frame[Len(frame)].timestamp,
                                k * model.stepSec)
  BY Zenon DEF SeasonLagsByCarry
<1> DEFINE last == frame[Len(frame)]
           x == last.timestamp
           step == model.stepSec
           a == k * step
           aheadMinute == (((x \div 60) % 60) + a \div 60) % 60
           aheadHour == (((x \div 3600) % 24) + a \div 3600) % 24
           season == forecast.seasons[k]
<1>1. /\ Forecasts(model, forecast, frame, tick) /\ Featured(frame)
      /\ Accepted(wc) /\ ModelFor(model, wc)
  BY Zenon DEF LoopInv, FrameInv, ConfigInv, Built
<1>2. step \in Nat
  BY Zenon, <1>1, SecondsFacts DEF ModelFor, Accepted
<1>3. /\ x \in Int /\ last.hour = (x \div 3600) % 24
      /\ last.minute = (x \div 60) % 60
  <2>1. Len(frame) \in 1..Len(frame)
    BY <1>1 DEF Featured
  <2> QED
    BY <1>1, <2>1 DEF Featured
<1>4. forecast.seasons = [j \in 1..Steps(model) |-> Season(model, last, j)]
  <2>1. forecast.seasons # << >>
    OBVIOUS
  <2> QED
    BY Zenon, <1>1, <2>1 DEF Forecasts
<1>5. k \in 1..Steps(model) /\ season = Season(model, last, k)
  BY Zenon, <1>4
<1>6. k \in Nat /\ a \in Nat
  BY <1>2, <1>5
<1>7. /\ season.unit = "minute" => season.bucket = aheadMinute
      /\ season.unit = "hour" => season.bucket = aheadHour
  <2>1. /\ (last.minute + a \div 60) % 60 = aheadMinute
        /\ (last.hour + a \div 3600) % 24 = aheadHour
    BY <1>3
  <2> HIDE DEF last, x, a, aheadMinute, aheadHour, season
  <2>2. season \in {[unit |-> "minute", bucket |-> aheadMinute],
                    [unit |-> "hour", bucket |-> aheadHour],
                    [unit |-> "none", bucket |-> 0]}
    BY <1>5, <2>1 DEF Season, a, step
  <2> QED
    BY <2>2
<1>8. AddedSeasons(x, a)
  <2>1. x \in Int /\ a \in Nat
    BY <1>3, <1>6
  <2> HIDE DEF last, x, a
  <2> QED
    BY Zenon, <2>1, SeasonArithmetic
<1>9. LagsByCarry(season, x, a)
  <2>1. /\ aheadMinute = ((x + a) \div 60 - Carry(x, a, 60)) % 60
        /\ aheadHour = ((x + a) \div 3600 - Carry(x, a, 3600)) % 24
    <3> HIDE DEF last, x, a, season
    <3> QED
      BY <1>8 DEF AddedSeasons
  <2> HIDE DEF last, x, step, a, aheadMinute, aheadHour, season
  <2> QED
    BY <1>7, <2>1 DEF LagsByCarry
<1> QED
  BY <1>9

(* A stored plan, against the plan stored before.                          *)
LEMMA DriftStep ==
  ASSUME PlansRight, RatesRight, LoopInv, LoopNext, stage = "predicted", misses' = 0,
         wc.UpMaxFactorPerStep >= 100
  PROVE  WithinSteps
<1>1. StoreSnapshot
  BY Zenon
     DEF LoopNext, LoadWorkloads, Build, CollectMetrics, TrainModel, PredictLoad
<1>2. /\ misses \in Nat
      /\ Plan[1] \in Lowest(FirstCount, wc.DownMaxPercentPerStep, misses + 1)
                     ..Highest(FirstCount, wc.UpMaxFactorPerStep, misses + 1)
  BY OneMoreStep
<1>3. /\ UNCHANGED wc
      /\ snapshot' = [DesiredReplicas |-> Plan, Values |-> forecast.values,
                      StepSeconds |-> Seconds(wc.Step),
                      HorizonSeconds |-> Seconds(wc.Horizon)]
  <2>1. misses' # misses + 1
    BY <1>2
  <2> QED
    BY Zenon, <1>1, <2>1 DEF StoreSnapshot, Store
<1>4. FirstCount' = Plan[1]
  BY Zenon, <1>3, StoredFacts
<1> QED
  BY <1>2, <1>4 DEF WithinSteps

------------------------------------------------------------------------------
(* The backtest.                                                           *)

Counted == windows + skipped

Aligned(points, p) ==
  LET time == points[p.actual + 1].ts \div 1000
  IN p.predicted = time /\ p.seen < time

(* While it runs, the position is where Counted strides lead, and all of   *)
(* them but the last one left room for a horizon.                          *)
Progress ==
  /\ Buildable(job) /\ ~ModelPanics(job)
  /\ windowSteps \in Nat \ {0} /\ horizonSteps \in Nat
  /\ position = windowSteps + Counted * strideSteps
  /\ windowSteps + horizonSteps <= Len(job.points)
  /\ Counted > 0 =>
       windowSteps + (Counted - 1) * strideSteps + horizonSteps <= Len(job.points)

(* The three lists a comparison appends to, and the pairs in them.         *)
Paired ==
  /\ IsSeq(pairs) /\ IsSeq(planned) /\ IsSeq(needed)
  /\ Len(planned) = Len(pairs) /\ Len(needed) = Len(pairs)
  /\ Regular => \A n \in 1..Len(pairs) : Aligned(job.points, pairs[n])

BacktestInv ==
  /\ job \in Jobs /\ windows \in Nat /\ skipped \in Nat
  /\ Paired
  /\ phase = "flags" => windows = 0 /\ skipped = 0
  /\ phase = "running" => Progress
  /\ phase = "report" =>
       Counted = (Len(job.points) - windowSteps - horizonSteps) \div strideSteps + 1

(* The point k after the i-th is k steps later, in seconds.                *)
Ahead(i, k) ==
  job.points[i + k].ts \div 1000
    = job.points[i].ts \div 1000 + k * Seconds(job.Step)

(* The instants of a regular series.                                       *)
LEMMA RegularFacts ==
  ASSUME Inductive, job \in Job, Regular, NEW i \in Nat, NEW k \in Nat, i >= 1,
         i + k <= Len(job.points)
  PROVE  Ahead(i, k)
<1> DEFINE p == job.points
           step == job.Step
           q == Seconds(job.Step)
<1>1. p \in Seq(Sample) /\ step \in Int
  BY Zenon DEF Job
<1>2. Len(p) \in Nat /\ \A j \in 1..Len(p) : p[j].ts \in Int
  <2>1. \A j \in 1..Len(p) : p[j] \in Sample
    BY Zenon, <1>1, ElementFacts
  <2> QED
    BY Zenon, <1>1, <2>1, LengthFacts DEF Sample
<1>3. q \in Int /\ step = 1000 * q
  BY <1>1 DEF Regular, Seconds
<1>4. \A j \in 1..Len(p) - 1 : p[j + 1].ts = p[j].ts + step
  BY DEF Regular
<1> HIDE DEF p, step, q
<1> DEFINE T == {n \in Nat : i + n <= Len(p) =>
                               p[i + n].ts \div 1000 = p[i].ts \div 1000 + n * q}
<1>5. 0 \in T
  BY <1>2, <1>3
<1>6. ASSUME NEW n \in Nat, n \in T PROVE n + 1 \in T
  <2>1. CASE i + (n + 1) <= Len(p)
    <3>1. i + n \in 1..Len(p) - 1 /\ i + n <= Len(p) /\ i + (n + 1) = (i + n) + 1
      BY <1>2, <2>1
    <3>2. p[i + n].ts \in Int /\ p[i].ts \in Int
      BY <1>2, <3>1
    <3>3. p[i + (n + 1)].ts = p[i + n].ts + 1000 * q
      <4>1. p[(i + n) + 1].ts = p[i + n].ts + step
        BY <1>4, <3>1, Zenon
      <4>2. p[i + (n + 1)].ts = p[(i + n) + 1].ts
        BY Zenon, <3>1
      <4> QED
        BY <1>3, <4>1, <4>2
    <3>4. \A x \in Int : (x + 1000 * q) \div 1000 = x \div 1000 + q
      BY <1>3
    <3>5. p[i + (n + 1)].ts \div 1000 = p[i + n].ts \div 1000 + q
      <4> DEFINE x == p[i + n].ts
      <4>1. x \in Int /\ p[i + (n + 1)].ts = x + 1000 * q
        BY <3>2, <3>3
      <4> HIDE DEF x
      <4>2. (x + 1000 * q) \div 1000 = x \div 1000 + q
        BY <3>4, <4>1
      <4> QED
        BY <4>1, <4>2 DEF x
    <3>6. p[i + n].ts \div 1000 = p[i].ts \div 1000 + n * q
      BY <1>6, <3>1
    <3>7. (n + 1) * q = n * q + q
      BY <1>3
    <3>8. n * q \in Int /\ p[i].ts \div 1000 \in Int
      BY <1>3, <3>2
    <3> QED
      BY <1>3, <3>5, <3>6, <3>7, <3>8
  <2>2. CASE ~(i + (n + 1) <= Len(p))
    BY <2>2
  <2> QED
    BY Zenon, <2>1, <2>2
<1> HIDE DEF T
<1>7. k \in T
  BY Zenon, <1>5, <1>6 DEF Inductive
<1> QED
  BY <1>7 DEF T, p, q, Ahead

(* What the flags of a run that is under way are.                          *)
LEMMA JobFacts ==
  ASSUME job \in Jobs, job.Step > 0
  PROVE  /\ job \in Job /\ job.Step \in Nat \ {0}
         /\ Len(job.points) \in Nat /\ strideSteps \in Nat \ {0}
         /\ windowSteps \in Int /\ horizonSteps \in Int
<1>1. /\ job \in Job /\ job.Step \in Int /\ job.Stride \in Int /\ job.Window \in Int
      /\ job.Horizon \in Int /\ job.points \in Seq(Sample)
  BY Zenon, JobsAssumption DEF Job
<1>2. job.Stride \div job.Step \in Int /\ windowSteps \in Int /\ horizonSteps \in Int
  BY <1>1 DEF windowSteps, horizonSteps
<1>3. strideSteps \in Nat \ {0}
  BY <1>2, MaxTwo DEF strideSteps
<1> QED
  BY <1>1, <1>2, <1>3, LengthFacts

(* A step that appends nothing keeps the pairs.                            *)
LEMMA PairedKept ==
  ASSUME Paired, UNCHANGED <<job, pairs, planned, needed>>
  PROVE  Paired'
<1>1. Regular' <=> Regular
  BY DEF Regular
<1>2. \A n \in 1..Len(pairs) : Aligned(job.points, pairs[n])' <=> Aligned(job.points, pairs[n])
  BY Zenon
<1> QED
  BY Zenon, <1>1, <1>2 DEF Paired

(* One more window, compared or skipped.                                   *)
LEMMA ProgressStep ==
  ASSUME BacktestInv, phase = "running", position + horizonSteps <= Len(job.points),
         job' = job, position' = position + strideSteps,
         Counted' = Counted + 1
  PROVE  Progress'
<1>1. Progress /\ job \in Jobs /\ windows \in Nat /\ skipped \in Nat
  BY DEF BacktestInv
<1>2. Counted \in Nat
  BY <1>1 DEF Counted
<1>3. strideSteps \in Nat \ {0} /\ horizonSteps \in Nat /\ windowSteps \in Nat
  BY <1>1, JobFacts DEF Progress, Buildable
<1>4. /\ windowSteps' = windowSteps /\ horizonSteps' = horizonSteps
      /\ strideSteps' = strideSteps
  BY DEF windowSteps, horizonSteps, strideSteps
<1>5. (Counted + 1) * strideSteps = Counted * strideSteps + strideSteps
  BY <1>2, <1>3
<1>6. Counted * strideSteps \in Nat
  BY <1>2, <1>3
<1>7. position = windowSteps + Counted * strideSteps
  BY Zenon, <1>1 DEF Progress
<1>8. position' = windowSteps' + Counted' * strideSteps'
  BY <1>3, <1>4, <1>5, <1>6, <1>7
<1>9. windowSteps' + (Counted' - 1) * strideSteps' + horizonSteps' <= Len(job'.points)
  <2>1. Counted' - 1 = Counted
    BY <1>2
  <2> QED
    BY Zenon, <1>4, <1>7, <2>1
<1> HIDE DEF windowSteps, horizonSteps, strideSteps, Counted
<1> QED
  BY Zenon, <1>1, <1>4, <1>8, <1>9 DEF Progress

(* There are w rows and the newest is that of a point.                     *)
Newest(rows, w, point) ==
  /\ Len(rows) = w
  /\ rows[w].timestamp = point.ts \div 1000 /\ rows[w].value = point.value

(* The rows of a window and the newest of them.                            *)
LEMMA HistoryFacts ==
  ASSUME NEW points, NEW to \in Nat, NEW w \in Nat \ {0}
  PROVE  Newest(BuildFeatures(historyDataFrame(points, to - w, to)).rows,
                w, points[to])
<1> DEFINE h == historyDataFrame(points, to - w, to)
           e(j) == [ts |-> points[to - w + j].ts \div 1000,
                    value |-> points[to - w + j].value]
           g(r) == [value |-> r.value, timestamp |-> r.ts,
                    hour |-> (r.ts \div 3600) % 24, minute |-> (r.ts \div 60) % 60]
           rows == BuildFeatures(h).rows
<1>1. to - (to - w) = w /\ to - w + w = to
  OBVIOUS
<1>2. h = [j \in 1..w |-> e(j)]
  BY Zenon, <1>1 DEF historyDataFrame
<1>3. e(w).ts = points[to].ts \div 1000 /\ e(w).value = points[to].value
  BY <1>1
<1> HIDE DEF e, h
<1>4. DOMAIN h = 1..w /\ \A j \in 1..w : h[j] = e(j)
  BY Zenon, <1>2
<1>5. rows = [j \in 1..w |-> g(h[j])]
  <2>1. rows = [j \in DOMAIN h |-> g(h[j])]
    BY Zenon DEF BuildFeatures
  <2> QED
    BY Zenon, <1>4, <2>1
<1>6. \A r : g(r).timestamp = r.ts /\ g(r).value = r.value
  OBVIOUS
<1> HIDE DEF g, rows
<1>7. Len(rows) = w
  <2> DEFINE R == {g(h[j]) : j \in 1..w}
  <2>1. rows \in [1..w -> R]
    BY Zenon, <1>5
  <2> HIDE DEF R
  <2> QED
    BY Zenon, <2>1, ArrayIsSeq
<1>8. w \in 1..w /\ rows[w] = g(h[w])
  BY <1>5
<1>9. rows[w].timestamp = points[to].ts \div 1000 /\ rows[w].value = points[to].value
  BY <1>3, <1>4, <1>6, <1>8
<1> QED
  BY <1>7, <1>9 DEF rows, h, Newest

(* A forecast of the backtest has at least one value.                      *)
LEMMA EvaluationFacts ==
  ASSUME Buildable(job), ~ModelPanics(job), NEW rows, Len(rows) \in Nat,
         rows[Len(rows)].value \in Int,
         NEW trained \in Train(NewForWorkload(job), rows, 1),
         NEW result \in Predict(trained.model, rows, 1), result.kind = "ok"
  PROVE  Len(result.forecast.values) \in Nat
<1> DEFINE m == NewForWorkload(job)
<1>1. ModelFor(m, job) /\ ~m.trained
  BY Zenon, NewModelFacts
<1>2. TrainResult(m, trained, Len(rows), 1)
  <2>1. /\ IsModel(m) /\ m.kind \in {"baseline", "arima", "sarima", "byom"}
        /\ OrderOK(m.kind, m.order)
    BY <1>1 DEF ModelFor, Buildable
  <2> HIDE DEF m
  <2> QED
    BY Zenon, <2>1, TrainFacts DEF m
<1> HIDE DEF m
<1>3. ModelFor(trained.model, job)
  BY Zenon, <1>1, <1>2 DEF ModelFor, TrainResult
<1>4. PredictResult(trained.model, result, rows, 1)
  <2>1. /\ Seconds(job.Step) \in Nat /\ Seconds(job.Horizon) \in Nat
        /\ Seconds(job.Step) <= Seconds(job.Horizon)
    BY SecondsFacts
  <2>2. Predictable(trained.model)
    BY Zenon, <1>1, <1>2, <1>3, <2>1 DEF ModelFor, Buildable, Predictable, TrainResult
  <2> QED
    BY Zenon, <2>2, PredictFacts
<1>5. Forecasts(trained.model, result.forecast, rows, 1)
  BY Zenon, <1>4 DEF PredictResult
<1> QED
  BY Zenon, <1>5, LengthFacts DEF Forecasts

(* A comparison of a forecast made from the rows that end with last.       *)
Compares(f, last) ==
  /\ phase = "running" /\ position + horizonSteps <= Len(job.points) /\ job' = job
  /\ Len(f.values) \in Nat /\ last.timestamp = job.points[position].ts \div 1000
  /\ Compare(f, last)

(* A comparison keeps the lists paired and every pair aligned.             *)
LEMMA CompareInv ==
  ASSUME Inductive, BacktestInv, NEW f, NEW last, Compares(f, last)
  PROVE  BacktestInv'
<1>0. /\ phase = "running" /\ position + horizonSteps <= Len(job.points) /\ job' = job
      /\ Len(f.values) \in Nat /\ last.timestamp = job.points[position].ts \div 1000
      /\ Compare(f, last)
  BY Zenon DEF Compares
<1> USE <1>0
<1>1. /\ Progress /\ job \in Jobs /\ windows \in Nat /\ skipped \in Nat
      /\ IsSeq(pairs) /\ IsSeq(planned) /\ IsSeq(needed)
      /\ Len(planned) = Len(pairs) /\ Len(needed) = Len(pairs)
      /\ Regular => \A n \in 1..Len(pairs) : Aligned(job.points, pairs[n])
  BY DEF BacktestInv, Paired
<1>2. /\ job \in Job /\ job.Step \in Nat \ {0} /\ Len(job.points) \in Nat
      /\ strideSteps \in Nat \ {0} /\ windowSteps \in Nat \ {0} /\ horizonSteps \in Nat
  BY <1>1, JobFacts DEF Progress, Buildable
<1>3. position \in Nat /\ position >= 1
  <2>1. Counted * strideSteps \in Nat
    BY <1>1, <1>2 DEF Counted
  <2>2. position = windowSteps + Counted * strideSteps
    BY Zenon, <1>1 DEF Progress
  <2> HIDE DEF windowSteps, strideSteps, Counted
  <2> QED
    BY <1>2, <2>1, <2>2
<1> DEFINE replicas == ToReplicas(prevReplicas, f.values, PolicyOf(job), f.quantiles)
           count == Min({Len(f.values), horizonSteps})
           p == [k \in 1..count |->
                   [seen |-> last.timestamp,
                    predicted |-> last.timestamp + k * Seconds(job.Step),
                    actual |-> position + k - 1]]
           plan == [k \in 1..count |-> replicas[k]]
           need == [k \in 1..count |->
                      neededReplicas(job.points[position + k - 1 + 1].value)]
<1>4. /\ pairs' = pairs \o p /\ planned' = planned \o plan /\ needed' = needed \o need
      /\ windows' = windows + 1 /\ position' = position + strideSteps
      /\ phase' = phase /\ skipped' = skipped
  BY Zenon DEF Compare
<1>5. count \in Nat /\ count <= horizonSteps
  BY <1>2, MinTwo
<1> HIDE DEF count, replicas
<1>6. /\ p = [k \in 1..count |-> p[k]] /\ plan = [k \in 1..count |-> plan[k]]
      /\ need = [k \in 1..count |-> need[k]]
  BY Zenon
<1>7. \A k \in 1..count : /\ p[k].seen = last.timestamp
                          /\ p[k].predicted = last.timestamp + k * Seconds(job.Step)
                          /\ p[k].actual = position + k - 1
  BY Zenon
<1> HIDE DEF p, plan, need
<1>8. /\ IsSeq(pairs') /\ Len(pairs') = Len(pairs) + count
      /\ \A i \in 1..Len(pairs) : pairs'[i] = pairs[i]
      /\ \A i \in 1..count : pairs'[Len(pairs) + i] = p[i]
  <2>1. Appended(pairs, p, count, pairs')
    BY <1>1, <1>4, <1>5, <1>6, ConcatFacts
  <2> QED
    BY <2>1 DEF Appended
<1>9. IsSeq(planned') /\ Len(planned') = Len(planned) + count
  <2>1. Appended(planned, plan, count, planned')
    BY <1>1, <1>4, <1>5, <1>6, ConcatFacts
  <2> QED
    BY <2>1 DEF Appended
<1>10. IsSeq(needed') /\ Len(needed') = Len(needed) + count
  <2>1. Appended(needed, need, count, needed')
    BY <1>1, <1>4, <1>5, <1>6, ConcatFacts
  <2> QED
    BY <2>1 DEF Appended
<1>11. ASSUME Regular, NEW k \in 1..count
       PROVE  Aligned(job.points, p[k])
  <2> DEFINE t == job.points[position].ts \div 1000
             q == Seconds(job.Step)
             time == job.points[position + k].ts \div 1000
  <2>1. time = t + k * q
    <3>1. k \in Nat /\ position + k <= Len(job.points)
      BY <1>2, <1>3, <1>5
    <3>2. Ahead(position, k)
      BY <1>2, <1>3, <1>11, <3>1, RegularFacts
    <3> QED
      BY <3>2 DEF Ahead
  <2>2. position + k - 1 + 1 = position + k
    BY <1>3
  <2>3. /\ p[k].seen = t /\ p[k].predicted = t + k * q
        /\ p[k].actual + 1 = position + k
    BY <1>7, <2>2
  <2>4. q \in Nat /\ q >= 1
    BY <1>2, <1>11 DEF Regular, Seconds
  <2>5. k * q >= 1 /\ k * q \in Nat
    <3>1. k \in Nat /\ k >= 1
      BY <1>5
    <3>2. PICK x \in Nat : k = x + 1
      BY <3>1
    <3> HIDE DEF q
    <3>3. k * q = x * q + q /\ x * q \in Nat
      BY <2>4, <3>2
    <3> QED
      BY <2>4, <3>3
  <2>6. t \in Int
    <3>1. job.points \in Seq(Sample)
      BY <1>2 DEF Job
    <3>2. position \in 1..Len(job.points)
      BY <1>2, <1>3
    <3>3. job.points[position] \in Sample
      BY <3>1, <3>2, ElementFacts
    <3> QED
      BY <3>3 DEF Sample
  <2> HIDE DEF t, q, time
  <2>7. p[k].predicted = time /\ p[k].seen < time
    BY <2>1, <2>3, <2>5, <2>6
  <2> QED
    BY <2>3, <2>7 DEF Aligned, time
<1>12. ASSUME Regular', NEW n \in 1..Len(pairs')
       PROVE  Aligned(job.points, pairs[n])'
  <2>1. Regular
    BY <1>12 DEF Regular
  <2>3. Len(pairs) \in Nat
    BY <1>1 DEF IsSeq
  <2>4. CASE n \in 1..Len(pairs)
    <3>1. pairs'[n] = pairs[n] /\ Aligned(job.points, pairs[n])
      BY <1>1, <1>8, <2>1, <2>4
    <3> QED
      BY Zenon, <3>1
  <2>5. CASE n \notin 1..Len(pairs)
    <3>1. PICK i \in 1..count : n = Len(pairs) + i
      <4>1. n - Len(pairs) \in 1..count /\ n = Len(pairs) + (n - Len(pairs))
        BY <1>5, <1>8, <2>3, <2>5
      <4> QED
        BY <4>1
    <3>2. pairs'[n] = p[i] /\ Aligned(job.points, p[i])
      BY <1>8, <1>11, <2>1, <3>1
    <3> QED
      BY Zenon, <3>2
  <2> QED
    BY <2>4, <2>5
<1>13. Progress'
  <2>1. Counted' = Counted + 1
    BY <1>1, <1>4 DEF Counted
  <2> QED
    BY <1>4, <2>1, ProgressStep
<1>14. windows' \in Nat /\ skipped' \in Nat
  BY <1>1, <1>4
<1>15. Paired'
  BY <1>1, <1>8, <1>9, <1>10, <1>12 DEF Paired
<1> QED
  BY Zenon, <1>1, <1>4, <1>13, <1>14, <1>15 DEF BacktestInv

(* The initial states satisfy BacktestInv, every step preserves it, and it *)
(* implies the property.                                                   *)
LEMMA BacktestSteps ==
  ASSUME Inductive
  PROVE  /\ BacktestInit => BacktestInv
         /\ BacktestInv /\ [BacktestNext]_backtestVars => BacktestInv'
         /\ BacktestInv => BacktestAligned
<1>1. BacktestInit => BacktestInv
  <2> SUFFICES ASSUME BacktestInit PROVE BacktestInv
    OBVIOUS
  <2>1. /\ job \in Jobs /\ phase = "flags" /\ windows = 0 /\ skipped = 0
        /\ pairs = << >> /\ planned = << >> /\ needed = << >>
    BY DEF BacktestInit, NothingCounted
  <2>2. IsSeq(<< >>) /\ Len(<< >>) = 0
    BY Zenon, EmptyFacts, IsSeqFacts
  <2> QED
    BY <2>1, <2>2 DEF BacktestInv, Paired
<1>2. ASSUME BacktestInv, StartBacktest PROVE BacktestInv'
  <2>1. /\ UNCHANGED <<job, windows, skipped, pairs, planned, needed>>
        /\ phase = "flags" /\ job \in Jobs /\ windows = 0 /\ skipped = 0
        /\ phase' \in {"running", "failed", "panicked"}
    BY Zenon, <1>2 DEF StartBacktest, BacktestInv
  <2>2. Paired'
    BY Zenon, <1>2, <2>1, PairedKept DEF BacktestInv
  <2>4. phase' = "running" => Progress'
    <3> SUFFICES ASSUME phase' = "running" PROVE Progress'
      BY Zenon
    <3>1. FlagsOK /\ RunOK /\ ~ModelPanics(job) /\ position' = windowSteps
      BY Zenon, <1>2 DEF StartBacktest
    <3>2. /\ job.Model \in {"baseline", "arima", "sarima", "byom"}
          /\ job.Step > 0 /\ job.Horizon >= job.Step /\ job.Window >= job.Step
          /\ Len(job.points) >= windowSteps + horizonSteps
      BY Zenon, <3>1 DEF FlagsOK, RunOK
    <3>3. /\ job.Step \in Nat \ {0} /\ job.Horizon \in Nat /\ job.Window \in Nat
          /\ job.Order \in Orders
      BY <2>1, <3>2, JobsAssumption DEF Job
    <3>4. windowSteps \in Nat \ {0} /\ horizonSteps \in Nat
      <4>1. \A x, y \in Nat : y # 0 /\ x >= y => x \div y \in Nat \ {0}
        OBVIOUS
      <4> QED
        BY Zenon, <3>2, <3>3, <4>1 DEF windowSteps, horizonSteps
    <3>5. /\ windowSteps' = windowSteps /\ horizonSteps' = horizonSteps
          /\ strideSteps' = strideSteps /\ Counted' = 0
      BY <2>1 DEF windowSteps, horizonSteps, strideSteps, Counted
    <3>6. 0 * strideSteps = 0 /\ Len(job.points) \in Nat
      BY <2>1, <3>2, JobFacts
    <3>7. Buildable(job)
      BY Zenon, <3>2, <3>3 DEF Buildable
    <3> HIDE DEF windowSteps, horizonSteps, strideSteps, Counted
    <3> QED
      BY <2>1, <3>1, <3>2, <3>4, <3>5, <3>6, <3>7 DEF Progress
  <2> QED
    BY Zenon, <2>1, <2>2, <2>4 DEF BacktestInv
<1>3. ASSUME BacktestInv, Evaluate PROVE BacktestInv'
  <2> DEFINE rows == BuildFeatures(historyDataFrame(job.points,
                                     position - windowSteps, position)).rows
  <2>1. phase = "running" /\ position + horizonSteps <= Len(job.points) /\ job' = job
    BY Zenon, <1>3 DEF Evaluate
  <2>2. PICK trained \in Train(NewForWorkload(job), rows, 1) :
          \E result \in Predict(trained.model, rows, 1) :
            \/ result.kind = "error" /\ Skip
            \/ result.kind = "ok" /\ Compare(result.forecast, rows[Len(rows)])
            \/ /\ result.kind = "panic" /\ phase' = "panicked"
               /\ UNCHANGED <<position, windows, skipped, pairs, planned, needed,
                              prevReplicas>>
    BY Zenon, <1>3 DEF Evaluate
  <2>3. PICK result \in Predict(trained.model, rows, 1) :
          \/ result.kind = "error" /\ Skip
          \/ result.kind = "ok" /\ Compare(result.forecast, rows[Len(rows)])
          \/ /\ result.kind = "panic" /\ phase' = "panicked"
             /\ UNCHANGED <<position, windows, skipped, pairs, planned, needed,
                            prevReplicas>>
    BY Zenon, <2>2
  <2>4. Progress /\ job \in Jobs /\ windows \in Nat /\ skipped \in Nat
    BY Zenon, <1>3, <2>1 DEF BacktestInv
  <2>5. windowSteps \in Nat \ {0} /\ position \in Nat
    <3>1. strideSteps \in Nat \ {0} /\ windowSteps \in Nat \ {0}
      BY <2>4, JobFacts DEF Progress, Buildable
    <3>2. Counted * strideSteps \in Nat
      BY <2>4, <3>1 DEF Counted
    <3> HIDE DEF windowSteps, strideSteps, Counted
    <3> QED
      BY <2>4, <3>1, <3>2 DEF Progress
  <2>6. /\ Len(rows) = windowSteps
        /\ rows[Len(rows)].timestamp = job.points[position].ts \div 1000
        /\ rows[Len(rows)].value = job.points[position].value
    <3>1. Newest(rows, windowSteps, job.points[position])
      BY Zenon, <2>5, HistoryFacts
    <3> HIDE DEF rows
    <3> QED
      BY <3>1 DEF Newest
  <2>7. job.points[position].value \in Int
    <3>1. job \in Job /\ job.points \in Seq(Sample)
      BY Zenon, <2>4, JobsAssumption DEF Job
    <3>2. position \in 1..Len(job.points)
      <4>1. Counted * strideSteps \in Nat /\ Len(job.points) \in Nat
        BY <2>4, JobFacts DEF Progress, Buildable, Counted
      <4> HIDE DEF windowSteps, strideSteps, horizonSteps, Counted
      <4> QED
        BY <2>1, <2>4, <2>5, <4>1 DEF Progress
    <3>3. job.points[position] \in Sample
      BY Zenon, <3>1, <3>2, ElementFacts
    <3> QED
      BY Zenon, <3>3 DEF Sample
  <2> HIDE DEF rows
  <2>8. CASE result.kind = "error" /\ Skip
    <3>1. /\ skipped' = skipped + 1 /\ position' = position + strideSteps
          /\ UNCHANGED <<phase, windows, pairs, planned, needed, prevReplicas>>
      BY Zenon, <2>8 DEF Skip
    <3>2. Counted' = Counted + 1
      BY <2>4, <3>1 DEF Counted
    <3>3. Progress'
      BY Zenon, <1>3, <2>1, <3>1, <3>2, ProgressStep
    <3>4. skipped' \in Nat
      BY <2>4, <3>1
    <3>5. Paired'
      BY Zenon, <1>3, <2>1, <3>1, PairedKept DEF BacktestInv
    <3> QED
      BY Zenon, <2>1, <2>4, <3>1, <3>3, <3>4, <3>5 DEF BacktestInv
  <2>9. CASE result.kind = "ok" /\ Compare(result.forecast, rows[Len(rows)])
    <3>1. Len(result.forecast.values) \in Nat
      <4>1. /\ Buildable(job) /\ ~ModelPanics(job) /\ Len(rows) \in Nat
            /\ rows[Len(rows)].value \in Int
        BY Zenon, <2>4, <2>5, <2>6, <2>7 DEF Progress
      <4> QED
        BY Zenon, <2>9, <4>1, EvaluationFacts
    <3> QED
      <4>1. Compares(result.forecast, rows[Len(rows)])
        BY Zenon, <2>1, <2>6, <2>9, <3>1 DEF Compares
      <4> QED
        BY Zenon, <1>3, <4>1, CompareInv
  <2>10. CASE /\ result.kind = "panic" /\ phase' = "panicked"
              /\ UNCHANGED <<position, windows, skipped, pairs, planned, needed,
                             prevReplicas>>
    <3>1. Paired'
      BY Zenon, <1>3, <2>1, <2>10, PairedKept DEF BacktestInv
    <3> QED
      BY Zenon, <2>1, <2>4, <2>10, <3>1 DEF BacktestInv
  <2> QED
    BY Zenon, <2>3, <2>8, <2>9, <2>10
<1>4. ASSUME BacktestInv, Finish PROVE BacktestInv'
  <2>1. /\ phase = "running" /\ position + horizonSteps > Len(job.points)
        /\ phase' \in {"failed", "report"}
        /\ UNCHANGED <<job, position, windows, skipped, pairs, planned, needed,
                       prevReplicas>>
    BY Zenon, <1>4 DEF Finish
  <2>2. Progress /\ job \in Jobs /\ windows \in Nat /\ skipped \in Nat
    BY Zenon, <1>4, <2>1 DEF BacktestInv
  <2>3. /\ strideSteps \in Nat \ {0} /\ windowSteps \in Nat /\ horizonSteps \in Nat
        /\ Len(job.points) \in Nat /\ Counted \in Nat
    BY <2>2, JobFacts DEF Progress, Buildable, Counted
  <2>4. /\ position = windowSteps + Counted * strideSteps
        /\ windowSteps + horizonSteps <= Len(job.points)
        /\ Counted > 0 => windowSteps + (Counted - 1) * strideSteps + horizonSteps
                            <= Len(job.points)
    BY Zenon, <2>2 DEF Progress
  <2>5. /\ windowSteps' = windowSteps /\ horizonSteps' = horizonSteps
        /\ strideSteps' = strideSteps /\ Counted' = Counted
    BY <2>1 DEF windowSteps, horizonSteps, strideSteps, Counted
  <2> HIDE DEF windowSteps, horizonSteps, strideSteps, Counted
  <2>6. Counted * strideSteps \in Nat /\ (Counted - 1) * strideSteps \in Int
    BY <2>3
  <2>7. Counted > 0
    <3> SUFFICES ASSUME Counted = 0 PROVE FALSE
      BY <2>3
    <3>1. Counted * strideSteps = 0
      BY <2>3
    <3> QED
      BY <2>1, <2>3, <2>4, <3>1
  <2>8. Counted = (Len(job.points) - windowSteps - horizonSteps) \div strideSteps + 1
    <3> DEFINE d == Len(job.points) - windowSteps - horizonSteps
    <3>1. d \in Int /\ (Counted - 1) * strideSteps <= d /\ d < Counted * strideSteps
      BY <2>1, <2>3, <2>4, <2>6, <2>7
    <3> HIDE DEF d
    <3>2. d \div strideSteps + 1 = Counted
      BY <2>3, <3>1, DivUnique
    <3> QED
      BY Zenon, <3>2 DEF d
  <2>9. Paired'
    BY Zenon, <1>4, <2>1, PairedKept DEF BacktestInv
  <2> QED
    BY Zenon, <2>1, <2>2, <2>5, <2>8, <2>9 DEF BacktestInv
<1>5. ASSUME BacktestInv, UNCHANGED backtestVars PROVE BacktestInv'
  <2>1. UNCHANGED <<job, phase, position, windows, skipped, pairs, planned, needed>>
    BY Zenon, <1>5 DEF backtestVars
  <2>2. Paired'
    BY Zenon, <1>5, <2>1, PairedKept DEF BacktestInv
  <2>3. /\ windowSteps' = windowSteps /\ horizonSteps' = horizonSteps
        /\ strideSteps' = strideSteps /\ Counted' = Counted
    BY Zenon, <2>1 DEF windowSteps, horizonSteps, strideSteps, Counted
  <2> HIDE DEF windowSteps, horizonSteps, strideSteps, Counted
  <2>4. Progress' <=> Progress
    BY Zenon, <2>1, <2>3 DEF Progress
  <2> QED
    BY Zenon, <1>5, <2>1, <2>2, <2>3, <2>4 DEF BacktestInv
<1>6. BacktestInv => BacktestAligned
  <2> SUFFICES ASSUME BacktestInv PROVE BacktestAligned
    BY Zenon
  <2>1. DOMAIN pairs = 1..Len(pairs)
    BY Zenon DEF BacktestInv, Paired, IsSeq
  <2>2. Regular => \A n \in DOMAIN pairs : Aligned(job.points, pairs[n])
    BY Zenon, <2>1 DEF BacktestInv, Paired
  <2>3. /\ Len(planned) = Len(pairs) /\ Len(needed) = Len(pairs)
        /\ phase = "report" =>
             windows + skipped =
               (Len(job.points) - windowSteps - horizonSteps) \div strideSteps + 1
    BY Zenon DEF BacktestInv, Paired, Counted
  <2> QED
    BY Zenon, <2>2, <2>3 DEF BacktestAligned, Aligned
<1>7. BacktestInv /\ [BacktestNext]_backtestVars => BacktestInv'
  BY Zenon, <1>2, <1>3, <1>4, <1>5 DEF BacktestNext
<1> QED
  BY Zenon, <1>1, <1>6, <1>7
==============================================================================
