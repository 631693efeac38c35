----------------------------- MODULE MCPipeline -----------------------------
(***************************************************************************)
(* The pipeline and the backtest for TLC.  A behaviour is one or the       *)
(* other.  Every configuration differs from one that works in the fields   *)
(* that one question is about.                                             *)
(***************************************************************************)
EXTENDS Pipeline, Backtest

SeasonalOrder(P, D, Q, s) ==
  [p |-> 0, d |-> 0, q |-> 0, P |-> P, D |-> D, Q |-> Q, s |-> s]

Plain == SeasonalOrder(1, 1, 1, 24)

Off == [form |-> "off", hundredths |-> 0]

(* Counts move between 1 and 5, the loads 0 and 6 need 1 and 6 pods.       *)
Works ==
  [Name |-> "api", Metric |-> "rps", Adapter |-> "prometheus",
   AdapterConfig |-> {"query"}, TimestampFormat |-> "",
   Horizon |-> 120000, Step |-> 60000, Interval |-> 0, Window |-> 0,
   Model |-> "", Order |-> Plain, BYOMURL |-> "",
   TargetPerPod |-> 1, Headroom |-> 0, QuantileLevel |-> Off,
   MinReplicas |-> 1, MaxReplicas |-> 5,
   UpMaxFactorPerStep |-> 0, DownMaxPercentPerStep |-> 50,
   Storage |-> "memory"]

HTTPWorks ==
  [Works EXCEPT !.Adapter = "http",
                !.AdapterConfig = {"url", "valuePath", "timestampPath"}]

(* Refused by ParseFlags, by validateWorkload or by the factories.         *)
Refused ==
  {[Works EXCEPT !.Name = ""], [Works EXCEPT !.Name = "-api"],
   [Works EXCEPT !.Metric = ""], [Works EXCEPT !.Adapter = ""],
   [Works EXCEPT !.Horizon = 0], [Works EXCEPT !.Step = 0],
   [Works EXCEPT !.Horizon = 30000], [Works EXCEPT !.MinReplicas = -1],
   [Works EXCEPT !.MinReplicas = 6], [Works EXCEPT !.TargetPerPod = 0],
   [Works EXCEPT !.DownMaxPercentPerStep = 101], [Works EXCEPT !.Model = "lstm"],
   [Works EXCEPT !.Model = "byom"], [Works EXCEPT !.Adapter = "statsd"],
   [Works EXCEPT !.Storage = "etcd"],
   [Works EXCEPT !.AdapterConfig = {}],
   [HTTPWorks EXCEPT !.AdapterConfig = {"url", "valuePath"}],
   [HTTPWorks EXCEPT !.AdapterConfig = @ \cup {"badJSON"}],
   [Works EXCEPT !.QuantileLevel = [form |-> "junk", hundredths |-> 0]],
   [Works EXCEPT !.QuantileLevel = [form |-> "p", hundredths |-> 101]]}

(* Steps below a second, and orders a constructor panics on.               *)
Panicking ==
  {[Works EXCEPT !.Model = "arima", !.Step = 500],
   [Works EXCEPT !.Step = 500],
   [Works EXCEPT !.Model = "arima", !.Order.d = 3],
   [Works EXCEPT !.Model = "sarima", !.Order.s = 0]}

Planned ==
  {Works,
   [Works EXCEPT !.Storage = "redis"],
   [Works EXCEPT !.Adapter = "victoriametrics", !.MinReplicas = 0,
                 !.MaxReplicas = 0, !.UpMaxFactorPerStep = 150],
   [Works EXCEPT !.Step = 90000, !.Horizon = 200000],
   [Works EXCEPT !.Step = 1500, !.Horizon = 4500],
   [Works EXCEPT !.QuantileLevel = [form |-> "p", hundredths |-> 90],
                 !.Headroom = 120],
   [Works EXCEPT !.Model = "byom", !.BYOMURL = "url",
                 !.DownMaxPercentPerStep = 0],
   [Works EXCEPT !.Model = "arima"],
   [Works EXCEPT !.Model = "arima", !.Order.p = 9],
   [Works EXCEPT !.Model = "sarima", !.Order = SeasonalOrder(1, 1, 1, 10)],
   [Works EXCEPT !.Model = "sarima", !.Order = SeasonalOrder(2, 0, 0, 10)]}

Formats == {[HTTPWorks EXCEPT !.TimestampFormat = f, !.Horizon = 60000] :
              f \in {"", "unix", "unix_milli", "iso"}}

MCConfigs == Refused \cup Panicking \cup Planned \cup Formats

(* n samples, the last shortly before the hour.                            *)
Samples(n, spacing) ==
  [i \in 1..n |-> [ts |-> 3590000 - (n - i) * spacing, value |-> i % 3]]

(* 25 samples of a metric that ends below -50.                             *)
Drop == [Samples(25, 60000) EXCEPT ![25].value = -60]

Answers(ns) == {[ok |-> TRUE, series |-> <<Samples(n, 60000)>>] : n \in ns}

(* No answer; no data; a malformed value; two series that share a second;  *)
(* two samples a minute; a drop below -50; and counts around the minima of *)
(* the models.                                                             *)
MCRangeAnswers ==
  {[ok |-> FALSE, series |-> << >>], [ok |-> TRUE, series |-> << >>],
   [ok |-> TRUE, series |-> <<Samples(2, 60000), <<[ts |-> 5000, value |-> Bad]>>>>],
   [ok |-> TRUE, series |-> <<Samples(3, 700), Samples(2, 1000)>>],
   [ok |-> TRUE, series |-> <<Samples(10, 30000)>>], [ok |-> TRUE, series |-> <<Drop>>]}
  \cup Answers({20, 22, 31})

MCHTTPAnswers ==
  {[ok |-> FALSE, values |-> << >>, timestamps |-> << >>],
   [ok |-> TRUE, values |-> <<1, 2>>, timestamps |-> <<1000>>],
   [ok |-> TRUE, values |-> <<1, Bad, 2>>, timestamps |-> <<2500, 1000, 2500>>],
   [ok |-> TRUE, values |-> <<1, 2>>, timestamps |-> <<1700, 1200>>],
   [ok |-> TRUE, values |-> <<1, 2>>, timestamps |-> <<1000, Bad>>]}

(* The flags' defaults, but for the store and a short horizon.             *)
MCRedisConfigs == {[Works EXCEPT !.Model = "baseline", !.Storage = "redis"]}

MCJob ==
  [Model |-> "baseline", Order |-> Plain, BYOMURL |-> "", QuantileLevel |-> Off,
   Window |-> 600000, Horizon |-> 120000, Step |-> 60000, Stride |-> 0,
   TargetPerPod |-> 1, Headroom |-> 120, MinReplicas |-> 1, MaxReplicas |-> 5,
   UpMaxFactorPerStep |-> 200, DownMaxPercentPerStep |-> 50,
   points |-> Samples(14, 60000)]

MCJobs ==
  {MCJob,
   [MCJob EXCEPT !.Model = "arima", !.Stride = 120000],
   [MCJob EXCEPT !.Model = "arima", !.Window = 500000],
   [MCJob EXCEPT !.Model = "arima", !.Order.p = 9],
   [MCJob EXCEPT !.Model = "arima", !.Order.d = 3],
   [MCJob EXCEPT !.Model = "byom", !.BYOMURL = "url"],
   [MCJob EXCEPT !.Model = "byom"], [MCJob EXCEPT !.Model = "lstm"],
   [MCJob EXCEPT !.Horizon = 300000], [MCJob EXCEPT !.Step = 0],
   [MCJob EXCEPT !.Step = 1500, !.Horizon = 4500, !.Window = 6000,
                 !.points = Samples(8, 1500)],
   [MCJob EXCEPT !.Step = 500, !.points = Samples(14, 500), !.Horizon = 1000,
                 !.Window = 3000]}

vars == <<loopVars, backtestVars>>

MCInit ==
  \/ LoopInit /\ job = MCJob /\ phase = "off" /\ NothingCounted
  \/ /\ BacktestInit
     /\ wc = Works /\ stage = "off" /\ tick = 0 /\ trainedAt = 0 /\ current = 0
     /\ misses = 0 /\ answer = NoAnswer /\ frame = << >>
     /\ model = Untrained("none", 0, 0, Plain)
     /\ forecast = NoForecast /\ snapshot = NoSnapshot

MCNext ==
  \/ LoopNext /\ UNCHANGED backtestVars
  \/ BacktestNext /\ UNCHANGED loopVars

MCSpec == MCInit /\ [][MCNext]_vars
==============================================================================
