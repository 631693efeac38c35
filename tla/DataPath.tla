------------------------------ MODULE DataPath ------------------------------
(***************************************************************************)
(* From the answer of a metrics server to the rows a model sees: the       *)
(* adapters' Collect (pkg/adapters) and BuildFeatures (pkg/features).      *)
(*                                                                         *)
(* Instants are milliseconds, loads are integers.  Bad stands for a        *)
(* timestamp or a value that is not of the expected kind.  Building and    *)
(* sending the query, its templates and headers are left out: the server   *)
(* may answer with anything.  NaN and infinite samples are left out.       *)
(***************************************************************************)
EXTENDS Integers, Sequences, FiniteSetsExt

CONSTANT Bad

(* The form of an answer: samples of a range query, series by series, or   *)
(* the two lists that an HTTP endpoint gives for the configured paths.     *)
Sample == [ts : Int, value : Int]
RangeAnswer ==
  [ok : BOOLEAN, series : Seq(Seq([ts : Int \cup {Bad}, value : Int \cup {Bad}]))]
HTTPAnswer ==
  [ok : BOOLEAN, values : Seq(Int \cup {Bad}), timestamps : Seq(Int \cup {Bad})]

(* What Collect returns: an error, or the rows of the data frame.          *)
Failed == [ok |-> FALSE, rows |-> << >>]
Rows(rows) == [ok |-> TRUE, rows |-> rows]

(* sort.Slice promises an order for distinct instants only.                *)
Sorted(rows) ==
  LET n == Len(rows)
      arrangements == {f \in Bijection(1..n, 1..n) :
                         \A i \in 1..n - 1 : rows[f[i]].ts <= rows[f[i + 1]].ts}
  IN {[i \in 1..n |-> rows[f[i]]] : f \in arrangements}

(* The samples of all series in the order in which the loops visit them.   *)
AllSamples(series) ==
  LET upTo[i \in 0..Len(series)] ==
        IF i = 0 THEN << >> ELSE upTo[i - 1] \o series[i]
  IN upTo[Len(series)]

(* Mutant of Add: the last sample of a second wins.                        *)
AddReplaces(acc, sample) ==
  LET tsSec == sample.ts \div 1000
  IN [t \in DOMAIN acc \cup {tsSec} |->
        IF t = tsSec THEN sample.value ELSE acc[t]]

(* acc[tsSec] += val: a second that is new to the map counts from zero.    *)
Add(acc, sample) ==
  LET tsSec == sample.ts \div 1000
  IN [t \in DOMAIN acc \cup {tsSec} |->
        (IF t \in DOMAIN acc THEN acc[t] ELSE 0)
        + (IF t = tsSec THEN sample.value ELSE 0)]

(* The samples of all series are added up, second by second.               *)
AggregateRangeResult(samples) ==
  LET acc[n \in 0..Len(samples)] ==
        IF n = 0 THEN << >> ELSE LET before == acc[n - 1] IN Add(before, samples[n])
  IN acc[Len(samples)]

(* The keys of a map in ascending order: the i-th has i keys up to it.     *)
Ascending(keys) ==
  [i \in 1..Cardinality(keys) |->
     CHOOSE t \in keys : Cardinality({u \in keys : u <= t}) = i]

(* Collect of the Prometheus adapter.  One malformed pair anywhere fails   *)
(* the whole answer.  The keys of the map are distinct, so the sort leaves *)
(* one order.                                                              *)
CollectPrometheus(answer) ==
  LET samples == AllSamples(answer.series)
      acc == AggregateRangeResult(samples)
      ordered == Ascending(DOMAIN acc)
  IN IF \/ ~answer.ok
        \/ \E i \in DOMAIN samples : Bad \in {samples[i].ts, samples[i].value}
     THEN Failed
     ELSE Rows([i \in DOMAIN ordered |-> [ts |-> ordered[i], value |-> acc[ordered[i]]]])

(* The VictoriaMetrics adapter repeats it for another endpoint.            *)
CollectVictoriaMetrics(answer) == CollectPrometheus(answer)

(* gjson's Float: what is not a number counts as zero.                     *)
Float(v) == IF v = Bad THEN 0 ELSE v

(* The HTTP adapter's instants, by the configured format.                  *)
RFC3339 == {"", "rfc3339"}

parseTimestamp(format, v) ==
  CASE format \in RFC3339 -> v
    [] format = "unix" -> 1000 * Float(v)
    [] format = "unix_milli" -> Float(v)
    [] OTHER -> Bad

(* Collect of the HTTP adapter: the two paths must yield equally many      *)
(* elements; rows are sorted by full instants and only then cut to whole   *)
(* seconds by their RFC3339 form.  Equal instants stay separate rows.      *)
CollectHTTP(answer, format) ==
  LET n == Len(answer.values)
      rows == [i \in 1..n |->
                 [ts |-> parseTimestamp(format, answer.timestamps[i]),
                  value |-> Float(answer.values[i])]]
      cut(r) == [i \in DOMAIN r |-> [r[i] EXCEPT !.ts = @ \div 1000]]
  IN IF ~answer.ok \/ Len(answer.timestamps) # n THEN {Failed}
     ELSE IF \E i \in 1..n : rows[i].ts = Bad THEN {Failed}
     ELSE {Rows(cut(r)) : r \in Sorted(rows)}

(* The possible results of Collect for an answer of the configured server. *)
Collect(adapter, format, answer) ==
  CASE adapter = "prometheus" -> {CollectPrometheus(answer)}
    [] adapter = "victoriametrics" -> {CollectVictoriaMetrics(answer)}
    [] adapter = "http" -> CollectHTTP(answer, format)

(* Rows of the adapters always have a float and an instant in UTC, so no   *)
(* row is skipped; an empty data frame is an error.                        *)
BuildFeatures(rows) ==
  [ok |-> rows # << >>,
   rows |-> [i \in DOMAIN rows |->
               [value |-> rows[i].value, timestamp |-> rows[i].ts,
                hour |-> (rows[i].ts \div 3600) % 24,
                minute |-> (rows[i].ts \div 60) % 60]]]

------------------------------------------------------------------------------

(* What an answer says, independently of Collect: the load of a second is  *)
(* the sum of the samples that fall into it.                               *)
SamplesOf(adapter, format, answer) ==
  IF adapter # "http" THEN AllSamples(answer.series)
  ELSE [i \in DOMAIN answer.values |->
          [ts |-> parseTimestamp(format, answer.timestamps[i]),
           value |-> Float(answer.values[i])]]

LoadAt(samples, second) ==
  LET load[n \in 0..Len(samples)] ==
        IF n = 0 THEN 0
        ELSE load[n - 1] + (IF samples[n].ts \div 1000 = second
                            THEN samples[n].value ELSE 0)
  IN load[Len(samples)]

(* The rows are in time order, every second has the load of all its        *)
(* samples, and a Prometheus answer has no malformed pair and gives one    *)
(* row for each second.                                                    *)
SaysTheSame(rows, adapter, samples) ==
  LET seconds == {samples[i].ts \div 1000 : i \in DOMAIN samples}
      instants == [i \in DOMAIN rows |->
                     [ts |-> 1000 * rows[i].ts, value |-> rows[i].value]]
  IN /\ adapter # "http" =>
          \A i \in DOMAIN samples : Bad \notin {samples[i].ts, samples[i].value}
     /\ {rows[i].ts : i \in DOMAIN rows} = seconds
     /\ \A t \in seconds : LoadAt(instants, t) = LoadAt(samples, t)
     /\ \A i \in 1..Len(rows) - 1 :
          IF adapter = "http" THEN rows[i].ts <= rows[i + 1].ts
          ELSE rows[i].ts < rows[i + 1].ts
==============================================================================
