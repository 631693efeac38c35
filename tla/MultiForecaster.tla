--------------------------- MODULE MultiForecaster ---------------------------
(***************************************************************************)
(* The forecaster process (cmd/forecaster/forecaster.go): MultiForecaster  *)
(* registers, replaces and removes workloads while one goroutine per       *)
(* workload runs the forecast loop and publishes snapshots to the shared   *)
(* in-memory store (pkg/storage/memory.go).                                *)
(*                                                                         *)
(* Upsert, Start and the first half of Remove hold mf.mu and are single    *)
(* actions.  A tick is split where another goroutine can be observed: the  *)
(* adapter's answer, the computation that ends with the GeneratedAt stamp, *)
(* the context test at the start of MemoryStore.Put, and the write under   *)
(* the store's lock.                                                       *)
(***************************************************************************)
EXTENDS Planner, FiniteSets

CONSTANTS
  Names,          \* workload names
  Loops,          \* WorkloadForecaster objects, one goroutine each
  None,           \* no loop, or no snapshot
  Policies,       \* capacity policies, as validateWorkload lets them through
  Forecasts,      \* what a model can predict
  Plan(_, _, _),  \* ToReplicas(prev, forecast, policy)
  MaxTime,        \* bound on the clock
  Faulty          \* may adapters, models and Put fail, time out or panic?

VARIABLES
  started, baseDone,   \* mf.started; the context given to Start is cancelled
  running,             \* mf.running
  deleting,            \* calls of Remove between the unlock and the Delete
  runner,              \* the caller of mf.Run (the tests: main calls Start)
  owner, policy,       \* wf.name and wf.policy
  currentReplicas,     \* wf.currentReplicas
  pc,                  \* where the goroutine of a loop is
  cancelledAt,         \* when the loop's context was cancelled, or Never
  draft,               \* the snapshot a tick is about to store
  snapshots,           \* s.snapshots of the MemoryStore
  now                  \* the clock

mfVars == <<started, baseDone, running, deleting, runner>>
wfVars == <<owner, policy>>
loopVars == <<currentReplicas, pc, cancelledAt, draft>>
vars == <<mfVars, wfVars, loopVars, snapshots, now>>

------------------------------------------------------------------------------

Time == 0..MaxTime

(* Later than every time: the context has not been cancelled.              *)
Never == MaxTime + 1

(* The fields of storage.Snapshot that matter here: the loop that made it, *)
(* GeneratedAt and DesiredReplicas.                                        *)
Snapshot == [by : Loops, at : Time, desired : Seq(Nat)]

ValidPolicy(pol) ==
  /\ pol.MinReplicas \in Nat /\ pol.MaxReplicas \in Nat \ {0}
  /\ pol.MinReplicas <= pol.MaxReplicas
  /\ pol.UpMaxFactorPerStep \in Nat \ {0}
  /\ pol.DownMaxPercentPerStep \in 0..100

ASSUME TimeAssumption == MaxTime \in Nat
ASSUME NoneAssumption == None \notin Loops /\ None \notin Snapshot
ASSUME FaultyAssumption == Faulty \in BOOLEAN
ASSUME PolicyAssumption == \A pol \in Policies : ValidPolicy(pol)

(* What the loop relies on the planner for (theorem ToReplicasLimits).     *)
(* prev is within the bounds of the policy because it is MinReplicas or an *)
(* earlier output.                                                         *)
ASSUME PlanAssumption ==
  \A pol \in Policies, f \in Forecasts :
    \A prev \in pol.MinReplicas..pol.MaxReplicas :
      KeepsLimits(Plan(prev, f, pol), prev, pol)

------------------------------------------------------------------------------

(* A goroutine was started for the loop, and it has not returned.          *)
Launched(l) == pc[l] \notin {"unbuilt", "registered"}
Active(l) == Launched(l) /\ pc[l] # "done"

(* ctx.Done() of the loop's context is not closed.                         *)
Live(l) == cancelledAt[l] = Never

(* The new value of cancelledAt when the contexts of the loops in S are    *)
(* cancelled: cancelling twice has no effect, and a loop that was never    *)
(* launched has no context (managed.cancel is nil).                        *)
Cancel(S) ==
  [l \in Loops |-> IF l \in S /\ Launched(l) /\ Live(l) THEN now ELSE cancelledAt[l]]

(* Nothing is registered.  The name and the policy of the object l that a  *)
(* later Upsert builds are chosen here once and for all.                   *)
Init ==
  /\ started = FALSE /\ baseDone = FALSE
  /\ running = [n \in Names |-> None]
  /\ deleting = [n \in Names |-> 0]
  /\ runner = "idle"
  /\ owner \in [Loops -> Names] /\ policy \in [Loops -> Policies]
  /\ currentReplicas = [l \in Loops |-> policy[l].MinReplicas]
  /\ pc = [l \in Loops |-> "unbuilt"]
  /\ cancelledAt = [l \in Loops |-> Never]
  /\ draft = [l \in Loops |-> None]
  /\ snapshots = [n \in Names |-> None]
  /\ now = 0

------------------------------------------------------------------------------
(* MultiForecaster.                                                        *)

(* Mutant of Register: the replaced loop is not cancelled.                 *)
RegisterKeepsOld(l) ==
  /\ running' = [running EXCEPT ![owner[l]] = l]
  /\ cancelledAt' = [cancelledAt EXCEPT ![l] = IF baseDone THEN now ELSE Never]

(* The entry of l replaces the one of its name, whose loop is cancelled.   *)
Register(l) ==
  /\ running' = [running EXCEPT ![owner[l]] = l]
  /\ cancelledAt' =
       [Cancel({running[owner[l]]}) EXCEPT ![l] = IF baseDone THEN now ELSE Never]

(* NewWorkloadForecaster and Upsert: cancel the loop registered under the  *)
(* name, register the new one, and launch it if Start has been called.  A  *)
(* loop launched after the base context ended is born cancelled.  Its      *)
(* wg.Add(1) may be the first one after a wg.Wait that has not returned.   *)
Upsert(l) ==
  /\ pc[l] = "unbuilt" /\ runner # "releasing"
  /\ Register(l)
  /\ pc' = [pc EXCEPT ![l] = IF started THEN "collect" ELSE "registered"]
  /\ runner' = IF runner = "woken" THEN "reused" ELSE runner
  /\ UNCHANGED <<started, baseDone, deleting, wfVars, currentReplicas, draft,
                 snapshots, now>>

(* The wg.Add(1) of launch meets the last wg.Done that is about to release *)
(* Run: "Add called concurrently with Wait" panics before the goroutine is *)
(* started.  Nobody recovers it; what else happens here does not happen if *)
(* the process is gone.                                                    *)
UpsertPanics(l) ==
  /\ pc[l] = "unbuilt" /\ runner = "releasing"
  /\ Register(l)
  /\ pc' = [pc EXCEPT ![l] = "done"]
  /\ runner' = "panicked"
  /\ UNCHANGED <<started, baseDone, deleting, wfVars, currentReplicas, draft,
                 snapshots, now>>

(* The first half of Run: it refuses to start without a workload.          *)
RunCheck ==
  /\ ~started /\ runner = "idle"
  /\ \E n \in Names : running[n] # None
  /\ runner' = "checked"
  /\ UNCHANGED <<started, baseDone, running, deleting, wfVars, loopVars,
                 snapshots, now>>

(* Start, called by main or by Run, launches what has been registered.     *)
Start ==
  /\ ~started
  /\ started' = TRUE
  /\ runner' = IF runner = "checked" THEN "blocked" ELSE runner
  /\ pc' = [l \in Loops |-> IF running[owner[l]] = l THEN "collect" ELSE pc[l]]
  /\ UNCHANGED <<baseDone, running, deleting, wfVars, currentReplicas,
                 cancelledAt, draft, snapshots, now>>

(* Mutant of Remove: the loop is unregistered but not cancelled.           *)
RemoveWithoutCancel(n) ==
  /\ running[n] # None
  /\ running' = [running EXCEPT ![n] = None]
  /\ deleting' = [deleting EXCEPT ![n] = @ + 1]
  /\ UNCHANGED <<started, baseDone, runner, wfVars, loopVars, snapshots, now>>

(* Remove up to the unlock ...                                             *)
Remove(n) ==
  /\ running[n] # None
  /\ running' = [running EXCEPT ![n] = None]
  /\ cancelledAt' = Cancel({running[n]})
  /\ deleting' = [deleting EXCEPT ![n] = @ + 1]
  /\ UNCHANGED <<started, baseDone, runner, wfVars, currentReplicas, pc, draft,
                 snapshots, now>>

(* ... and the Delete of the store that follows it without the lock.       *)
Delete(n) ==
  /\ deleting[n] > 0
  /\ deleting' = [deleting EXCEPT ![n] = @ - 1]
  /\ snapshots' = [snapshots EXCEPT ![n] = None]
  /\ UNCHANGED <<started, baseDone, running, runner, wfVars, loopVars, now>>

(* main cancels the base context, and with it every context derived.       *)
Shutdown ==
  /\ started /\ ~baseDone
  /\ baseDone' = TRUE
  /\ cancelledAt' = Cancel(Loops)
  /\ UNCHANGED <<started, running, deleting, runner, wfVars, currentReplicas,
                 pc, draft, snapshots, now>>

(* The end of Run.  mf.wg counts the goroutines whose wg.Done has not run: *)
(* the active loops, and perhaps some that are done.                       *)
RunnerTo(to) ==
  /\ runner' = to
  /\ UNCHANGED <<started, baseDone, running, deleting, wfVars, loopVars,
                 snapshots, now>>

(* Mutant of RunWait: no wg.Wait().                                        *)
RunWaitNoWait ==
  /\ runner = "blocked" /\ baseDone
  /\ RunnerTo("returned")

(* ctx.Done(), and wg.Wait() returns at once or begins to wait.            *)
RunWait ==
  /\ runner = "blocked" /\ baseDone
  /\ \/ RunnerTo("waiting")
     \/ (\A l \in Loops : ~Active(l)) /\ RunnerTo("returned")

(* Mutant of LastDone: the WaitGroup counts the workloads registered       *)
(* rather than the goroutines launched.                                    *)
LastDoneCountsRegistered ==
  /\ runner = "waiting"
  /\ \A l \in Loops : pc[l] \in {"unbuilt", "done"}
  /\ RunnerTo("releasing")

(* The last wg.Done takes the counter to zero while Run waits ...          *)
LastDone ==
  /\ runner = "waiting"
  /\ \A l \in Loops : ~Active(l)
  /\ RunnerTo("releasing")

(* ... and then resets the WaitGroup and wakes Run up.                     *)
Release == runner = "releasing" /\ RunnerTo("woken")

(* wg.Wait() looks at the counter once more: "WaitGroup is reused before   *)
(* previous Wait has returned".                                            *)
RunReturn ==
  \/ /\ runner \in {"woken", "reused"} /\ \A l \in Loops : ~Active(l)
     /\ RunnerTo("returned")
  \/ runner = "reused" /\ RunnerTo("panicked")

------------------------------------------------------------------------------
(* WorkloadForecaster.Run and tick.                                        *)

(* The goroutine of l moves from one point to another.                     *)
Goto(l, from, to) == pc[l] = from /\ pc' = [pc EXCEPT ![l] = to]

(* The adapters send their requests with the loop's context, so they only  *)
(* deliver while it is live.                                               *)
Collect(l) ==
  /\ Live(l)
  /\ Goto(l, "collect", "forecast")
  /\ UNCHANGED <<mfVars, wfVars, currentReplicas, cancelledAt, draft,
                 snapshots, now>>

(* Mutants of Forecast: GeneratedAt is stamped with the next tick's time;  *)
(* and every tick plans from MinReplicas.                                  *)
ForecastStampedAhead(l) ==
  /\ Goto(l, "forecast", "put")
  /\ \E f \in Forecasts :
       draft' = [draft EXCEPT ![l] =
                   [by |-> l, at |-> now + 1,
                    desired |-> Plan(currentReplicas[l], f, policy[l])]]
  /\ UNCHANGED <<mfVars, wfVars, currentReplicas, cancelledAt, snapshots, now>>

ForecastFromMinimum(l) ==
  /\ Goto(l, "forecast", "put")
  /\ \E f \in Forecasts :
       draft' = [draft EXCEPT ![l] =
                   [by |-> l, at |-> now,
                    desired |-> Plan(policy[l].MinReplicas, f, policy[l])]]
  /\ UNCHANGED <<mfVars, wfVars, currentReplicas, cancelledAt, snapshots, now>>

(* buildFeatures, Train (whose errors are only logged), predict,           *)
(* calculateReplicas and the construction of the snapshot.  The models     *)
(* compute on in a cancelled context.                                      *)
Forecast(l) ==
  /\ Goto(l, "forecast", "put")
  /\ \E f \in Forecasts :
       LET desired == Plan(currentReplicas[l], f, policy[l])
       IN /\ currentReplicas' =
               [currentReplicas EXCEPT ![l] = IF desired = << >> THEN @ ELSE desired[1]]
          /\ draft' =
               [draft EXCEPT ![l] = [by |-> l, at |-> now, desired |-> desired]]
  /\ UNCHANGED <<mfVars, wfVars, cancelledAt, snapshots, now>>

(* Mutant of PutCheck: Put does not look at the context.                   *)
PutCheckIgnoresContext(l) ==
  /\ Goto(l, "put", "write")
  /\ UNCHANGED <<mfVars, wfVars, currentReplicas, cancelledAt, draft,
                 snapshots, now>>

(* MemoryStore.Put tests the context before it takes the lock ...          *)
PutCheck(l) ==
  /\ Live(l)
  /\ Goto(l, "put", "write")
  /\ UNCHANGED <<mfVars, wfVars, currentReplicas, cancelledAt, draft,
                 snapshots, now>>

(* ... and replaces whatever is stored under the name.                     *)
PutWrite(l) ==
  /\ Goto(l, "write", "wait")
  /\ snapshots' = [snapshots EXCEPT ![owner[l]] = draft[l]]
  /\ draft' = [draft EXCEPT ![l] = None]
  /\ UNCHANGED <<mfVars, wfVars, currentReplicas, cancelledAt, now>>

(* tick returns an error: collecting, building features, predicting or the *)
(* context test of Put failed, because the context ended or because of a   *)
(* timeout or a fault.                                                     *)
TickFails(l) ==
  /\ Faulty \/ ~Live(l)
  /\ \E from \in {"collect", "forecast", "put"} : Goto(l, from, "wait")
  /\ draft' = [draft EXCEPT ![l] = None]
  /\ UNCHANGED <<mfVars, wfVars, currentReplicas, cancelledAt, snapshots, now>>

(* A panic in an adapter, the builder or a model ends the goroutine: Run   *)
(* recovers it and returns.                                                *)
Panic(l) ==
  /\ Faulty
  /\ \E from \in {"collect", "forecast"} : Goto(l, from, "done")
  /\ UNCHANGED <<mfVars, wfVars, currentReplicas, cancelledAt, draft,
                 snapshots, now>>

(* Mutant of Fire: no new forecast while a snapshot is stored.             *)
FireOnlyWhenMissing(l) ==
  /\ snapshots[owner[l]] = None
  /\ Goto(l, "wait", "collect")
  /\ UNCHANGED <<mfVars, wfVars, currentReplicas, cancelledAt, draft,
                 snapshots, now>>

(* Mutant of Stop: the loop selects on the base context, not on its own.   *)
StopOnBaseContext(l) ==
  /\ baseDone
  /\ Goto(l, "wait", "done")
  /\ UNCHANGED <<mfVars, wfVars, currentReplicas, cancelledAt, draft,
                 snapshots, now>>

(* The select of Run.  With both channels ready Go takes either.           *)
Fire(l) ==
  /\ Goto(l, "wait", "collect")
  /\ UNCHANGED <<mfVars, wfVars, currentReplicas, cancelledAt, draft,
                 snapshots, now>>

Stop(l) ==
  /\ ~Live(l)
  /\ Goto(l, "wait", "done")
  /\ UNCHANGED <<mfVars, wfVars, currentReplicas, cancelledAt, draft,
                 snapshots, now>>

Advance ==
  /\ now < MaxTime
  /\ now' = now + 1
  /\ UNCHANGED <<mfVars, wfVars, loopVars, snapshots>>

------------------------------------------------------------------------------

LoopStep(l) ==
  \/ Collect(l) \/ Forecast(l) \/ PutCheck(l) \/ PutWrite(l)
  \/ TickFails(l) \/ Panic(l) \/ Fire(l) \/ Stop(l)

RunEnding == RunWait \/ LastDone \/ Release \/ RunReturn

Next ==
  \/ \E l \in Loops : Upsert(l) \/ UpsertPanics(l) \/ LoopStep(l)
  \/ \E n \in Names : Remove(n) \/ Delete(n)
  \/ RunCheck \/ Start \/ Shutdown \/ RunEnding \/ Advance

Spec == Init /\ [][Next]_vars

(* The Go scheduler runs every goroutine, every call of a tick has a       *)
(* timeout and the ticker fires, hence weak fairness of a loop's steps.    *)
(* select chooses at random among ready channels, so a closed ctx.Done()   *)
(* that is offered again and again is taken: strong fairness of Stop.      *)
Fairness ==
  /\ \A l \in Loops : WF_vars(LoopStep(l)) /\ SF_vars(Stop(l))
  /\ \A n \in Names : WF_vars(Delete(n))
  /\ WF_vars(RunEnding)

FairSpec == Spec /\ Fairness
------------------------------------------------------------------------------

TypeOK ==
  /\ started \in BOOLEAN /\ baseDone \in BOOLEAN
  /\ running \in [Names -> Loops \cup {None}]
  /\ deleting \in [Names -> Nat]
  /\ runner \in {"idle", "checked", "blocked", "waiting", "releasing", "woken",
                "reused", "returned", "panicked"}
  /\ owner \in [Loops -> Names] /\ policy \in [Loops -> Policies]
  /\ currentReplicas \in [Loops -> Nat]
  /\ pc \in [Loops -> {"unbuilt", "registered", "collect", "forecast", "put",
                       "write", "wait", "done"}]
  /\ cancelledAt \in [Loops -> Time \cup {Never}]
  /\ draft \in [Loops -> Snapshot \cup {None}]
  /\ snapshots \in [Names -> Snapshot \cup {None}]
  /\ now \in Time

(* One live loop: a goroutine whose context is not cancelled is the one    *)
(* registered for its workload, so no interleaving of Upsert, Remove,      *)
(* Start and shutdown leaves two live loops forecasting the same workload  *)
(* or one that nobody can stop any more.                                   *)
OneLiveLoop ==
  \A l \in Loops : Active(l) /\ Live(l) => running[owner[l]] = l

(* Nothing generated after the stop: a snapshot in the store was generated *)
(* no later than the moment its loop was cancelled by Upsert, Remove or    *)
(* shutdown, even if it was written after that moment.                     *)
NothingGeneratedAfterStop ==
  \A n \in Names :
    snapshots[n] # None => snapshots[n].at <= cancelledAt[snapshots[n].by]

(* The store goes back in time only through a loop that has been replaced: *)
(* a Put that lowers the GeneratedAt of a workload is made by a cancelled  *)
(* loop, never by the current one.                                         *)
OnlyReplacedLoopsRegress ==
  [][\A n \in Names :
       /\ snapshots[n] # None /\ snapshots'[n] # None
       /\ snapshots'[n].at < snapshots[n].at
       => cancelledAt[snapshots'[n].by] # Never]_vars

(* Quiet after Run: once Run has returned (every goroutine it waited for   *)
(* is gone) nothing is published any more, although Upsert may still be    *)
(* called and launches goroutines in the cancelled base context.           *)
QuietAfterRun ==
  [][runner = "returned" =>
       \A n \in Names : snapshots'[n] \in {snapshots[n], None}]_vars

(* Rate limit of one loop: between two snapshots of the same loop the      *)
(* first planned count stays within one step of the rate limits, for an up *)
(* factor of at least 1 and as long as no tick fails between               *)
(* calculateReplicas and the store.                                        *)
FirstCount(s) == s.desired[1]

RateBetween(s, t) ==
  /\ s.desired # << >> /\ t.desired # << >>
  /\ policy[t.by].UpMaxFactorPerStep >= 100
  => WithinStep(policy[t.by], FirstCount(s), FirstCount(t))

SameLoopRate ==
  [][\A n \in Names :
       /\ snapshots'[n] # snapshots[n]
       /\ snapshots[n] # None /\ snapshots'[n] # None
       /\ snapshots[n].by = snapshots'[n].by
       => RateBetween(snapshots[n], snapshots'[n])]_vars

(* A cancelled goroutine ends: after Upsert, Remove or shutdown cancelled  *)
(* the context, Run of the workload eventually returns.                    *)
CancelledLoopsEnd ==
  \A l \in Loops : (Launched(l) /\ ~Live(l)) ~> (pc[l] = "done")

(* mf.Run does not hang once the base context is cancelled, even though    *)
(* Upsert can launch more goroutines meanwhile: it returns, unless an Add  *)
(* of such an Upsert meets the end of wg.Wait, which panics.               *)
RunEnds == (runner = "blocked" /\ baseDone) ~> (runner \in {"returned", "panicked"})

(* The current loop has the last word: if the registration of a workload   *)
(* settles on a loop, the stored snapshot is eventually always the one of  *)
(* that loop, whatever late Put of a replaced loop or late Delete of an    *)
(* earlier Remove came in between.                                         *)
CurrentHasLastWord ==
  \A n \in Names, l \in Loops :
    <>[](running[n] = l /\ Launched(l) /\ Live(l))
      => <>[](snapshots[n] # None /\ snapshots[n].by = l)

(* docs/OPERATOR.md:76: "Deleting a ForecastPolicy stops its forecast loop *)
(* and removes its snapshot".  A workload that is not registered has no    *)
(* snapshot once Remove has deleted it.                                    *)
RemovedHasNoSnapshot ==
  \A n \in Names :
    running[n] = None /\ deleting[n] = 0 => snapshots[n] = None
==============================================================================
