------------------------------ MODULE Controller ------------------------------
(***************************************************************************)
(* The operator embedded in the forecaster (cmd/forecaster/controller and  *)
(* operator.go): Reconcile drives one forecast loop and one ScaledObject   *)
(* per ForecastPolicy.                                                     *)
(*                                                                         *)
(* Users change objects on the API server at any time; the reconciler      *)
(* reads them from informer caches that lag behind, works on one request   *)
(* at a time, and is interrupted between its API calls.  The API server,   *)
(* the caches, the work queue and the garbage collector are external; they *)
(* are modelled from the way the controller uses them.                     *)
(***************************************************************************)
EXTENDS Integers, Sequences, FiniteSets

CONSTANTS
  None,
  Policies,    \* namespaced names of ForecastPolicies
  Sources,     \* namespaced names of DataSources
  Configs,     \* what the spec of a DataSource can be
  BadConfigs,  \* the Configs that adapters.New rejects
  Specs,       \* specs of a ForecastPolicy
  MaxUid, MaxGen, MaxRestarts,  \* bounds on recreations, edits and restarts
  Faulty       \* may calls to the API server fail?

VARIABLES
  api, sources,        \* the objects on the API server
  uids,                \* the last uid given to a policy of that name
  cache, sourceCache,  \* the informer caches
  queue, timers,       \* requests that are due, and due after RequeueAfter
  work,                \* the request being reconciled
  loops,               \* the forecast loops registered with the manager
  scaled,              \* the ScaledObjects on the API server
  restarts

apiVars == <<api, sources, uids>>
cacheVars == <<cache, sourceCache>>
queueVars == <<queue, timers>>
vars == <<apiVars, cacheVars, queueVars, work, loops, scaled, restarts>>

(* A name is the sequence of its words between dashes: joining namespace   *)
(* and name with a dash appends the words.                                 *)
workloadKey(p) == p.namespace \o p.name

Keys == {workloadKey(p) : p \in Policies}

Verdicts == {"Ready", "DataSourceNotFound", "InvalidSpec", "ForecasterError",
             "ScaledObjectError"}

Object == [uid : 1..MaxUid, gen : 1..MaxGen, spec : Specs,
           status : Verdicts \cup {"none"}, observed : 0..MaxGen]

(* A registered loop, with what toWorkloadConfig takes from the spec; it   *)
(* stays registered when a panic has ended its goroutine.                  *)
Loop == [policy : Policies, workload : Nat, config : Configs, alive : BOOLEAN]

Scaled == [uid : 1..MaxUid, scaling : Nat, key : Keys]

Work == [policy : Policies, at : {"launch", "scale", "report"}, obj : Object,
         verdict : Verdicts]

(* A spec: the data source it names, whether it can be translated, what    *)
(* toWorkloadConfig takes from it, what reconcileScaledObject takes from   *)
(* it (the scale target and the bounds on replicas), and the lead time.    *)
ASSUME SpecsAssumption ==
  Specs \subseteq [source : Sources, valid : BOOLEAN, workload : Nat, scaling : Nat,
                   leadTime : Nat]
ASSUME ConfigsAssumption == None \notin Configs /\ BadConfigs \subseteq Configs
ASSUME NamesAssumption ==
  \A p \in Policies \cup Sources : DOMAIN p = {"namespace", "name"}
ASSUME BoundsAssumption ==
  MaxUid \in Nat /\ MaxGen \in Nat \ {0} /\ MaxRestarts \in Nat /\ Faulty \in BOOLEAN
ASSUME NoneAssumption ==
  None \notin Object /\ None \notin Loop /\ None \notin Scaled /\ None \notin Work

(* A policy refers to a DataSource of its own namespace (dsKey).            *)
SpecsOf(p) == {spec \in Specs : spec.source.namespace = p.namespace}

Init ==
  /\ api = [p \in Policies |-> None] /\ sources = [s \in Sources |-> None]
  /\ uids = [p \in Policies |-> 0]
  /\ cache = api /\ sourceCache = sources
  /\ queue = {} /\ timers = {}
  /\ work = None
  /\ loops = [k \in Keys |-> None]
  /\ scaled = [p \in Policies |-> None]
  /\ restarts = 0

------------------------------------------------------------------------------
(* Users and the cluster.                                                  *)

Create(p, spec) ==
  /\ api[p] = None /\ uids[p] < MaxUid
  /\ uids' = [uids EXCEPT ![p] = @ + 1]
  /\ api' = [api EXCEPT ![p] = [uid |-> uids[p] + 1, gen |-> 1, spec |-> spec,
                                status |-> "none", observed |-> 0]]
  /\ UNCHANGED <<sources, cacheVars, queueVars, work, loops, scaled, restarts>>

Edit(p, spec) ==
  /\ api[p] # None /\ api[p].gen < MaxGen /\ api[p].spec # spec
  /\ api' = [api EXCEPT ![p] =
       [uid |-> api[p].uid, gen |-> api[p].gen + 1, spec |-> spec,
        status |-> api[p].status, observed |-> api[p].observed]]
  /\ UNCHANGED <<sources, uids, cacheVars, queueVars, work, loops, scaled, restarts>>

DeletePolicy(p) ==
  /\ api[p] # None
  /\ api' = [api EXCEPT ![p] = None]
  /\ UNCHANGED <<sources, uids, cacheVars, queueVars, work, loops, scaled, restarts>>

(* A DataSource is created, edited or (None) deleted.                      *)
ChangeSource(s, config) ==
  /\ sources[s] # config
  /\ sources' = [sources EXCEPT ![s] = config]
  /\ UNCHANGED <<api, uids, cacheVars, queueVars, work, loops, scaled, restarts>>

(* Kubernetes deletes an object whose owner is gone.                       *)
CollectGarbage(p) ==
  /\ scaled[p] # None
  /\ api[p] # None => api[p].uid # scaled[p].uid
  /\ scaled' = [scaled EXCEPT ![p] = None]
  /\ UNCHANGED <<apiVars, cacheVars, queueVars, work, loops, restarts>>

(* A tick panics: the goroutine of the loop recovers and returns, and the  *)
(* entry in the manager's map stays.                                       *)
LoopPanics(k) ==
  /\ loops[k] # None /\ loops[k].alive
  /\ loops' = [loops EXCEPT ![k].alive = FALSE]
  /\ UNCHANGED <<apiVars, cacheVars, queueVars, work, scaled, restarts>>

------------------------------------------------------------------------------
(* SetupWithManager: what puts requests in the queue.                      *)

(* The watch of ForecastPolicies.                                          *)
SyncPolicy(p) ==
  /\ cache[p] # api[p]
  /\ cache' = [cache EXCEPT ![p] = api[p]]
  /\ queue' = queue \cup {p}
  /\ UNCHANGED <<apiVars, sourceCache, timers, work, loops, scaled, restarts>>

(* Mutant of policiesForDataSource: only policies that are not ready.      *)
policiesForDataSourceNotReady(s) ==
  {p \in Policies : cache[p] # None /\ cache[p].spec.source = s
                    /\ cache[p].status # "Ready"}

policiesForDataSource(s) ==
  {p \in Policies : cache[p] # None /\ cache[p].spec.source = s}

(* The watch of DataSources.                                               *)
SyncSource(s) ==
  /\ sourceCache[s] # sources[s]
  /\ sourceCache' = [sourceCache EXCEPT ![s] = sources[s]]
  /\ queue' = queue \cup policiesForDataSource(s)
  /\ UNCHANGED <<apiVars, cache, timers, work, loops, scaled, restarts>>

Timer(p) ==
  /\ p \in timers
  /\ timers' = timers \ {p}
  /\ queue' = queue \cup {p}
  /\ UNCHANGED <<apiVars, cacheVars, work, loops, scaled, restarts>>

(* The process is restarted: loops and queue are lost, the caches are      *)
(* filled before the first request, and every policy is listed.            *)
Restart ==
  /\ restarts < MaxRestarts
  /\ restarts' = restarts + 1
  /\ cache' = api /\ sourceCache' = sources
  /\ queue' = {p \in Policies : api[p] # None} /\ timers' = {}
  /\ work' = None
  /\ loops' = [k \in Keys |-> None]
  /\ UNCHANGED <<apiVars, scaled>>

------------------------------------------------------------------------------
(* Reconcile, up to each of its API calls.                                 *)

(* The next request: Remove for a policy that is gone.                     *)
Dequeue(p) ==
  /\ work = None /\ p \in queue
  /\ queue' = queue \ {p}
  /\ \/ /\ cache[p] = None
        /\ loops' = [loops EXCEPT ![workloadKey(p)] = None]
        /\ UNCHANGED work
     \/ /\ cache[p] # None
        /\ work' = [policy |-> p, at |-> "launch", obj |-> cache[p],
                    verdict |-> "Ready"]
        /\ UNCHANGED loops
  /\ UNCHANGED <<apiVars, cacheVars, timers, scaled, restarts>>

(* Reconcile goes on at another place.                                     *)
Continue(at, verdict) ==
  work' = [policy |-> work.policy, at |-> at, obj |-> work.obj, verdict |-> verdict]

(* Mutant of Obstacle: the missing DataSource is not noticed.              *)
ObstacleIgnoresMissing(spec) ==
  CASE ~spec.valid -> "InvalidSpec"
    [] sourceCache[spec.source] \in BadConfigs /\ spec.valid -> "ForecasterError"
    [] OTHER -> "Ready"

(* Why Reconcile fails before it has a loop, or Ready.                     *)
Obstacle(spec) ==
  CASE sourceCache[spec.source] = None -> "DataSourceNotFound"
    [] sourceCache[spec.source] # None /\ ~spec.valid -> "InvalidSpec"
    [] sourceCache[spec.source] \in BadConfigs /\ spec.valid -> "ForecasterError"
    [] OTHER -> "Ready"

(* Mutant of Upsert: a registered loop of the same workload is kept.       *)
UpsertUnlessSame(p, spec) ==
  LET loop == loops[workloadKey(p)]
  IN loops' = [loops EXCEPT ![workloadKey(p)] =
       IF loop # None /\ loop.workload = spec.workload
          /\ loop.config = sourceCache[spec.source]
       THEN loop
       ELSE [policy |-> p, workload |-> spec.workload,
             config |-> sourceCache[spec.source], alive |-> TRUE]]

(* A new loop replaces the registered one, changed or not.                 *)
Upsert(p, spec) ==
  loops' = [loops EXCEPT ![workloadKey(p)] =
              [policy |-> p, workload |-> spec.workload,
               config |-> sourceCache[spec.source], alive |-> TRUE]]

(* The DataSource is resolved, the spec translated, the loop (re)started.  *)
Launch ==
  /\ work # None /\ work.at = "launch"
  /\ LET spec == work.obj.spec
         verdict == Obstacle(spec)
     IN \/ /\ verdict = "Ready"
           /\ Upsert(work.policy, spec)
           /\ Continue("scale", verdict)
        \/ /\ verdict # "Ready"
           /\ Continue("report", verdict)
           /\ UNCHANGED loops
  /\ UNCHANGED <<apiVars, cacheVars, queueVars, scaled, restarts>>

(* The ScaledObject generated for a version of p.  The lead time is not    *)
(* carried to the scaler.                                                  *)
ScaledFor(p, obj) ==
  [uid |-> obj.uid, scaling |-> obj.spec.scaling, key |-> workloadKey(p)]

(* Mutant of reconcileScaledObject: an existing object is not updated.     *)
reconcileScaledObjectCreates ==
  /\ work # None /\ work.at = "scale"
  /\ scaled' = [scaled EXCEPT ![work.policy] =
       IF @ # None THEN @ ELSE ScaledFor(work.policy, work.obj)]
  /\ Continue("report", "Ready")
  /\ UNCHANGED <<apiVars, cacheVars, queueVars, loops, restarts>>

(* CreateOrUpdate sets target, bounds, trigger and owner, also of an       *)
(* object left by a deleted policy of the same name.                       *)
reconcileScaledObject ==
  /\ work # None /\ work.at = "scale"
  /\ \/ /\ scaled' = [scaled EXCEPT ![work.policy] = ScaledFor(work.policy, work.obj)]
        /\ Continue("report", "Ready")
     \/ /\ Faulty
        /\ Continue("report", "ScaledObjectError")
        /\ UNCHANGED scaled
  /\ UNCHANGED <<apiVars, cacheVars, queueVars, loops, restarts>>

(* Status().Update by fail or updateReadyStatus is accepted only for the   *)
(* version that was read.                                                  *)
StatusUpdated ==
  /\ api[work.policy] = work.obj
  /\ api' = [api EXCEPT ![work.policy] =
       [uid |-> work.obj.uid, gen |-> work.obj.gen, spec |-> work.obj.spec,
        status |-> work.verdict, observed |-> work.obj.gen]]

(* Mutant of Report: only a success is followed by another reconcile.      *)
ReportWithoutRequeue ==
  /\ work # None /\ work.at = "report"
  /\ work' = None
  /\ \/ /\ StatusUpdated
        /\ timers' = IF work.verdict = "Ready" THEN timers \cup {work.policy} ELSE timers
        /\ UNCHANGED queue
     \/ /\ Faulty \/ api[work.policy] # work.obj
        /\ queue' = queue \cup {work.policy}
        /\ UNCHANGED <<api, timers>>
  /\ UNCHANGED <<sources, uids, cacheVars, loops, scaled, restarts>>

(* The end of Reconcile: RequeueAfter, or an error, which requeues at once.*)
Report ==
  /\ work # None /\ work.at = "report"
  /\ work' = None
  /\ \/ /\ StatusUpdated
        /\ timers' = timers \cup {work.policy}
        /\ UNCHANGED queue
     \/ /\ Faulty \/ api[work.policy] # work.obj
        /\ queue' = queue \cup {work.policy}
        /\ UNCHANGED <<api, timers>>
  /\ UNCHANGED <<sources, uids, cacheVars, loops, scaled, restarts>>

------------------------------------------------------------------------------

Next ==
  \/ \E p \in Policies :
       \/ \E spec \in SpecsOf(p) : Create(p, spec) \/ Edit(p, spec)
       \/ DeletePolicy(p) \/ CollectGarbage(p) \/ SyncPolicy(p) \/ Timer(p)
       \/ Dequeue(p)
  \/ \E s \in Sources :
       SyncSource(s) \/ \E config \in Configs \cup {None} : ChangeSource(s, config)
  \/ \E k \in Keys : LoopPanics(k)
  \/ Launch \/ reconcileScaledObject \/ Report \/ Restart

Spec == Init /\ [][Next]_vars

(* Watches deliver, timers fire, garbage is collected and the worker runs. *)
(* The work queue is first in, first out, so a request that is due again   *)
(* and again is taken: strong fairness of Dequeue.                         *)
Fairness ==
  /\ \A p \in Policies :
       /\ WF_vars(SyncPolicy(p)) /\ WF_vars(Timer(p)) /\ WF_vars(CollectGarbage(p))
       /\ SF_vars(Dequeue(p))
  /\ \A s \in Sources : WF_vars(SyncSource(s))
  /\ WF_vars(Launch) /\ WF_vars(reconcileScaledObject) /\ WF_vars(Report)

FairSpec == Spec /\ Fairness

------------------------------------------------------------------------------

TypeOK ==
  /\ api \in [Policies -> Object \cup {None}]
  /\ sources \in [Sources -> Configs \cup {None}]
  /\ uids \in [Policies -> 0..MaxUid]
  /\ cache \in [Policies -> Object \cup {None}]
  /\ sourceCache \in [Sources -> Configs \cup {None}]
  /\ queue \subseteq Policies /\ timers \subseteq Policies
  /\ work \in Work \cup {None}
  /\ loops \in [Keys -> Loop \cup {None}]
  /\ scaled \in [Policies -> Scaled \cup {None}]
  /\ restarts \in 0..MaxRestarts

(* No other policy has the same workload key.                              *)
Alone(p) == \A q \in Policies : workloadKey(q) = workloadKey(p) => q = p

(* The loop registered for p is the one spec and config ask for.           *)
Registered(p, spec, config) ==
  LET loop == loops[workloadKey(p)]
  IN /\ loop # None /\ loop.policy = p
     /\ loop.workload = spec.workload /\ loop.config = config

Startable(spec, config) == config # None /\ config \notin BadConfigs /\ spec.valid

(* No lost update: whenever no request for a policy is due or about to     *)
(* launch, the registered loop is the one the caches ask for, and there is *)
(* none for a policy that is gone; Reconcile never drops a change that     *)
(* arrives while it is working on an older version.                        *)
NoLostUpdate ==
  \A p \in Policies :
    \/ ~Alone(p) \/ p \in queue
    \/ work # None /\ work.policy = p /\ work.at = "launch"
    \/ IF cache[p] = None THEN loops[workloadKey(p)] = None
       ELSE LET spec == cache[p].spec
            IN Startable(spec, sourceCache[spec.source])
                 => Registered(p, spec, sourceCache[spec.source])

(* Nothing of p is under way.                                              *)
Settled(p) ==
  /\ p \notin queue /\ cache[p] = api[p]
  /\ work = None \/ work.policy # p

(* Ready is reconciled: when the caches are up to date and nothing is      *)
(* under way, a policy whose status says Ready has registered the loop of  *)
(* its current spec and data source, and its ScaledObject is the one       *)
(* reconcileScaledObject generates from that version, whatever was edited, *)
(* deleted and recreated or restarted before.  It does not say that the    *)
(* loop still runs: after a panic the status stays Ready until the next    *)
(* reconcile registers a new one.                                          *)
ReadyIsReconciled ==
  \A p \in Policies :
    LET obj == api[p]
    IN /\ Alone(p) /\ Settled(p)
       /\ obj # None /\ obj.status = "Ready"
       => /\ obj.observed = obj.gen
          /\ Registered(p, obj.spec, sourceCache[obj.spec.source])
          /\ scaled[p] = ScaledFor(p, obj)

(* Never forgotten: every policy there is will be reconciled again, after  *)
(* success, failure, conflict or restart (fail: "requeues so the policy    *)
(* self-heals").                                                           *)
NeverForgotten ==
  \A p \in Policies :
    api[p] # None => ~Settled(p) \/ p \in timers

(* Convergence: once the users leave a policy and its data source alone,   *)
(* its loop and its ScaledObject are eventually those of the spec, it      *)
(* stays Ready, and its loop is alive again after every panic (Reconcile   *)
(* returns RequeueAfter on success too); once they have deleted it loop    *)
(* and ScaledObject are gone for good.                                     *)
Converges ==
  \A p \in Policies :
    /\ \A spec \in Specs, config \in Configs \ BadConfigs :
         spec.valid =>
           (<>[](api[p] # None /\ api[p].spec = spec /\ sources[spec.source] = config)
              => /\ <>[](/\ Registered(p, spec, config)
                         /\ api[p] # None /\ api[p].status = "Ready"
                         /\ scaled[p] = ScaledFor(p, api[p]))
                 /\ []<>(loops[workloadKey(p)] # None /\ loops[workloadKey(p)].alive))
    /\ <>[](api[p] = None) =>
         <>[](loops[workloadKey(p)] = None /\ scaled[p] = None)

(* docs/OPERATOR.md:8: the operator "Starts, updates, or stops an          *)
(* in-process forecast loop for each ForecastPolicy".  A settled policy    *)
(* whose status says Ready has a loop of its own, whatever other policies  *)
(* are called.                                                             *)
LoopForEachPolicy ==
  \A p \in Policies :
    Settled(p) /\ api[p] # None /\ api[p].status = "Ready" =>
      Registered(p, api[p].spec, sourceCache[api[p].spec.source])
===============================================================================
