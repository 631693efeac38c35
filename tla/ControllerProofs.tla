--------------------------- MODULE ControllerProofs ---------------------------
(***************************************************************************)
(* Proofs of the safety properties of the operator for every set of        *)
(* policies, data sources and specs: the inductive invariant, the steps    *)
(* around the reconciler (users, API server, watches, timers, restart),    *)
(* the steps of Reconcile, and the theorems.                               *)
(***************************************************************************)
EXTENDS Controller, TLAPS

(* The caches lag: what is cached of a policy is a version it had.  The    *)
(* reconciler's copy is no newer than the last object of that name.        *)
Lagging ==
  \A p \in Policies :
    /\ api[p] # None => api[p].uid = uids[p]
    /\ cache[p] # None =>
         /\ cache[p].uid <= uids[p]
         /\ api[p] # None /\ cache[p].uid = api[p].uid => cache[p].gen <= api[p].gen

(* The request at work: its copy of the policy is the cached one, or the   *)
(* policy is queued again; past launch its spec could be started, or it    *)
(* is; past scale the ScaledObject belongs to it, or the policy is gone.   *)
AtWork ==
  work # None =>
    LET p == work.policy
        obj == work.obj
    IN /\ obj.uid <= uids[p]
       /\ p \in queue \/ obj = cache[p]
       /\ work.at = "scale" \/ (work.at = "report" /\ work.verdict = "Ready") =>
            p \in queue \/ Startable(obj.spec, sourceCache[obj.spec.source])
       /\ work.at = "report" /\ work.verdict = "Ready" =>
            \/ scaled[p] = ScaledFor(p, obj)
            \/ api[p] = None \/ api[p].uid # obj.uid

Inv == TypeOK /\ Lagging /\ AtWork /\ NoLostUpdate /\ ReadyIsReconciled /\ NeverForgotten

------------------------------------------------------------------------------

(* A step leaves the loop registered under the key of p as it is.          *)
LoopUntouched(p) == loops'[workloadKey(p)] = loops[workloadKey(p)]

(* A loop of another key is not the loop of a policy with its own key.     *)
LEMMA OtherKey ==
  ASSUME TypeOK, NEW p \in Policies, NEW q \in Policies, Alone(p), p # q, NEW v,
         loops' = [loops EXCEPT ![workloadKey(q)] = v]
  PROVE  LoopUntouched(p)
<1>1. workloadKey(p) # workloadKey(q)
  BY DEF Alone
<1>2. workloadKey(p) \in Keys /\ workloadKey(q) \in Keys
  BY DEF Keys
<1> QED
  BY <1>1, <1>2 DEF TypeOK, LoopUntouched

(* The loop registered for p is the one its caches ask for.                *)
Synced(p) ==
  IF cache[p] = None THEN loops[workloadKey(p)] = None
  ELSE LET spec == cache[p].spec
       IN Startable(spec, sourceCache[spec.source])
            => Registered(p, spec, sourceCache[spec.source])

(* A step that leaves a policy, its source and its loop alone keeps them   *)
(* in agreement.                                                           *)
LEMMA SyncedFrame ==
  ASSUME NEW p \in Policies, UNCHANGED <<cache, sourceCache>>, LoopUntouched(p),
         Synced(p)
  PROVE  Synced(p)'
BY DEF Synced, LoopUntouched, Startable, Registered

(* Nothing is lost by a step that leaves the loops and the caches alone,   *)
(* takes no policy off the queue and ends no launch.                       *)
LEMMA NoLostFrame ==
  ASSUME Inv, UNCHANGED <<cache, sourceCache, loops>>, queue \subseteq queue',
         work' = work \/ work = None \/ work.at # "launch"
  PROVE  NoLostUpdate'
BY DEF Inv, NoLostUpdate, Registered, Startable, Alone

(* Create keeps the invariant: the new uid is larger than every one known. *)
LEMMA CreateInv ==
  ASSUME Inv, NEW p \in Policies, NEW spec \in Specs, Create(p, spec)
  PROVE  Inv'
<1> DEFINE obj == [uid |-> uids[p] + 1, gen |-> 1, spec |-> spec,
                   status |-> "none", observed |-> 0]
<1>1. obj \in Object /\ uids[p] \in Nat /\ uids[p] + 1 \in 0..MaxUid
  BY BoundsAssumption DEF Create, Inv, TypeOK, Object
<1>2. obj # None
  BY <1>1, NoneAssumption
<1>3. /\ api' = [api EXCEPT ![p] = obj] /\ uids' = [uids EXCEPT ![p] = uids[p] + 1]
      /\ UNCHANGED <<sources, cacheVars, queueVars, work, loops, scaled, restarts>>
      /\ api[p] = None
  BY DEF Create
<1>4. obj.uid = uids[p] + 1 /\ obj.status = "none"
  OBVIOUS
<1> HIDE DEF obj
<1>5. TypeOK'
  BY <1>1, <1>3 DEF Inv, TypeOK, cacheVars, queueVars
<1>6. /\ api'[p] = obj /\ uids'[p] = uids[p] + 1
      /\ \A q \in Policies : q # p => api'[q] = api[q] /\ uids'[q] = uids[q]
  BY <1>3 DEF Inv, TypeOK
<1>7. cache[p] # obj
  BY <1>1, <1>2, <1>4 DEF Inv, Lagging, TypeOK, Object
<1>8. Lagging'
  BY <1>1, <1>2, <1>3, <1>4, <1>6 DEF Inv, Lagging, TypeOK, Object, cacheVars
<1>9. AtWork'
  <2>1. CASE work = None
    BY Zenon, <1>3, <2>1 DEF AtWork
  <2>2. CASE work # None
    <3>1. work \in Work /\ work.policy \in Policies /\ work.obj \in Object
      BY <2>2 DEF Inv, TypeOK, Work
    <3>2. work.obj.uid \in Nat /\ work.obj.uid <= uids[work.policy]
      BY <2>2, <3>1 DEF Inv, AtWork, Object
    <3>3. work.policy = p => api'[p].uid # work.obj.uid
      BY <1>1, <1>4, <1>6, <3>2
    <3>4. work.obj.uid <= uids'[work.policy]
      BY <1>1, <1>6, <3>1, <3>2
    <3> QED
      BY <1>3, <1>6, <2>2, <3>1, <3>3, <3>4
         DEF Inv, AtWork, Startable, cacheVars, queueVars
  <2> QED
    BY <2>1, <2>2
<1>10. NoLostUpdate'
  BY <1>3, NoLostFrame DEF cacheVars, queueVars
<1>11. ~Settled(p)'
  BY <1>3, <1>6, <1>7 DEF Settled, cacheVars
<1>12. \A q \in Policies : q # p => (Settled(q)' <=> Settled(q))
  BY Zenon, <1>3, <1>6 DEF Settled, cacheVars, queueVars
<1>13. ReadyIsReconciled'
  BY <1>3, <1>6, <1>11, <1>12 DEF Inv, ReadyIsReconciled, Registered, Alone, cacheVars
<1>14. NeverForgotten'
  BY <1>3, <1>6, <1>11, <1>12 DEF Inv, NeverForgotten, queueVars
<1> QED
  BY <1>5, <1>8, <1>9, <1>10, <1>13, <1>14 DEF Inv

(* Edit keeps the invariant: the generation is larger than the cached one. *)
LEMMA EditInv ==
  ASSUME Inv, NEW p \in Policies, NEW spec \in Specs, Edit(p, spec)
  PROVE  Inv'
<1> DEFINE obj == [uid |-> api[p].uid, gen |-> api[p].gen + 1, spec |-> spec,
                   status |-> api[p].status, observed |-> api[p].observed]
<1>1. api[p] \in Object /\ api[p] # None /\ api[p].gen < MaxGen
  BY Zenon DEF Edit, Inv, TypeOK
<1>2. obj \in Object /\ obj.uid = api[p].uid /\ obj.gen = api[p].gen + 1
  BY <1>1, BoundsAssumption DEF Object
<1>3. obj # None
  BY <1>2, NoneAssumption
<1>4. /\ api' = [api EXCEPT ![p] = obj]
      /\ UNCHANGED <<sources, uids, cacheVars, queueVars, work, loops, scaled, restarts>>
  BY DEF Edit
<1> HIDE DEF obj
<1>5. TypeOK'
  BY <1>2, <1>4 DEF Inv, TypeOK, cacheVars, queueVars
<1>6. api'[p] = obj /\ \A q \in Policies : q # p => api'[q] = api[q]
  BY <1>4 DEF Inv, TypeOK
<1>7. cache[p] # obj
  BY <1>1, <1>2, <1>3 DEF Inv, Lagging, TypeOK, Object
<1>8. Lagging'
  <2>1. ASSUME NEW q \in Policies
        PROVE  /\ api'[q] # None => api'[q].uid = uids[q]
               /\ cache[q] # None =>
                    /\ cache[q].uid <= uids[q]
                    /\ api'[q] # None /\ cache[q].uid = api'[q].uid
                         => cache[q].gen <= api'[q].gen
    BY <1>1, <1>2, <1>6 DEF Inv, Lagging, TypeOK, Object
  <2> QED
    BY <1>4, <2>1 DEF Lagging, cacheVars
<1>9. AtWork'
  <2>1. \A q \in Policies : \A u : api[q] = None \/ api[q].uid # u
                                  => api'[q] = None \/ api'[q].uid # u
    BY <1>1, <1>2, <1>6
  <2>2. work # None => work.policy \in Policies
    BY DEF Inv, TypeOK, Work
  <2> QED
    BY <1>4, <2>1, <2>2 DEF Inv, AtWork, Startable, cacheVars, queueVars
<1>10. NoLostUpdate'
  BY <1>4, NoLostFrame DEF cacheVars, queueVars
<1>11. ~Settled(p)'
  BY <1>4, <1>6, <1>7 DEF Settled, cacheVars
<1>12. \A q \in Policies : q # p => (Settled(q)' <=> Settled(q))
  BY Zenon, <1>4, <1>6 DEF Settled, cacheVars, queueVars
<1>13. ReadyIsReconciled'
  BY <1>4, <1>6, <1>11, <1>12 DEF Inv, ReadyIsReconciled, Registered, Alone, cacheVars
<1>14. NeverForgotten'
  BY <1>4, <1>6, <1>11, <1>12 DEF Inv, NeverForgotten, queueVars
<1> QED
  BY <1>5, <1>8, <1>9, <1>10, <1>13, <1>14 DEF Inv

(* Nothing is said about a policy that is deleted but for its loop.        *)
LEMMA DeletePolicyInv ==
  ASSUME Inv, NEW p \in Policies, DeletePolicy(p)
  PROVE  Inv'
<1>1. /\ api' = [api EXCEPT ![p] = None]
      /\ UNCHANGED <<sources, uids, cacheVars, queueVars, work, loops, scaled, restarts>>
  BY DEF DeletePolicy
<1>2. TypeOK'
  BY <1>1 DEF Inv, TypeOK, cacheVars, queueVars
<1>3. api'[p] = None /\ \A q \in Policies : q # p => api'[q] = api[q]
  BY <1>1 DEF Inv, TypeOK
<1>4. Lagging'
  BY Zenon, <1>1, <1>3 DEF Inv, Lagging, cacheVars
<1>5. AtWork'
  <2>1. work # None => work.policy \in Policies
    BY DEF Inv, TypeOK, Work
  <2> QED
    BY <1>1, <1>3, <2>1 DEF Inv, AtWork, Startable, cacheVars, queueVars
<1>6. NoLostUpdate'
  BY <1>1, NoLostFrame DEF cacheVars, queueVars
<1>7. \A q \in Policies : q # p => (Settled(q)' <=> Settled(q))
  BY Zenon, <1>1, <1>3 DEF Settled, cacheVars, queueVars
<1>8. ReadyIsReconciled'
  BY <1>1, <1>3, <1>7 DEF Inv, ReadyIsReconciled, Registered, Alone, cacheVars
<1>9. NeverForgotten'
  BY <1>1, <1>3, <1>7 DEF Inv, NeverForgotten, queueVars
<1> QED
  BY <1>2, <1>4, <1>5, <1>6, <1>8, <1>9 DEF Inv

(* A change of a DataSource is not noticed before it reaches the cache.    *)
LEMMA ChangeSourceInv ==
  ASSUME Inv, NEW s \in Sources, NEW config \in Configs \cup {None},
         ChangeSource(s, config)
  PROVE  Inv'
<1>1. /\ sources' = [sources EXCEPT ![s] = config]
      /\ UNCHANGED <<api, uids, cache, sourceCache, queue, timers, work, loops,
                     scaled, restarts>>
  BY DEF ChangeSource, cacheVars, queueVars
<1>2. TypeOK'
  BY Zenon, <1>1 DEF Inv, TypeOK
<1>3. Lagging' /\ AtWork'
  BY <1>1 DEF Inv, Lagging, AtWork, Startable
<1>4. NoLostUpdate'
  BY Zenon, <1>1, NoLostFrame
<1>5. \A p \in Policies : Settled(p)' <=> Settled(p)
  BY Zenon, <1>1 DEF Settled
<1>6. ReadyIsReconciled'
  BY <1>1, <1>5 DEF Inv, ReadyIsReconciled, Registered, Alone
<1>7. NeverForgotten'
  BY <1>1, <1>5 DEF Inv, NeverForgotten
<1> QED
  BY <1>2, <1>3, <1>4, <1>6, <1>7 DEF Inv

(* The garbage collector takes nothing a policy owns.                      *)
LEMMA CollectGarbageInv ==
  ASSUME Inv, NEW p \in Policies, CollectGarbage(p)
  PROVE  Inv'
<1>1. /\ scaled' = [scaled EXCEPT ![p] = None]
      /\ UNCHANGED <<api, sources, uids, cache, sourceCache, queue, timers, work,
                     loops, restarts>>
      /\ scaled[p] # None /\ (api[p] # None => api[p].uid # scaled[p].uid)
  BY DEF CollectGarbage, apiVars, cacheVars, queueVars
<1>2. TypeOK'
  BY <1>1 DEF Inv, TypeOK
<1>3. scaled'[p] = None /\ \A q \in Policies : q # p => scaled'[q] = scaled[q]
  BY Zenon, <1>1 DEF Inv, TypeOK
<1>4. Lagging' /\ NoLostUpdate' /\ NeverForgotten'
  BY Zenon, <1>1 DEF Inv, Lagging, NoLostUpdate, NeverForgotten, Settled, Registered, Startable, Alone
<1>5. AtWork'
  <2>1. work # None => work.policy \in Policies
    BY DEF Inv, TypeOK, Work
  <2>2. ASSUME NEW obj, scaled[p] = ScaledFor(p, obj)
        PROVE  api[p] = None \/ api[p].uid # obj.uid
    BY <1>1, <2>2 DEF ScaledFor
  <2> QED
    BY <1>1, <1>3, <2>1, <2>2 DEF Inv, AtWork, Startable
<1>6. ReadyIsReconciled'
  <2>1. ASSUME NEW q \in Policies, Alone(q), Settled(q), api[q] # None,
               api[q].status = "Ready"
        PROVE  /\ api[q].observed = api[q].gen
               /\ Registered(q, api[q].spec, sourceCache[api[q].spec.source])
               /\ scaled'[q] = ScaledFor(q, api[q])
    <3>1. /\ api[q].observed = api[q].gen
          /\ Registered(q, api[q].spec, sourceCache[api[q].spec.source])
          /\ scaled[q] = ScaledFor(q, api[q])
      BY Zenon, <2>1 DEF Inv, ReadyIsReconciled
    <3>2. q # p
      BY <1>1, <2>1, <3>1 DEF ScaledFor
    <3> QED
      BY Zenon, <1>3, <3>1, <3>2
  <2> QED
    BY <1>1, <2>1 DEF ReadyIsReconciled, Settled, Registered, Alone
<1> QED
  BY <1>2, <1>4, <1>5, <1>6 DEF Inv

(* A panic leaves the loop registered.                                     *)
LEMMA LoopPanicsInv ==
  ASSUME Inv, NEW k \in Keys, LoopPanics(k)
  PROVE  Inv'
<1> DEFINE loop == [loops[k] EXCEPT !.alive = FALSE]
<1>1. /\ loops' = [loops EXCEPT ![k] = loop] /\ loops[k] # None
      /\ UNCHANGED <<api, sources, uids, cache, sourceCache, queue, timers, work,
                     scaled, restarts>>
  BY DEF LoopPanics, apiVars, cacheVars, queueVars
<1>2. loops[k] \in Loop
  BY Zenon, <1>1 DEF Inv, TypeOK
<1>3. /\ loop \in Loop /\ loop.policy = loops[k].policy
      /\ loop.workload = loops[k].workload /\ loop.config = loops[k].config
  BY <1>2 DEF Loop
<1>4. loop # None
  BY Zenon, <1>3, NoneAssumption
<1> HIDE DEF loop
<1>5. TypeOK'
  BY <1>1, <1>3 DEF Inv, TypeOK
<1>6. loops'[k] = loop /\ \A j \in Keys : j # k => loops'[j] = loops[j]
  BY Zenon, <1>1 DEF Inv, TypeOK
<1>7. \A p \in Policies : workloadKey(p) \in Keys
  BY DEF Keys
<1>8. \A p \in Policies : \A spec, config :
        Registered(p, spec, config)' <=> Registered(p, spec, config)
  BY <1>1, <1>3, <1>4, <1>6, <1>7 DEF Registered
<1>9. \A p \in Policies : loops'[workloadKey(p)] = None <=> loops[workloadKey(p)] = None
  BY Zenon, <1>1, <1>4, <1>6, <1>7
<1>10. Lagging' /\ AtWork'
  BY <1>1 DEF Inv, Lagging, AtWork, Startable
<1>11. NoLostUpdate'
  BY <1>1, <1>8, <1>9 DEF Inv, NoLostUpdate, Startable, Alone
<1>12. \A p \in Policies : Settled(p)' <=> Settled(p)
  BY Zenon, <1>1 DEF Settled
<1>13. ReadyIsReconciled'
  BY <1>1, <1>8, <1>12 DEF Inv, ReadyIsReconciled, Alone
<1>14. NeverForgotten'
  BY <1>1, <1>12 DEF Inv, NeverForgotten
<1> QED
  BY <1>5, <1>10, <1>11, <1>13, <1>14 DEF Inv

(* The watch of policies queues what it changes in the cache.              *)
LEMMA SyncPolicyInv ==
  ASSUME Inv, NEW p \in Policies, SyncPolicy(p)
  PROVE  Inv'
<1>1. /\ cache' = [cache EXCEPT ![p] = api[p]] /\ queue' = queue \cup {p}
      /\ UNCHANGED <<api, sources, uids, sourceCache, timers, work, loops, scaled,
                     restarts>>
  BY DEF SyncPolicy, apiVars
<1>2. TypeOK'
  BY <1>1 DEF Inv, TypeOK
<1>3. cache'[p] = api[p] /\ \A q \in Policies : q # p => cache'[q] = cache[q]
  BY <1>1 DEF Inv, TypeOK
<1>4. p \in queue' /\ \A q \in Policies : q # p => (q \in queue' <=> q \in queue)
  BY <1>1
<1>5. Lagging'
  BY <1>1, <1>3 DEF Inv, Lagging, TypeOK, Object
<1>6. AtWork'
  <2>1. work # None => work.policy \in Policies
    BY DEF Inv, TypeOK, Work
  <2> QED
    BY Zenon, <1>1, <1>3, <1>4, <2>1 DEF Inv, AtWork, Startable
<1>7. NoLostUpdate'
  <2>1. \A q \in Policies : q \notin queue' => q \notin queue /\ cache'[q] = cache[q]
    BY <1>3, <1>4
  <2> QED
    BY <1>1, <2>1 DEF Inv, NoLostUpdate, Registered, Startable, Alone
<1>8. ~Settled(p)' /\ \A q \in Policies : q # p => (Settled(q)' <=> Settled(q))
  BY Zenon, <1>1, <1>3, <1>4 DEF Settled
<1>9. ReadyIsReconciled'
  BY <1>1, <1>8 DEF Inv, ReadyIsReconciled, Registered, Alone
<1>10. NeverForgotten'
  BY <1>1, <1>8 DEF Inv, NeverForgotten
<1> QED
  BY <1>2, <1>5, <1>6, <1>7, <1>9, <1>10 DEF Inv

(* The watch of DataSources queues every policy whose loop depends on it.  *)
LEMMA SyncSourceInv ==
  ASSUME Inv, NEW s \in Sources, SyncSource(s)
  PROVE  Inv'
<1>1. /\ sourceCache' = [sourceCache EXCEPT ![s] = sources[s]]
      /\ queue' = queue \cup policiesForDataSource(s)
      /\ UNCHANGED <<api, sources, uids, cache, timers, work, loops, scaled, restarts>>
  BY DEF SyncSource, apiVars
<1>2. TypeOK'
  BY <1>1 DEF Inv, TypeOK, policiesForDataSource
<1>3. \A r \in Sources : r # s => sourceCache'[r] = sourceCache[r]
  BY Zenon, <1>1 DEF Inv, TypeOK
<1>4. ASSUME NEW q \in Policies, q \notin queue', cache[q] # None
      PROVE  /\ q \notin queue
             /\ sourceCache'[cache[q].spec.source] = sourceCache[cache[q].spec.source]
  <2>1. cache[q].spec.source \in Sources
    BY <1>4, SpecsAssumption DEF Inv, TypeOK, Object
  <2>2. cache[q].spec.source # s
    BY <1>1, <1>4 DEF policiesForDataSource
  <2> QED
    BY <1>1, <1>3, <1>4, <2>1, <2>2
<1>5. queue \subseteq queue'
  BY Zenon, <1>1
<1>6. Lagging'
  BY <1>1 DEF Inv, Lagging
<1>7. AtWork'
  <2>1. CASE work = None
    BY Zenon, <1>1, <2>1 DEF AtWork
  <2>2. CASE work # None
    <3>1. work.policy \in Policies /\ work.obj \in Object /\ work.obj # None
      BY Zenon, <2>2, NoneAssumption DEF Inv, TypeOK, Work
    <3>2. work.policy \notin queue' =>
            /\ work.policy \notin queue /\ work.obj = cache[work.policy]
            /\ sourceCache'[work.obj.spec.source] = sourceCache[work.obj.spec.source]
      BY Zenon, <1>4, <1>5, <2>2, <3>1 DEF Inv, AtWork
    <3> QED
      BY Zenon, <1>1, <1>5, <2>2, <3>2 DEF Inv, AtWork, Startable
  <2> QED
    BY Zenon, <2>1, <2>2
<1>8. NoLostUpdate'
  <2> SUFFICES ASSUME NEW q \in Policies, Alone(q), q \notin queue',
                      ~(work # None /\ work.policy = q /\ work.at = "launch")
               PROVE  IF cache[q] = None THEN loops[workloadKey(q)] = None
                      ELSE LET spec == cache[q].spec
                           IN Startable(spec, sourceCache'[spec.source])
                                => Registered(q, spec, sourceCache'[spec.source])
    BY <1>1 DEF NoLostUpdate, Alone, Registered, Startable
  <2>1. q \notin queue
    BY Zenon, <1>5
  <2> QED
    BY Zenon, <1>4, <2>1 DEF Inv, NoLostUpdate
<1>9. \A q \in Policies : Settled(q)' => Settled(q)
  BY Zenon, <1>1, <1>5 DEF Settled
<1>10. ReadyIsReconciled'
  <2> SUFFICES ASSUME NEW q \in Policies, Alone(q), Settled(q)', api[q] # None,
                      api[q].status = "Ready"
               PROVE  /\ api[q].observed = api[q].gen
                      /\ Registered(q, api[q].spec, sourceCache'[api[q].spec.source])
                      /\ scaled[q] = ScaledFor(q, api[q])
    BY <1>1 DEF ReadyIsReconciled, Alone, Registered
  <2>1. q \notin queue' /\ cache[q] = api[q]
    BY <1>1 DEF Settled
  <2>2. sourceCache'[api[q].spec.source] = sourceCache[api[q].spec.source]
    BY <1>4, <2>1
  <2> QED
    BY Zenon, <1>9, <2>2 DEF Inv, ReadyIsReconciled
<1>11. NeverForgotten'
  BY <1>1, <1>9 DEF Inv, NeverForgotten
<1> QED
  BY <1>2, <1>6, <1>7, <1>8, <1>10, <1>11 DEF Inv

(* A timer queues its policy.                                              *)
LEMMA TimerInv ==
  ASSUME Inv, NEW p \in Policies, Timer(p)
  PROVE  Inv'
<1>1. /\ timers' = timers \ {p} /\ queue' = queue \cup {p}
      /\ UNCHANGED <<api, sources, uids, cache, sourceCache, work, loops, scaled,
                     restarts>>
  BY Zenon DEF Timer, apiVars, cacheVars
<1>2. TypeOK'
  BY <1>1 DEF Inv, TypeOK
<1>3. p \in queue' /\ \A q \in Policies : q # p => (q \in queue' <=> q \in queue)
  BY Zenon, <1>1
<1>4. Lagging'
  BY Zenon, <1>1 DEF Inv, Lagging
<1>5. AtWork'
  BY <1>1 DEF Inv, AtWork, Startable
<1>6. NoLostUpdate'
  BY <1>1, NoLostFrame
<1>7. ~Settled(p)' /\ \A q \in Policies : q # p => (Settled(q)' <=> Settled(q))
  BY Zenon, <1>1, <1>3 DEF Settled
<1>8. ReadyIsReconciled'
  BY <1>1, <1>7 DEF Inv, ReadyIsReconciled, Registered, Alone
<1>9. NeverForgotten'
  BY <1>1, <1>7 DEF Inv, NeverForgotten
<1> QED
  BY <1>2, <1>4, <1>5, <1>6, <1>8, <1>9 DEF Inv

(* After a restart every policy is queued and there is no loop.            *)
LEMMA RestartInv ==
  ASSUME Inv, Restart
  PROVE  Inv'
<1>1. /\ restarts' = restarts + 1 /\ restarts < MaxRestarts
      /\ cache' = api /\ sourceCache' = sources
      /\ queue' = {p \in Policies : api[p] # None} /\ timers' = {}
      /\ work' = None /\ loops' = [k \in Keys |-> None]
      /\ UNCHANGED <<api, sources, uids, scaled>>
  BY Zenon DEF Restart, apiVars
<1>2. TypeOK'
  BY <1>1, BoundsAssumption DEF Inv, TypeOK
<1>3. \A p \in Policies : api[p] # None => p \in queue'
  BY <1>1
<1>4. \A p \in Policies : loops'[workloadKey(p)] = None
  BY Zenon, <1>1 DEF Keys
<1>5. Lagging'
  BY <1>1 DEF Inv, Lagging, TypeOK, Object
<1>6. AtWork'
  BY Zenon, <1>1 DEF AtWork
<1>7. NoLostUpdate'
  BY Zenon, <1>1, <1>3, <1>4 DEF NoLostUpdate
<1>8. ReadyIsReconciled' /\ NeverForgotten'
  BY <1>1, <1>3 DEF ReadyIsReconciled, NeverForgotten, Settled
<1> QED
  BY <1>2, <1>5, <1>6, <1>7, <1>8 DEF Inv

------------------------------------------------------------------------------
(* The steps of Reconcile.                                                 *)

(* Reconcile begins with the cached version, or removes the loop.          *)
LEMMA DequeueInv ==
  ASSUME Inv, NEW p \in Policies, Dequeue(p)
  PROVE  Inv'
<1>1. /\ work = None /\ p \in queue /\ queue' = queue \ {p}
      /\ UNCHANGED <<api, sources, uids, cache, sourceCache, timers, scaled, restarts>>
  BY DEF Dequeue, apiVars, cacheVars
<1>2. workloadKey(p) \in Keys
  BY DEF Keys
<1>3. \A q \in Policies : q # p => (q \in queue' <=> q \in queue)
  BY Zenon, <1>1
<1>4. Lagging'
  BY Zenon, <1>1 DEF Inv, Lagging
<1>5. CASE cache[p] = None
  <2>1. loops' = [loops EXCEPT ![workloadKey(p)] = None] /\ work' = None
    BY Zenon, <1>1, <1>5 DEF Dequeue
  <2>2. TypeOK'
    BY <1>1, <1>2, <2>1 DEF Inv, TypeOK
  <2>3. loops'[workloadKey(p)] = None
    BY <1>2, <2>1 DEF Inv, TypeOK
  <2>4. \A q \in Policies : q # p /\ Alone(q) => LoopUntouched(q)
    BY Zenon, <2>1, OtherKey DEF Inv
  <2>5. NoLostUpdate'
    <3>1. ASSUME NEW q \in Policies, Alone(q), q \notin queue' PROVE Synced(q)'
      <4>1. CASE q = p
        BY <1>1, <1>5, <2>3, <4>1 DEF Synced
      <4>2. CASE q # p
        <5>1. Synced(q)
          BY <1>1, <1>3, <3>1, <4>2 DEF Inv, NoLostUpdate, Synced
        <5> QED
          BY <1>1, <2>4, <3>1, <4>2, <5>1, SyncedFrame
      <4> QED
        BY <4>1, <4>2
    <3> QED
      BY <3>1 DEF NoLostUpdate, Synced, Alone
  <2>6. \A q \in Policies : q # p => (Settled(q)' <=> Settled(q))
    BY <1>1, <1>3, <2>1 DEF Settled
  <2>7. Settled(p)' => api[p] = None
    BY Zenon, <1>1, <1>5 DEF Settled
  <2>8. ReadyIsReconciled'
    <3>1. ASSUME NEW q \in Policies, Alone(q), Settled(q)', api[q] # None
          PROVE  Settled(q) /\ LoopUntouched(q)
      BY <2>4, <2>6, <2>7, <3>1
    <3> QED
      BY <1>1, <3>1 DEF Inv, ReadyIsReconciled, Registered, Alone, LoopUntouched
  <2>9. NeverForgotten'
    BY <1>1, <2>6, <2>7 DEF Inv, NeverForgotten
  <2> QED
    BY Zenon, <1>4, <2>1, <2>2, <2>5, <2>8, <2>9 DEF Inv, AtWork
<1>6. CASE cache[p] # None
  <2>1. /\ work' = [policy |-> p, at |-> "launch", obj |-> cache[p], verdict |-> "Ready"]
        /\ loops' = loops
    BY <1>6 DEF Dequeue
  <2>2. cache[p] \in Object
    BY Zenon, <1>6 DEF Inv, TypeOK
  <2>3. work' \in Work /\ work' # None
    BY <2>1, <2>2, NoneAssumption DEF Work, Verdicts
  <2>4. work'.policy = p /\ work'.at = "launch" /\ work'.obj = cache[p]
    BY Zenon, <2>1
  <2>5. TypeOK'
    BY Zenon, <1>1, <2>1, <2>3 DEF Inv, TypeOK
  <2>6. AtWork'
    BY Zenon, <1>1, <1>6, <2>4 DEF Inv, Lagging, AtWork
  <2>7. NoLostUpdate'
    BY Zenon, <1>1, <1>3, <2>1, <2>3, <2>4 DEF Inv, NoLostUpdate, Registered, Startable, Alone
  <2>8. ~Settled(p)' /\ \A q \in Policies : q # p => (Settled(q)' <=> Settled(q))
    BY Zenon, <1>1, <1>3, <2>3, <2>4 DEF Settled
  <2>9. ReadyIsReconciled'
    BY <1>1, <2>1, <2>8 DEF Inv, ReadyIsReconciled, Registered, Alone
  <2>10. NeverForgotten'
    BY <1>1, <2>8 DEF Inv, NeverForgotten
  <2> QED
    BY Zenon, <1>4, <2>5, <2>6, <2>7, <2>9, <2>10 DEF Inv
<1> QED
  BY Zenon, <1>5, <1>6

(* Launch registers the loop of the version at work, which is the cached   *)
(* one unless the policy is queued again.                                  *)
LEMMA LaunchInv ==
  ASSUME Inv, Launch
  PROVE  Inv'
<1> DEFINE p == work.policy
           obj == work.obj
           spec == obj.spec
           verdict == Obstacle(spec)
           config == sourceCache[spec.source]
           k == workloadKey(p)
<1>1. /\ work \in Work /\ work # None /\ work.at = "launch"
      /\ UNCHANGED <<api, sources, uids, cache, sourceCache, queue, timers, scaled,
                     restarts>>
  BY DEF Launch, Inv, TypeOK, apiVars, cacheVars, queueVars
<1>2. p \in Policies /\ obj \in Object /\ spec \in Specs /\ k \in Keys
  BY <1>1 DEF Work, Object, Keys
<1>3. /\ spec.source \in Sources /\ spec.valid \in BOOLEAN /\ spec.workload \in Nat
      /\ config \in Configs \cup {None}
  BY <1>2, SpecsAssumption DEF Inv, TypeOK
<1>4. obj # None
  BY Zenon, <1>2, NoneAssumption
<1>5. verdict \in Verdicts /\ (verdict = "Ready" <=> Startable(spec, config))
  BY Zenon, <1>3, ConfigsAssumption DEF Obstacle, Startable, Verdicts
<1>6. Lagging'
  BY Zenon, <1>1 DEF Inv, Lagging
<1>7. \A at \in {"scale", "report"} :
        work' = [policy |-> p, at |-> at, obj |-> obj, verdict |-> verdict] =>
          /\ work' \in Work /\ work' # None
          /\ work'.policy = p /\ work'.at = at /\ work'.obj = obj /\ work'.verdict = verdict
  BY <1>2, <1>5, NoneAssumption DEF Work
<1>8. CASE verdict = "Ready"
  <2> DEFINE loop == [policy |-> p, workload |-> spec.workload, config |-> config,
                      alive |-> TRUE]
  <2>1. /\ loops' = [loops EXCEPT ![k] = loop]
        /\ work' = [policy |-> p, at |-> "scale", obj |-> obj, verdict |-> verdict]
    BY Zenon, <1>8 DEF Launch, Upsert, Continue
  <2>2. /\ work' \in Work /\ work' # None /\ work'.policy = p /\ work'.at = "scale"
        /\ work'.obj = obj
    BY Zenon, <1>2, <1>7, <2>1
  <2>3. loop \in Loop /\ loop # None
    <3>1. config \in Configs
      BY Zenon, <1>3, <1>5, <1>8 DEF Startable
    <3>2. loop \in Loop
      BY <1>2, <1>3, <3>1 DEF Loop
    <3> QED
      BY Zenon, <3>2, NoneAssumption
  <2>4. TypeOK'
    BY Zenon, <1>1, <1>2, <2>1, <2>2, <2>3 DEF Inv, TypeOK
  <2>5. loops'[k] = loop
    BY Zenon, <1>2, <2>1 DEF Inv, TypeOK
  <2>6. /\ loops'[k] # None /\ loops'[k].policy = p
        /\ loops'[k].workload = spec.workload /\ loops'[k].config = config
    BY <2>3, <2>5
  <2>7. \A q \in Policies : q # p /\ Alone(q) => LoopUntouched(q)
    BY Zenon, <1>2, <2>1, OtherKey DEF Inv
  <2>8. AtWork'
    BY <1>1, <1>5, <1>8, <2>2 DEF Inv, AtWork, Startable
  <2>9. NoLostUpdate'
    <3>1. p \in queue \/ cache[p] = obj
      BY <1>1 DEF Inv, AtWork
    <3>2. ASSUME NEW q \in Policies, Alone(q), q \notin queue
          PROVE  IF cache[q] = None THEN loops'[workloadKey(q)] = None
                 ELSE Startable(cache[q].spec, sourceCache[cache[q].spec.source]) =>
                        /\ loops'[workloadKey(q)] # None
                        /\ loops'[workloadKey(q)].policy = q
                        /\ loops'[workloadKey(q)].workload = cache[q].spec.workload
                        /\ loops'[workloadKey(q)].config
                             = sourceCache[cache[q].spec.source]
      <4>1. CASE q = p
        BY Zenon, <1>4, <2>6, <3>1, <3>2, <4>1
      <4>2. CASE q # p
        BY <1>1, <2>7, <3>2, <4>2 DEF Inv, NoLostUpdate, Registered, LoopUntouched
      <4> QED
        BY Zenon, <4>1, <4>2
    <3> HIDE DEF p, obj, spec, verdict, config, k, loop
    <3> QED
      BY <1>1, <3>2 DEF NoLostUpdate, Registered, Startable, Alone
  <2>10. \A q \in Policies : Settled(q)' => q # p /\ Settled(q)
    BY Zenon, <1>1, <2>2 DEF Settled
  <2> HIDE DEF p, obj, spec, verdict, config, k, loop
  <2>11. ReadyIsReconciled'
    BY <1>1, <2>7, <2>10 DEF Inv, ReadyIsReconciled, Registered, Alone, LoopUntouched
  <2>12. NeverForgotten'
    BY Zenon, <1>1, <2>10 DEF Inv, NeverForgotten
  <2> QED
    BY Zenon, <1>6, <2>4, <2>8, <2>9, <2>11, <2>12 DEF Inv
<1>9. CASE verdict # "Ready"
  <2>1. /\ loops' = loops
        /\ work' = [policy |-> p, at |-> "report", obj |-> obj, verdict |-> verdict]
    BY Zenon, <1>9 DEF Launch, Continue
  <2>2. /\ work' \in Work /\ work' # None /\ work'.policy = p /\ work'.at = "report"
        /\ work'.obj = obj /\ work'.verdict # "Ready"
    BY Zenon, <1>2, <1>7, <1>9, <2>1
  <2>3. TypeOK'
    BY Zenon, <1>1, <2>1, <2>2 DEF Inv, TypeOK
  <2>4. AtWork'
    BY Zenon, <1>1, <2>2 DEF Inv, AtWork
  <2>5. p \in queue \/ cache[p] = obj
    BY Zenon, <1>1 DEF Inv, AtWork
  <2>6. ~Startable(spec, config)
    BY Zenon, <1>5, <1>9
  <2>7. NoLostUpdate'
    <3>1. ASSUME NEW q \in Policies, Alone(q), q \notin queue
          PROVE  IF cache[q] = None THEN loops[workloadKey(q)] = None
                 ELSE Startable(cache[q].spec, sourceCache[cache[q].spec.source]) =>
                        Registered(q, cache[q].spec, sourceCache[cache[q].spec.source])
      <4>1. CASE q = p
        BY Zenon, <1>4, <2>5, <2>6, <3>1, <4>1
      <4>2. CASE q # p
        BY Zenon, <1>1, <3>1, <4>2 DEF Inv, NoLostUpdate
      <4> QED
        BY Zenon, <4>1, <4>2
    <3> HIDE DEF p, obj, spec, verdict, config, k
    <3> QED
      BY <1>1, <2>1, <3>1 DEF NoLostUpdate, Registered, Startable, Alone
  <2>8. \A q \in Policies : Settled(q)' => q # p /\ Settled(q)
    BY Zenon, <1>1, <2>2 DEF Settled
  <2> HIDE DEF p, obj, spec, verdict, config, k
  <2>9. ReadyIsReconciled'
    BY <1>1, <2>1, <2>8 DEF Inv, ReadyIsReconciled, Registered, Alone
  <2>10. NeverForgotten'
    BY <1>1, <2>8 DEF Inv, NeverForgotten
  <2> QED
    BY <1>6, <2>3, <2>4, <2>7, <2>9, <2>10 DEF Inv
<1> QED
  BY Zenon, <1>8, <1>9

(* reconcileScaledObject generates the ScaledObject from the version at    *)
(* work; the policy is not settled meanwhile.                              *)
LEMMA ScaleInv ==
  ASSUME Inv, reconcileScaledObject
  PROVE  Inv'
<1> DEFINE p == work.policy
           obj == work.obj
           owned == ScaledFor(p, obj)
<1>1. /\ work \in Work /\ work # None /\ work.at = "scale"
      /\ UNCHANGED <<api, sources, uids, cache, sourceCache, queue, timers, loops,
                     restarts>>
  BY DEF reconcileScaledObject, Inv, TypeOK, apiVars, cacheVars, queueVars
<1>2. p \in Policies /\ obj \in Object /\ owned \in Scaled
  <2>1. p \in Policies /\ obj \in Object /\ workloadKey(p) \in Keys
    BY Zenon, <1>1 DEF Work, Keys
  <2>2. obj.uid \in 1..MaxUid /\ obj.spec.scaling \in Nat
    BY <2>1, SpecsAssumption DEF Object
  <2> QED
    BY <2>1, <2>2 DEF Scaled, ScaledFor
<1>3. \/ /\ scaled' = [scaled EXCEPT ![p] = owned]
         /\ work' = [policy |-> p, at |-> "report", obj |-> obj, verdict |-> "Ready"]
      \/ /\ scaled' = scaled
         /\ work' = [policy |-> p, at |-> "report", obj |-> obj,
                     verdict |-> "ScaledObjectError"]
  BY Zenon DEF reconcileScaledObject, Continue
<1>4. /\ work' \in Work /\ work' # None /\ work'.policy = p /\ work'.at = "report"
      /\ work'.obj = obj
  BY <1>2, <1>3, NoneAssumption DEF Work, Verdicts
<1>5. /\ work'.verdict = "Ready" => scaled'[p] = owned
      /\ \A q \in Policies : q # p => scaled'[q] = scaled[q]
  BY <1>2, <1>3 DEF Inv, TypeOK
<1>6. scaled' \in [Policies -> Scaled \cup {None}]
  BY Zenon, <1>2, <1>3 DEF Inv, TypeOK
<1>7. TypeOK'
  BY Zenon, <1>1, <1>4, <1>6 DEF Inv, TypeOK
<1>8. Lagging'
  BY Zenon, <1>1 DEF Inv, Lagging
<1>9. AtWork'
  BY Zenon, <1>1, <1>4, <1>5 DEF Inv, AtWork, Startable
<1>10. \A q \in Policies : Settled(q)' => q # p /\ Settled(q)
  BY <1>1, <1>4 DEF Settled
<1> HIDE DEF p, obj, owned
<1>11. NoLostUpdate'
  BY Zenon, <1>1, <1>4, NoLostFrame
<1>12. ReadyIsReconciled'
  BY <1>1, <1>5, <1>10 DEF Inv, ReadyIsReconciled, Registered, Alone
<1>13. NeverForgotten'
  BY Zenon, <1>1, <1>10 DEF Inv, NeverForgotten
<1> QED
  BY Zenon, <1>7, <1>8, <1>9, <1>11, <1>12, <1>13 DEF Inv

(* Report writes a status only over the version that was reconciled.       *)
LEMMA ReportInv ==
  ASSUME Inv, Report
  PROVE  Inv'
<1> DEFINE p == work.policy
           obj == work.obj
           new == [uid |-> obj.uid, gen |-> obj.gen, spec |-> obj.spec,
                   status |-> work.verdict, observed |-> obj.gen]
<1>1. /\ work \in Work /\ work # None /\ work.at = "report" /\ work' = None
      /\ UNCHANGED <<sources, uids, cache, sourceCache, loops, scaled, restarts>>
  BY DEF Report, Inv, TypeOK, cacheVars
<1>2. p \in Policies /\ obj \in Object /\ obj # None /\ work.verdict \in Verdicts
  BY Zenon, <1>1, NoneAssumption DEF Work
<1>3. AtWork'
  BY <1>1 DEF AtWork
<1>4. CASE StatusUpdated /\ timers' = timers \cup {p} /\ queue' = queue
  <2>1. new \in Object
    BY <1>2, BoundsAssumption DEF Object
  <2>2. new # None
    BY Zenon, <2>1, NoneAssumption
  <2>3. api[p] = obj /\ api' = [api EXCEPT ![p] = new]
    BY Zenon, <1>4 DEF StatusUpdated
  <2>4. api'[p] = new /\ \A q \in Policies : q # p => api'[q] = api[q]
    BY Zenon, <1>2, <2>3 DEF Inv, TypeOK
  <2>5. TypeOK'
    BY Zenon, <1>1, <1>2, <1>4, <2>1, <2>3 DEF Inv, TypeOK
  <2>6. /\ new.uid = obj.uid /\ new.gen = obj.gen /\ new.spec = obj.spec
        /\ new.status = work.verdict /\ new.observed = obj.gen
    BY Zenon
  <2>7. p \in queue \/ obj = cache[p]
    BY Zenon, <1>1 DEF Inv, AtWork
  <2>8. work.verdict = "Ready" =>
          /\ p \in queue \/ Startable(obj.spec, sourceCache[obj.spec.source])
          /\ scaled[p] = ScaledFor(p, obj)
    BY Zenon, <1>1, <1>2, <2>3 DEF Inv, AtWork
  <2>9. Alone(p) /\ p \notin queue /\ work.verdict = "Ready" =>
          Registered(p, obj.spec, sourceCache[obj.spec.source])
    BY Zenon, <1>1, <1>2, <2>7, <2>8 DEF Inv, NoLostUpdate
  <2> HIDE DEF p, obj, new
  <2>10. Lagging'
    BY <1>1, <1>2, <2>2, <2>3, <2>4, <2>6 DEF Inv, Lagging
  <2>11. NoLostUpdate'
    BY Zenon, <1>1, <1>4, NoLostFrame
  <2>12. \A q \in Policies : q # p => (Settled(q)' => Settled(q))
    BY Zenon, <1>1, <1>4, <2>4 DEF Settled, p
  <2>13. ReadyIsReconciled'
    <3>1. ASSUME NEW q \in Policies, Alone(q), Settled(q)', api'[q] # None,
                 api'[q].status = "Ready"
          PROVE  /\ api'[q].observed = api'[q].gen
                 /\ Registered(q, api'[q].spec, sourceCache[api'[q].spec.source])
                 /\ scaled[q] = ScaledFor(q, api'[q])
      <4>1. CASE q = p
        <5>1. p \notin queue
          BY Zenon, <1>4, <3>1, <4>1 DEF Settled
        <5> QED
          BY Zenon, <2>4, <2>6, <2>8, <2>9, <3>1, <4>1, <5>1 DEF ScaledFor
      <4>2. CASE q # p
        BY <2>4, <2>12, <3>1, <4>2 DEF Inv, ReadyIsReconciled
      <4> QED
        BY Zenon, <4>1, <4>2
    <3> QED
      BY Zenon, <1>1, <3>1 DEF ReadyIsReconciled, Registered, Alone
  <2>14. NeverForgotten'
    BY Zenon, <1>4, <2>4, <2>12 DEF Inv, NeverForgotten
  <2> QED
    BY Zenon, <1>3, <2>5, <2>10, <2>11, <2>13, <2>14 DEF Inv
<1>5. CASE queue' = queue \cup {p} /\ UNCHANGED <<api, timers>>
  <2>1. TypeOK'
    BY Zenon, <1>1, <1>2, <1>5 DEF Inv, TypeOK
  <2>2. Lagging'
    BY Zenon, <1>1, <1>5 DEF Inv, Lagging
  <2>3. \A q \in Policies : Settled(q)' => Settled(q)
    BY Zenon, <1>1, <1>5 DEF Settled
  <2> HIDE DEF p, obj, new
  <2>4. NoLostUpdate'
    BY Zenon, <1>1, <1>5, NoLostFrame
  <2>5. ReadyIsReconciled'
    BY <1>1, <1>5, <2>3 DEF Inv, ReadyIsReconciled, Registered, Alone
  <2>6. NeverForgotten'
    BY Zenon, <1>5, <2>3 DEF Inv, NeverForgotten
  <2> QED
    BY <1>3, <2>1, <2>2, <2>4, <2>5, <2>6 DEF Inv
<1> QED
  BY Zenon, <1>4, <1>5 DEF Report

------------------------------------------------------------------------------

(* Every step of the operator and its environment keeps the invariant.     *)
LEMMA StepInv == Inv /\ [Next]_vars => Inv'
<1> SUFFICES ASSUME Inv, [Next]_vars
             PROVE  Inv'
  BY Zenon
<1>1. ASSUME NEW p \in Policies, NEW spec \in SpecsOf(p),
             Create(p, spec) \/ Edit(p, spec)
      PROVE  Inv'
  BY <1>1, CreateInv, EditInv DEF SpecsOf
<1>2. ASSUME NEW p \in Policies, DeletePolicy(p) \/ CollectGarbage(p)
      PROVE  Inv'
  BY <1>2, DeletePolicyInv, CollectGarbageInv
<1>3. ASSUME NEW p \in Policies, SyncPolicy(p) \/ Timer(p) \/ Dequeue(p)
      PROVE  Inv'
  BY <1>3, SyncPolicyInv, TimerInv, DequeueInv
<1>4. ASSUME NEW s \in Sources,
             SyncSource(s) \/ \E config \in Configs \cup {None} : ChangeSource(s, config)
      PROVE  Inv'
  BY <1>4, SyncSourceInv, ChangeSourceInv
<1>5. CASE (\E k \in Keys : LoopPanics(k)) \/ Launch \/ reconcileScaledObject
           \/ Report \/ Restart
  BY <1>5, LoopPanicsInv, LaunchInv, ScaleInv, ReportInv, RestartInv
<1>6. CASE UNCHANGED vars
  <2>1. /\ UNCHANGED <<api, sources, uids, cache, sourceCache, queue, timers>>
        /\ UNCHANGED <<work, loops, scaled, restarts>>
    BY Zenon, <1>6 DEF vars, apiVars, cacheVars, queueVars
  <2>2. TypeOK' /\ Lagging'
    BY Zenon, <2>1 DEF Inv, TypeOK, Lagging
  <2>3. AtWork'
    BY <2>1 DEF Inv, AtWork, Startable
  <2>4. NoLostUpdate'
    BY Zenon, <2>1, NoLostFrame
  <2>5. \A p \in Policies : Settled(p)' <=> Settled(p)
    BY Zenon, <2>1 DEF Settled
  <2>6. ReadyIsReconciled' /\ NeverForgotten'
    BY <2>1, <2>5 DEF Inv, ReadyIsReconciled, NeverForgotten, Registered, Alone
  <2> QED
    BY Zenon, <2>2, <2>3, <2>4, <2>6 DEF Inv
<1> QED
  BY <1>1, <1>2, <1>3, <1>4, <1>5, <1>6 DEF Next

(* The invariant holds from the start.                                     *)
LEMMA AlwaysInv == Spec => []Inv
<1>1. Init => Inv
  <2> SUFFICES ASSUME Init
               PROVE  Inv
    BY Zenon
  <2>1. TypeOK
    BY BoundsAssumption DEF Init, TypeOK
  <2>2. NoLostUpdate
    BY DEF Init, NoLostUpdate, Keys
  <2> QED
    BY <2>1, <2>2 DEF Init, Inv, Lagging, AtWork, ReadyIsReconciled, NeverForgotten
<1> QED
  BY <1>1, StepInv, PTL DEF Spec

(* Every request, loop, ScaledObject and status is well formed; above all  *)
(* a loop is registered only with the config of a DataSource that exists   *)
(* (Reconcile).                                                            *)
THEOREM ControllerTypeOK == Spec => []TypeOK
<1>1. Inv => TypeOK
  BY DEF Inv
<1> QED
  BY <1>1, AlwaysInv, PTL

(* No change of a policy or of its data source is lost between the watch,  *)
(* the queue and Reconcile, for any number of policies, data sources,      *)
(* edits and restarts.                                                     *)
THEOREM ControllerNoLostUpdate == Spec => []NoLostUpdate
<1>1. Inv => NoLostUpdate
  BY DEF Inv
<1> QED
  BY <1>1, AlwaysInv, PTL

(* A settled policy whose status says Ready has registered the loop of its *)
(* current spec and data source and has the ScaledObject generated from    *)
(* that version (Reconcile, reconcileScaledObject, updateReadyStatus).     *)
THEOREM ControllerReadyIsReconciled == Spec => []ReadyIsReconciled
<1>1. Inv => ReadyIsReconciled
  BY DEF Inv
<1> QED
  BY <1>1, AlwaysInv, PTL

(* Every policy that exists is under way or waits for its next reconcile   *)
(* (Reconcile and fail return RequeueAfter).                               *)
THEOREM ControllerNeverForgotten == Spec => []NeverForgotten
<1>1. Inv => NeverForgotten
  BY DEF Inv
<1> QED
  BY <1>1, AlwaysInv, PTL

===============================================================================
