-------------------------- MODULE MemoryStoreProofs --------------------------
(***************************************************************************)
(* The in-memory store is type correct, Stop is safe, and the store        *)
(* implements the interface, for any set of workloads, calls and stoppers. *)
(***************************************************************************)
EXTENDS MemoryStore, TLAPS

(* While cleanup holds mu nobody else touches the map: the entries it has  *)
(* still to visit are there, and the one it is at is the one it has read.  *)
ScanInv ==
  /\ mu <=> cleaner \in {"scan", "entry"}
  /\ cleaner = "none" <=> ttl = 0
  /\ cutoff <= now
  /\ \A w \in todo : snapshots[w] # None
  /\ (todo # {}) => cleaner \in {"scan", "entry"}
  /\ cleaner = "entry" =>
       /\ entry \in [name : Workloads, snapshot : Puts]
       /\ snapshots[entry.name] = entry.snapshot /\ entry.name \notin todo

(* stopMu is held exactly by the call that waits for the goroutine, the    *)
(* channel is closed from the first such call on, and stopped is set when  *)
(* that call has seen the goroutine end.                                   *)
StopInv ==
  /\ stopCleanup = (IF stopMu # None \/ stopped THEN 1 ELSE 0)
  /\ \A s \in Stoppers : stopper[s] = "wait" <=> stopMu = s
  /\ stopped => stopMu = None /\ cleaner = "done"
  /\ cleaner = "done" => stopCleanup = 1
  /\ \A s \in Stoppers : ttl = 0 => stopper[s] \in {"idle", "returned"}
  /\ \A s \in Stoppers : stopper[s] = "returned" => ttl = 0 \/ stopped

Inv == TypeOK /\ ScanInv /\ StopInv

------------------------------------------------------------------------------

(* The data actions and the steps of the clean-up and of Stop in turn      *)
(* keep every variable in its range.                                       *)
LEMMA TypeStep == Inv /\ [Next]_vars => TypeOK'
<1> SUFFICES ASSUME Inv, [Next]_vars PROVE TypeOK'
  OBVIOUS
<1> USE StoreAssumption
<1>1. CASE Advance
  BY <1>1 DEF Inv, TypeOK, Advance, dataVars, cleanVars, stopVars
<1>2. ASSUME NEW p \in Puts, PutCall(p) PROVE TypeOK'
  BY <1>2 DEF Inv, TypeOK, PutCall, cleanVars, stopVars
<1>3. ASSUME NEW p \in Puts, PutFails(p) PROVE TypeOK'
  BY <1>3 DEF Inv, TypeOK, PutFails, cleanVars, stopVars
<1>4. ASSUME NEW p \in Puts, PutWrite(p) PROVE TypeOK'
  BY <1>4 DEF Inv, TypeOK, PutWrite, cleanVars, stopVars
<1>5. ASSUME NEW p \in Puts, PutReturn(p) PROVE TypeOK'
  BY <1>5 DEF Inv, TypeOK, PutReturn, cleanVars, stopVars
<1>6. ASSUME NEW r \in Readers, GetLatest(r) PROVE TypeOK'
  BY <1>6 DEF Inv, TypeOK, GetLatest, cleanVars, stopVars
<1>7. ASSUME NEW w \in Removed, DeleteCall(w) PROVE TypeOK'
  BY <1>7 DEF Inv, TypeOK, DeleteCall, cleanVars, stopVars
<1>8. ASSUME NEW w \in Removed, Delete(w) PROVE TypeOK'
  BY <1>8 DEF Inv, TypeOK, Delete, cleanVars, stopVars
<1>9. CASE CleanerWakes
  BY <1>9 DEF Inv, TypeOK, CleanerWakes, dataVars, stopVars
<1>10. CASE CleanerLocks
  BY <1>10 DEF Inv, TypeOK, CleanerLocks, dataVars, stopVars
<1>11. ASSUME NEW w \in Workloads, CleanerReads(w) PROVE TypeOK'
  <2>1. snapshots[w] \in Puts
    BY <1>11 DEF Inv, TypeOK, ScanInv, CleanerReads
  <2> QED
    BY <1>11, <2>1 DEF Inv, TypeOK, CleanerReads, dataVars, stopVars
<1>12. CASE CleanerDeletes
  BY <1>12 DEF Inv, TypeOK, ScanInv, CleanerDeletes, stopVars
<1>13. CASE CleanerUnlocks
  <2>1. cutoff' \in 0..MaxTime
    BY <1>13 DEF CleanerUnlocks
  <2>2. mu' \in BOOLEAN /\ cleaner' = "select"
    BY <1>13, Zenon DEF CleanerUnlocks
  <2>3. UNCHANGED <<ttl, now, dataVars, todo, entry, stopVars>>
    BY <1>13 DEF CleanerUnlocks
  <2> QED
    BY <2>1, <2>2, <2>3 DEF Inv, TypeOK, dataVars, stopVars
<1>14. CASE CleanerEnds
  BY <1>14 DEF Inv, TypeOK, CleanerEnds, dataVars, stopVars
<1>15. ASSUME NEW s \in Stoppers, StopCall(s) PROVE TypeOK'
  BY <1>15 DEF Inv, TypeOK, StopCall, dataVars, cleanVars
<1>16. ASSUME NEW s \in Stoppers, StopLocks(s) PROVE TypeOK'
  BY <1>16 DEF Inv, TypeOK, StopLocks, dataVars, cleanVars
<1>17. ASSUME NEW s \in Stoppers, StopJoins(s) PROVE TypeOK'
  BY <1>17 DEF Inv, TypeOK, StopJoins, dataVars, cleanVars
<1>18. CASE UNCHANGED vars
  BY <1>18 DEF Inv, TypeOK, vars, dataVars, cleanVars, stopVars
<1> QED
  BY <1>1, <1>2, <1>3, <1>4, <1>5, <1>6, <1>7, <1>8, <1>9, <1>10, <1>11, <1>12,
     <1>13, <1>14, <1>15, <1>16, <1>17, <1>18 DEF Next, Callers, Cleaner, Stop

(* Put and Delete wait for mu, so only the clean-up itself changes the map *)
(* during its walk.                                                        *)
LEMMA ScanStep == Inv /\ [Next]_vars => ScanInv'
<1> SUFFICES ASSUME Inv, [Next]_vars PROVE ScanInv'
  OBVIOUS
<1> USE StoreAssumption
<1>1. CASE Advance
  BY <1>1 DEF Inv, TypeOK, ScanInv, Advance, dataVars, cleanVars, stopVars
<1>2. ASSUME NEW p \in Puts, PutCall(p) \/ PutFails(p) \/ PutReturn(p) PROVE ScanInv'
  BY <1>2 DEF Inv, ScanInv, PutCall, PutFails, PutReturn, cleanVars, stopVars
<1>3. ASSUME NEW p \in Puts, PutWrite(p) PROVE ScanInv'
  BY <1>3 DEF Inv, TypeOK, ScanInv, PutWrite, cleanVars, stopVars
<1>4. ASSUME NEW r \in Readers, GetLatest(r) PROVE ScanInv'
  BY <1>4 DEF Inv, ScanInv, GetLatest, cleanVars, stopVars
<1>5. ASSUME NEW w \in Removed, DeleteCall(w) PROVE ScanInv'
  BY <1>5 DEF Inv, ScanInv, DeleteCall, cleanVars, stopVars
<1>6. ASSUME NEW w \in Removed, Delete(w) PROVE ScanInv'
  BY <1>6 DEF Inv, TypeOK, ScanInv, Delete, cleanVars, stopVars
<1>7. CASE CleanerWakes
  BY <1>7 DEF Inv, ScanInv, CleanerWakes, dataVars, stopVars
<1>8. CASE CleanerLocks
  BY <1>8 DEF Inv, TypeOK, ScanInv, CleanerLocks, dataVars, stopVars
<1>9. ASSUME NEW w \in Workloads, CleanerReads(w) PROVE ScanInv'
  <2>1. snapshots[w] \in Puts
    BY <1>9 DEF Inv, TypeOK, ScanInv, CleanerReads
  <2> QED
    BY <1>9, <2>1 DEF Inv, ScanInv, CleanerReads, dataVars, stopVars
<1>10. CASE CleanerDeletes
  <2>1. \A w \in todo : w # entry.name => snapshots'[w] = snapshots[w]
    BY <1>10 DEF Inv, TypeOK, ScanInv, CleanerDeletes
  <2>2. entry.name \notin todo
    BY <1>10 DEF Inv, ScanInv, CleanerDeletes
  <2> QED
    BY <1>10, <2>1, <2>2 DEF Inv, TypeOK, ScanInv, CleanerDeletes, stopVars
<1>11. CASE CleanerUnlocks \/ CleanerEnds
  <2>1. UNCHANGED <<ttl, now, snapshots, todo>> /\ todo = {}
    BY <1>11 DEF Inv, ScanInv, CleanerUnlocks, CleanerEnds, dataVars, stopVars
  <2>2. cleaner' \in {"select", "done"} /\ cleaner \in {"scan", "select"}
    BY <1>11 DEF CleanerUnlocks, CleanerEnds
  <2>3. ~mu'
    BY <1>11 DEF Inv, ScanInv, CleanerUnlocks, CleanerEnds
  <2>4. cutoff' <= now
    BY <1>11 DEF Inv, TypeOK, ScanInv, CleanerUnlocks, CleanerEnds
  <2> QED
    BY <2>1, <2>2, <2>3, <2>4 DEF Inv, ScanInv
<1>12. CASE Stop \/ UNCHANGED vars
  BY <1>12 DEF Inv, ScanInv, Stop, StopCall, StopLocks, StopJoins, vars, dataVars, cleanVars, stopVars
<1> QED
  BY <1>1, <1>2, <1>3, <1>4, <1>5, <1>6, <1>7, <1>8, <1>9, <1>10, <1>11, <1>12
  DEF Next, Callers, Cleaner

(* The calls of Stop are serialised by stopMu, and the goroutine ends only *)
(* because the channel was closed.                                         *)
LEMMA StopStep == Inv /\ [Next]_vars => StopInv'
<1> SUFFICES ASSUME Inv, [Next]_vars PROVE StopInv'
  OBVIOUS
<1> USE StoreAssumption
<1>1. CASE Advance \/ Callers \/ UNCHANGED vars
  <2>1. UNCHANGED <<ttl, cleaner, stopCleanup, stopper, stopMu, stopped>>
    BY <1>1 DEF Advance, Callers, PutCall, PutFails, PutWrite, PutReturn,
       GetLatest, DeleteCall, Delete, vars, cleanVars, stopVars
  <2> QED
    BY <2>1 DEF Inv, StopInv
<1>2. CASE Cleaner
  <2>1. UNCHANGED <<ttl, stopCleanup, stopper, stopMu, stopped>>
    BY <1>2 DEF Cleaner, CleanerWakes, CleanerLocks, CleanerReads, CleanerDeletes,
       CleanerUnlocks, CleanerEnds, stopVars
  <2>2. cleaner # "done" /\ (cleaner' = "done" => stopCleanup > 0)
    BY <1>2 DEF Cleaner, CleanerWakes, CleanerLocks, CleanerReads, CleanerDeletes,
       CleanerUnlocks, CleanerEnds
  <2> QED
    BY <2>1, <2>2 DEF Inv, StopInv
<1>3. ASSUME NEW s \in Stoppers, StopCall(s) PROVE StopInv'
  BY <1>3 DEF Inv, TypeOK, StopInv, StopCall, cleanVars
<1>4. ASSUME NEW s \in Stoppers, StopLocks(s) PROVE StopInv'
  <2>1. CASE stopped
    BY <1>4, <2>1 DEF Inv, TypeOK, StopInv, StopLocks, cleanVars
  <2>2. CASE ~stopped
    BY <1>4, <2>2 DEF Inv, TypeOK, StopInv, StopLocks, cleanVars
  <2> QED
    BY <2>1, <2>2
<1>5. ASSUME NEW s \in Stoppers, StopJoins(s) PROVE StopInv'
  BY <1>5 DEF Inv, TypeOK, StopInv, StopJoins, cleanVars
<1> QED
  BY <1>1, <1>2, <1>3, <1>4, <1>5 DEF Next, Stop

(* Both constructors establish the invariant.                              *)
LEMMA InvInit == Init => Inv
<1> SUFFICES ASSUME Init PROVE Inv
  OBVIOUS
<1>1. TypeOK
  <2>1. now \in 0..MaxTime /\ cutoff \in 0..MaxTime
    BY StoreAssumption DEF Init
  <2>2. generatedAt \in [Puts -> 0..MaxTime]
    BY StoreAssumption DEF Init
  <2>3. mu \in BOOLEAN /\ stopped \in BOOLEAN
    BY Zenon DEF Init
  <2>4. cleaner \in {"none", "select"}
    BY DEF Init
  <2>5. /\ ttl \in TTLs /\ snapshots = [w \in Workloads |-> None]
        /\ pc = [p \in Puts |-> "new"] /\ deleting = {} /\ got = [r \in Readers |-> None]
        /\ todo = {} /\ entry = None /\ stopCleanup = 0
        /\ stopper = [s \in Stoppers |-> "idle"] /\ stopMu = None
    BY DEF Init
  <2> QED
    BY <2>1, <2>2, <2>3, <2>4, <2>5 DEF TypeOK
<1>2. ScanInv
  BY StoreAssumption DEF Init, ScanInv
<1>3. StopInv
  BY StoreAssumption DEF Init, StopInv
<1> QED
  BY <1>1, <1>2, <1>3 DEF Inv

(* The invariant holds in every reachable state.                           *)
LEMMA MemoryInv == Spec => []Inv
<1>1. Inv /\ [Next]_vars => Inv'
  BY TypeStep, ScanStep, StopStep DEF Inv
<1> QED
  BY InvInit, <1>1, PTL DEF Spec

(* The map, the calls, the goroutine and the locks stay well formed; an    *)
(* entry that cleanup visits is always a snapshot.                         *)
THEOREM MemoryTypeOK == Spec => []TypeOK
BY MemoryInv, PTL DEF Inv

(* However many calls of Stop race, the channel is closed once, and when   *)
(* one of them has returned the goroutine has ended.                       *)
THEOREM MemoryStopSafe == Spec => []StopSafe
<1>1. Inv => StopSafe
  BY DEF Inv, TypeOK, ScanInv, StopInv, StopSafe
<1> QED
  BY MemoryInv, <1>1, PTL

------------------------------------------------------------------------------
(* What a step of one call does to the interface's view of the Puts.       *)
LEMMA ViewStep ==
  ASSUME NEW p \in Puts, NEW after,
         NEW view, view = (IF after \in {"called", "written"} THEN "pending" ELSE after),
         pc \in [Puts -> {"new", "called", "written", "ok", "failed"}],
         pc' = [pc EXCEPT ![p] = after]
  PROVE  /\ PutView' = [PutView EXCEPT ![p] = view]
         /\ after \in {"written", "ok"} => AppliedView' = AppliedView \cup {p}
         /\ after \notin {"written", "ok"} => AppliedView' = AppliedView \ {p}
<1>1. pc'[p] = after /\ \A q \in Puts \ {p} : pc'[q] = pc[q]
  OBVIOUS
<1>2. /\ PutView' = [q \in Puts |-> IF pc'[q] \in {"called", "written"}
                                   THEN "pending" ELSE pc'[q]]
      /\ PutView = [q \in Puts |-> IF pc[q] \in {"called", "written"}
                                  THEN "pending" ELSE pc[q]]
  BY DEF PutView
<1>3. /\ AppliedView' = {q \in Puts : pc'[q] \in {"written", "ok"}}
      /\ AppliedView = {q \in Puts : pc[q] \in {"written", "ok"}}
  BY DEF AppliedView
<1>4. PutView' = [PutView EXCEPT ![p] = view]
  BY <1>1, <1>2
<1> QED
  BY <1>1, <1>3, <1>4

(* A step of the calls of Put is a step of the interface.                  *)
LEMMA PutImplements ==
  ASSUME Inv, NEW p \in Puts, PutCall(p) \/ PutFails(p) \/ PutWrite(p) \/ PutReturn(p)
  PROVE  Interface!Call(p) \/ Interface!Apply(p) \/ Interface!Return(p)
<1> DEFINE Becomes(after) == PutView' = [PutView EXCEPT ![p] = after]
<1>0. /\ pc \in [Puts -> {"new", "called", "written", "ok", "failed"}]
      /\ now \in Nat
  BY StoreAssumption DEF Inv, TypeOK
<1>a. /\ PutView[p] = IF pc[p] \in {"called", "written"} THEN "pending" ELSE pc[p]
      /\ p \in AppliedView <=> pc[p] \in {"written", "ok"}
  BY DEF PutView, AppliedView
<1>1. CASE PutCall(p)
  <2>1. PutView[p] = "new" /\ p \notin AppliedView
    BY <1>1, <1>a DEF PutCall
  <2>2. Becomes("pending") /\ AppliedView' = AppliedView \ {p}
    <3>1. pc' = [pc EXCEPT ![p] = "called"]
      BY <1>1 DEF PutCall
    <3>2. "pending" = IF "called" \in {"called", "written"} THEN "pending" ELSE "called"
      OBVIOUS
    <3>3. "called" \notin {"written", "ok"}
      OBVIOUS
    <3> QED
      BY <1>0, <3>1, <3>2, <3>3, ViewStep, ZenonT(30)
  <2>3. \E at \in 0..now : generatedAt' = [generatedAt EXCEPT ![p] = at]
    <3>1. now \in 0..now
      BY <1>0
    <3> QED
      BY <1>1, <3>1, Zenon DEF PutCall
  <2> QED
    BY <1>1, <2>1, <2>2, <2>3, Zenon DEF PutCall, Interface!Call
<1>2. CASE PutFails(p)
  <2>1. PutView[p] = "pending" /\ p \notin AppliedView
    BY <1>2, <1>a DEF PutFails
  <2>2. Becomes("failed") /\ AppliedView' = AppliedView \ {p}
    <3>1. pc' = [pc EXCEPT ![p] = "failed"]
      BY <1>2 DEF PutFails
    <3>2. "failed" = IF "failed" \in {"called", "written"} THEN "pending" ELSE "failed"
      OBVIOUS
    <3> QED
      BY <1>0, <3>1, <3>2, ViewStep, Zenon
  <2> QED
    BY <1>2, <2>1, <2>2 DEF PutFails, Interface!Return
<1>3. CASE PutWrite(p)
  <2>1. PutView[p] = "pending" /\ p \notin AppliedView
    BY <1>3, <1>a DEF PutWrite
  <2>2. Becomes("pending") /\ AppliedView' = AppliedView \cup {p}
    <3>1. pc' = [pc EXCEPT ![p] = "written"]
      BY <1>3 DEF PutWrite
    <3>2. "pending" = IF "written" \in {"called", "written"} THEN "pending" ELSE "written"
      OBVIOUS
    <3> QED
      BY <1>0, <3>1, <3>2, ViewStep, Zenon
  <2>3. PutView' = PutView
    <3> HIDE DEF Becomes
    <3>1. PutView = [q \in Puts |-> PutView[q]]
      BY DEF PutView
    <3> QED
      BY <2>1, <2>2, <3>1 DEF Becomes
  <2> QED
    BY <1>3, <2>1, <2>2, <2>3 DEF PutWrite, Interface!Apply
<1>4. CASE PutReturn(p)
  <2>1. PutView[p] = "pending" /\ p \in AppliedView
    BY <1>4, <1>a DEF PutReturn
  <2>2. Becomes("ok") /\ AppliedView' = AppliedView \cup {p}
    <3>1. pc' = [pc EXCEPT ![p] = "ok"]
      BY <1>4 DEF PutReturn
    <3>2. "ok" = IF "ok" \in {"called", "written"} THEN "pending" ELSE "ok"
      OBVIOUS
    <3> QED
      BY <1>0, <3>1, <3>2, ViewStep, Zenon
  <2> QED
    BY <1>4, <2>1, <2>2 DEF PutReturn, Interface!Return
<1> QED
  BY <1>1, <1>2, <1>3, <1>4

(* The other steps do not touch the interface's view of the Puts.          *)
LEMMA ViewFrame == UNCHANGED pc => UNCHANGED <<PutView, AppliedView>>
BY DEF PutView, AppliedView

(* A step of the clean-up leaves the interface alone, or drops a snapshot  *)
(* that is past its ttl: cleanup read the clock earlier, and the snapshot  *)
(* it judged is still the one in the map.                                  *)
LEMMA CleanerImplements ==
  ASSUME Inv, Cleaner
  PROVE  (\E w \in Workloads : Interface!Expire(w)) \/ UNCHANGED Interface!vars
<1>1. CASE CleanerDeletes
  <2> DEFINE w == entry.name
             at == generatedAt[snapshots[w]]
  <2>1. /\ w \in Workloads /\ snapshots[w] = entry.snapshot /\ snapshots[w] \in Puts
        /\ cutoff \in Int /\ now \in Int /\ at \in Int /\ ttl \in Int
        /\ cutoff <= now /\ ttl # 0
    BY <1>1, StoreAssumption DEF Inv, TypeOK, ScanInv, CleanerDeletes
  <2>2. CASE cutoff - at > ttl
    <3>1. now - at >= ttl
      BY <2>1, <2>2
    <3>2. generatedAt[entry.snapshot] = at
      BY <2>1
    <3>3. snapshots' = [snapshots EXCEPT ![w] = None]
      <4>1. IF cutoff - generatedAt[entry.snapshot] > ttl THEN TRUE ELSE FALSE
        BY <2>2, <3>2
      <4>2. (IF cutoff - generatedAt[entry.snapshot] > ttl THEN None
             ELSE snapshots[entry.name]) = None
        BY <4>1
      <4> QED
        BY <1>1, <4>2, Zenon DEF CleanerDeletes
    <3>4. snapshots[w] # None
      BY <2>1, StoreAssumption
    <3>5. UNCHANGED <<ttl, now, generatedAt, pc, deleting, got>>
      BY <1>1 DEF CleanerDeletes
    <3>6. Interface!Expire(w)
      BY <2>1, <3>1, <3>3, <3>4, <3>5, ViewFrame DEF Interface!Expire
    <3> QED
      BY <2>1, <3>6
  <2>3. CASE ~(cutoff - at > ttl)
    <3>1. snapshots' = snapshots
      BY <1>1, <2>1, <2>3 DEF CleanerDeletes, Inv, TypeOK
    <3> QED
      BY <1>1, <3>1, ViewFrame DEF CleanerDeletes, Interface!vars
  <2> QED
    BY <2>2, <2>3
<1>2. CASE Cleaner /\ ~CleanerDeletes
  BY <1>2, ViewFrame DEF Cleaner, CleanerWakes, CleanerLocks, CleanerReads, CleanerUnlocks,
     CleanerEnds, Interface!vars, dataVars, stopVars
<1> QED
  BY <1>1, <1>2

(* Every step is a step of the interface or leaves it alone.               *)
LEMMA StepImplements == Inv /\ [Next]_vars => [Interface!Next]_Interface!vars
<1> SUFFICES ASSUME Inv, [Next]_vars PROVE [Interface!Next]_Interface!vars
  OBVIOUS
<1>1. CASE Advance
  <2>1. now' \in Nat /\ now < now'
    BY <1>1, StoreAssumption DEF Advance, Inv, TypeOK
  <2> QED
    BY <1>1, <2>1, ViewFrame DEF Advance, Interface!Next, Interface!Advance, dataVars
<1>2. ASSUME NEW p \in Puts, PutCall(p) \/ PutFails(p) \/ PutWrite(p) \/ PutReturn(p)
      PROVE  Interface!Next
  BY <1>2, PutImplements DEF Interface!Next
<1>3. ASSUME NEW r \in Readers, GetLatest(r) PROVE Interface!Next
  <2>1. Interface!GetLatest(r)
    BY <1>3, ViewFrame, Zenon DEF GetLatest, Interface!GetLatest
  <2> QED
    BY <2>1, Zenon DEF Interface!Next
<1>4. ASSUME NEW w \in Removed, DeleteCall(w) \/ Delete(w) PROVE Interface!Next
  BY <1>4, StoreAssumption, ViewFrame
  DEF DeleteCall, Delete, Interface!Next, Interface!CallDelete, Interface!Delete
<1>5. CASE Cleaner
  BY <1>5, CleanerImplements DEF Interface!Next
<1>6. CASE Stop \/ UNCHANGED vars
  BY <1>6, ViewFrame DEF Stop, StopCall, StopLocks, StopJoins, vars, dataVars, Interface!vars
<1> QED
  BY <1>1, <1>2, <1>3, <1>4, <1>5, <1>6 DEF Next, Callers

(* The in-memory store implements the interface of the snapshot stores     *)
(* for every number of workloads, snapshots, readers and stoppers.         *)
THEOREM MemoryImplementsStore == Spec => ImplementsStore
<1>1. Init => Interface!Init
  BY StoreAssumption DEF Init, Interface!Init, PutView, AppliedView
<1> QED
  BY MemoryInv, <1>1, StepImplements, PTL DEF Spec, ImplementsStore, Interface!Spec
==============================================================================
