----------------------------- MODULE MemoryStore -----------------------------
(***************************************************************************)
(* The in-memory store of pkg/storage/memory.go with its clean-up          *)
(* goroutine: Put, GetLatest and Delete under the lock mu, the periodic    *)
(* clean-up that holds mu while it walks over the map, and concurrent      *)
(* calls of Stop.                                                          *)
(*                                                                         *)
(* A critical section of mu that touches one entry is one action.  The     *)
(* walk of cleanup is one action per entry, so mu is a variable.           *)
(***************************************************************************)
EXTENDS Integers, FiniteSets

CONSTANTS
  Workloads, Puts, WorkloadOf, Readers, None,   \* as in SnapshotStore
  Removed,        \* the workloads that Delete is called for
  Stoppers,       \* callers of Stop
  TTLs,           \* the ttl given to the constructor, 0 for NewMemoryStore
  MaxTime         \* bound on the clock

VARIABLES
  ttl, now, generatedAt,
  snapshots,      \* s.snapshots
  pc,             \* where a call of Put is
  deleting,       \* workloads with a call of Delete under way
  got,            \* what a reader was last given
  mu,             \* s.mu is held by cleanup
  cleaner,        \* where runCleanup is
  cutoff,         \* now of cleanup
  todo,           \* entries cleanup has still to visit
  entry,          \* the entry cleanup is at
  stopCleanup,    \* how often the channel stopCleanup has been closed
  stopper,        \* where a call of Stop is
  stopMu,         \* the holder of s.stopMu
  stopped         \* s.stopped

dataVars == <<generatedAt, snapshots, pc, deleting, got>>
cleanVars == <<mu, cleaner, cutoff, todo, entry>>
stopVars == <<stopCleanup, stopper, stopMu, stopped>>
vars == <<ttl, now, dataVars, cleanVars, stopVars>>

ASSUME StoreAssumption ==
  /\ WorkloadOf \in [Puts -> Workloads]
  /\ None \notin Puts \cup Stoppers /\ Removed \subseteq Workloads
  /\ TTLs \subseteq Nat /\ MaxTime \in Nat

------------------------------------------------------------------------------

(* NewMemoryStore and NewMemoryStoreWithTTL.                               *)
Init ==
  /\ ttl \in TTLs /\ now = 0
  /\ generatedAt = [p \in Puts |-> 0]
  /\ snapshots = [w \in Workloads |-> None]
  /\ pc = [p \in Puts |-> "new"]
  /\ deleting = {} /\ got = [r \in Readers |-> None]
  /\ mu = FALSE /\ cleaner = IF ttl = 0 THEN "none" ELSE "select"
  /\ cutoff = 0 /\ todo = {} /\ entry = None
  /\ stopCleanup = 0 /\ stopper = [s \in Stoppers |-> "idle"]
  /\ stopMu = None /\ stopped = FALSE

Advance ==
  /\ now < MaxTime
  /\ now' = now + 1
  /\ UNCHANGED <<ttl, dataVars, cleanVars, stopVars>>

------------------------------------------------------------------------------
(* Put, GetLatest and Delete.                                              *)

(* A tick stamps its snapshot and calls Put.                               *)
PutCall(p) ==
  /\ pc[p] = "new"
  /\ pc' = [pc EXCEPT ![p] = "called"]
  /\ generatedAt' = [generatedAt EXCEPT ![p] = now]
  /\ UNCHANGED <<ttl, now, snapshots, deleting, got, cleanVars, stopVars>>

(* The context, tested before the lock, is cancelled.                      *)
PutFails(p) ==
  /\ pc[p] = "called"
  /\ pc' = [pc EXCEPT ![p] = "failed"]
  /\ UNCHANGED <<ttl, now, generatedAt, snapshots, deleting, got, cleanVars, stopVars>>

(* Mutant of PutWrite: the map is written without the lock.                *)
PutWriteUnlocked(p) ==
  /\ pc[p] = "called"
  /\ snapshots' = [snapshots EXCEPT ![WorkloadOf[p]] = p]
  /\ pc' = [pc EXCEPT ![p] = "written"]
  /\ UNCHANGED <<ttl, now, generatedAt, deleting, got, cleanVars, stopVars>>

PutWrite(p) ==
  /\ pc[p] = "called" /\ ~mu
  /\ snapshots' = [snapshots EXCEPT ![WorkloadOf[p]] = p]
  /\ pc' = [pc EXCEPT ![p] = "written"]
  /\ UNCHANGED <<ttl, now, generatedAt, deleting, got, cleanVars, stopVars>>

PutReturn(p) ==
  /\ pc[p] = "written"
  /\ pc' = [pc EXCEPT ![p] = "ok"]
  /\ UNCHANGED <<ttl, now, generatedAt, snapshots, deleting, got, cleanVars, stopVars>>

GetLatest(r) ==
  /\ ~mu
  /\ \E w \in Workloads : got' = [got EXCEPT ![r] = snapshots[w]]
  /\ UNCHANGED <<ttl, now, generatedAt, snapshots, pc, deleting, cleanVars, stopVars>>

DeleteCall(w) ==
  /\ w \notin deleting
  /\ deleting' = deleting \cup {w}
  /\ UNCHANGED <<ttl, now, generatedAt, snapshots, pc, got, cleanVars, stopVars>>

Delete(w) ==
  /\ w \in deleting /\ ~mu
  /\ snapshots' = [snapshots EXCEPT ![w] = None]
  /\ deleting' = deleting \ {w}
  /\ UNCHANGED <<ttl, now, generatedAt, pc, got, cleanVars, stopVars>>

------------------------------------------------------------------------------
(* runCleanup and cleanup.                                                 *)

(* The ticker, which runs as long as the goroutine does, has fired.        *)
CleanerWakes ==
  /\ cleaner = "select"
  /\ cleaner' = "lock"
  /\ UNCHANGED <<ttl, now, dataVars, mu, cutoff, todo, entry, stopVars>>

(* Lock mu and read the clock, once.                                       *)
CleanerLocks ==
  /\ cleaner = "lock" /\ ~mu
  /\ cleaner' = "scan" /\ mu' = TRUE
  /\ cutoff' = now /\ todo' = {w \in Workloads : snapshots[w] # None}
  /\ UNCHANGED <<ttl, now, dataVars, entry, stopVars>>

(* The next entry of the range over the map: a name and its snapshot.      *)
CleanerReads(w) ==
  /\ cleaner = "scan" /\ w \in todo
  /\ cleaner' = "entry" /\ entry' = [name |-> w, snapshot |-> snapshots[w]]
  /\ todo' = todo \ {w}
  /\ UNCHANGED <<ttl, now, dataVars, mu, cutoff, stopVars>>

(* The entry is deleted if its snapshot is too old.                        *)
CleanerDeletes ==
  /\ cleaner = "entry"
  /\ cleaner' = "scan" /\ entry' = None
  /\ snapshots' = [snapshots EXCEPT ![entry.name] =
       IF cutoff - generatedAt[entry.snapshot] > ttl THEN None ELSE @]
  /\ UNCHANGED <<ttl, now, generatedAt, pc, deleting, got, mu, cutoff, todo, stopVars>>

(* Mutant of CleanerUnlocks: the goroutine ends after one clean-up.        *)
CleanerUnlocksAndEnds ==
  /\ cleaner = "scan" /\ todo = {}
  /\ cleaner' = "done" /\ mu' = FALSE /\ cutoff' = 0
  /\ UNCHANGED <<ttl, now, dataVars, todo, entry, stopVars>>

CleanerUnlocks ==
  /\ cleaner = "scan" /\ todo = {}
  /\ cleaner' = "select" /\ mu' = FALSE /\ cutoff' = 0
  /\ UNCHANGED <<ttl, now, dataVars, todo, entry, stopVars>>

(* The goroutine sees the closed channel and closes cleanupDone.           *)
CleanerEnds ==
  /\ cleaner = "select" /\ stopCleanup > 0
  /\ cleaner' = "done"
  /\ UNCHANGED <<ttl, now, dataVars, mu, cutoff, todo, entry, stopVars>>

------------------------------------------------------------------------------
(* Stop.                                                                   *)

(* Without a clean-up goroutine Stop does nothing.                         *)
StopCall(s) ==
  /\ stopper[s] = "idle"
  /\ stopper' = [stopper EXCEPT ![s] = IF ttl = 0 THEN "returned" ELSE "lock"]
  /\ UNCHANGED <<ttl, now, dataVars, cleanVars, stopCleanup, stopMu, stopped>>

(* Lock stopMu; the second call finds stopped set.  Closing a closed       *)
(* channel panics, which stopCleanup = 2 stands for.                       *)
StopLocks(s) ==
  /\ stopper[s] = "lock" /\ stopMu = None
  /\ IF stopped
     THEN /\ stopper' = [stopper EXCEPT ![s] = "returned"]
          /\ UNCHANGED <<stopCleanup, stopMu>>
     ELSE /\ stopper' = [stopper EXCEPT ![s] = "wait"]
          /\ stopMu' = s /\ stopCleanup' = stopCleanup + 1
  /\ UNCHANGED <<ttl, now, dataVars, cleanVars, stopped>>

(* Mutant of StopJoins: stopped is not set.                                *)
StopJoinsForgets(s) ==
  /\ stopper[s] = "wait" /\ cleaner = "done"
  /\ stopper' = [stopper EXCEPT ![s] = "returned"]
  /\ stopMu' = None
  /\ UNCHANGED <<ttl, now, dataVars, cleanVars, stopCleanup, stopped>>

(* Mutant of StopJoins: stopMu is not unlocked.                            *)
StopJoinsLocked(s) ==
  /\ stopper[s] = "wait" /\ cleaner = "done"
  /\ stopper' = [stopper EXCEPT ![s] = "returned"]
  /\ stopped' = TRUE
  /\ UNCHANGED <<ttl, now, dataVars, cleanVars, stopCleanup, stopMu>>

(* cleanupDone is closed: stop the ticker, set stopped, unlock.            *)
StopJoins(s) ==
  /\ stopper[s] = "wait" /\ cleaner = "done"
  /\ stopper' = [stopper EXCEPT ![s] = "returned"]
  /\ stopMu' = None /\ stopped' = TRUE
  /\ UNCHANGED <<ttl, now, dataVars, cleanVars, stopCleanup>>

------------------------------------------------------------------------------

Callers ==
  \/ \E p \in Puts : PutCall(p) \/ PutFails(p) \/ PutWrite(p) \/ PutReturn(p)
  \/ \E r \in Readers : GetLatest(r)
  \/ \E w \in Removed : DeleteCall(w) \/ Delete(w)

Cleaner ==
  \/ CleanerWakes \/ CleanerLocks
  \/ (\E w \in Workloads : CleanerReads(w)) \/ CleanerDeletes
  \/ CleanerUnlocks \/ CleanerEnds

Stop == \E s \in Stoppers : StopCall(s) \/ StopLocks(s) \/ StopJoins(s)

Next == Advance \/ Callers \/ Cleaner \/ Stop

Spec == Init /\ [][Next]_vars

(* Goroutines are scheduled, the ticker ticks, mutexes do not starve       *)
(* anyone, and a select whose stop case stays ready takes it at last.      *)
Fairness ==
  /\ WF_vars(Cleaner) /\ SF_vars(CleanerEnds)
  /\ \A s \in Stoppers : WF_vars(StopLocks(s)) /\ WF_vars(StopJoins(s))

FairSpec == Spec /\ Fairness

------------------------------------------------------------------------------

TypeOK ==
  /\ ttl \in TTLs /\ now \in 0..MaxTime
  /\ generatedAt \in [Puts -> 0..MaxTime]
  /\ snapshots \in [Workloads -> Puts \cup {None}]
  /\ pc \in [Puts -> {"new", "called", "written", "ok", "failed"}]
  /\ deleting \subseteq Removed
  /\ got \in [Readers -> Puts \cup {None}]
  /\ mu \in BOOLEAN /\ cleaner \in {"none", "select", "lock", "scan", "entry", "done"}
  /\ cutoff \in 0..MaxTime /\ todo \subseteq Workloads
  /\ entry \in [name : Workloads, snapshot : Puts] \cup {None}
  /\ stopCleanup \in Nat
  /\ stopper \in [Stoppers -> {"idle", "lock", "wait", "returned"}]
  /\ stopMu \in Stoppers \cup {None} /\ stopped \in BOOLEAN

(* The interface, as this store implements it: a Put takes effect exactly  *)
(* once, between its call and its return.                                  *)
PutView ==
  [p \in Puts |-> IF pc[p] \in {"called", "written"} THEN "pending" ELSE pc[p]]

AppliedView == {p \in Puts : pc[p] \in {"written", "ok"}}

Interface ==
  INSTANCE SnapshotStore WITH
    Late <- FALSE, latest <- snapshots, put <- PutView, applied <- AppliedView

(* The in-memory store implements the interface: nothing but a Put, a      *)
(* Delete that was called, or a clean-up of a snapshot past its ttl        *)
(* changes what GetLatest returns, however the clean-up, the ticks and the *)
(* readers interleave.                                                     *)
ImplementsStore == Interface!Spec

(* Stop "blocks until cleanup is complete" and "Calling Stop multiple      *)
(* times ... is safe" (memory.go:68-70): once some call has returned the   *)
(* goroutine is gone and the lock is free, and no call closes the channel  *)
(* a second time.                                                          *)
StopSafe ==
  /\ stopCleanup <= 1
  /\ (\E s \in Stoppers : stopper[s] = "returned") =>
       cleaner \in {"none", "done"} /\ ~mu

(* Every call of Stop returns, also when a clean-up is under way or        *)
(* another call is waiting for it.                                         *)
StopsReturn ==
  \A s \in Stoppers : stopper[s] = "lock" ~> stopper[s] = "returned"

Stale(w) ==
  /\ ttl # 0 /\ snapshots[w] # None
  /\ now - generatedAt[snapshots[w]] > ttl

(* "a background goroutine automatically removes stale snapshots"          *)
(* (memory.go:14): until Stop is called, no workload keeps a stale one.    *)
StaleRemoved ==
  \A w \in Workloads : Stale(w) ~> ~Stale(w) \/ stopCleanup > 0
==============================================================================
