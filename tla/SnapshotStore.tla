---------------------------- MODULE SnapshotStore ----------------------------
(***************************************************************************)
(* What the interface Store of pkg/storage/store.go promises its users,    *)
(* whatever keeps the snapshots: Put and GetLatest, the Delete that only   *)
(* the in-memory store offers, and the expiry of old snapshots.            *)
(* MemoryStore and RedisStore are shown to implement it.                   *)
(*                                                                         *)
(* A snapshot is named after the call of Put that brings it.               *)
(***************************************************************************)
EXTENDS Integers

CONSTANTS
  Workloads,      \* workload names
  Puts,           \* calls of Put, each with a snapshot of its own
  WorkloadOf,     \* the Workload field of a snapshot
  Readers,        \* callers of GetLatest
  None,           \* no snapshot
  Late            \* may a Put take effect, even again, after it has returned?

VARIABLES
  ttl,            \* how long a snapshot is kept at least, 0 for ever
  now,            \* the clock
  generatedAt,    \* the GeneratedAt field of a snapshot
  put,            \* what a caller of Put knows: new, pending, ok or failed
  applied,        \* the Puts that have taken effect
  latest,         \* the snapshot kept for a workload
  deleting,       \* workloads with a call of Delete under way
  got             \* what a reader was last given

vars == <<ttl, now, generatedAt, put, applied, latest, deleting, got>>

Init ==
  /\ ttl \in Nat /\ now = 0
  /\ generatedAt = [p \in Puts |-> 0]
  /\ put = [p \in Puts |-> "new"]
  /\ applied = {}
  /\ latest = [w \in Workloads |-> None]
  /\ deleting = {}
  /\ got = [r \in Readers |-> None]

------------------------------------------------------------------------------

Advance ==
  /\ now' \in Nat /\ now < now'
  /\ UNCHANGED <<ttl, generatedAt, put, applied, latest, deleting, got>>

(* Put is called with a snapshot that was generated some time ago.         *)
Call(p) ==
  /\ put[p] = "new"
  /\ put' = [put EXCEPT ![p] = "pending"]
  /\ \E at \in 0..now : generatedAt' = [generatedAt EXCEPT ![p] = at]
  /\ UNCHANGED <<ttl, now, applied, latest, deleting, got>>

(* The snapshot replaces the one kept for its workload.                    *)
Apply(p) ==
  /\ \/ put[p] = "pending" /\ p \notin applied
     \/ Late /\ put[p] # "new"
  /\ latest' = [latest EXCEPT ![WorkloadOf[p]] = p]
  /\ applied' = applied \cup {p}
  /\ UNCHANGED <<ttl, now, generatedAt, put, deleting, got>>

(* Put returns nil only if it has taken effect.  An error means that it    *)
(* has not, or, when calls may be late, nothing at all.                    *)
Return(p) ==
  /\ put[p] = "pending"
  /\ \/ p \in applied /\ put' = [put EXCEPT ![p] = "ok"]
     \/ (p \in applied => Late) /\ put' = [put EXCEPT ![p] = "failed"]
  /\ UNCHANGED <<ttl, now, generatedAt, applied, latest, deleting, got>>

(* GetLatest returns the snapshot that is kept, or that there is none.     *)
GetLatest(r) ==
  /\ \E w \in Workloads : got' = [got EXCEPT ![r] = latest[w]]
  /\ UNCHANGED <<ttl, now, generatedAt, put, applied, latest, deleting>>

(* Only a snapshot that has reached the age ttl is dropped by itself.      *)
Expire(w) ==
  /\ ttl # 0 /\ latest[w] # None
  /\ now - generatedAt[latest[w]] >= ttl
  /\ latest' = [latest EXCEPT ![w] = None]
  /\ UNCHANGED <<ttl, now, generatedAt, put, applied, deleting, got>>

CallDelete(w) ==
  /\ w \notin deleting
  /\ deleting' = deleting \cup {w}
  /\ UNCHANGED <<ttl, now, generatedAt, put, applied, latest, got>>

Delete(w) ==
  /\ w \in deleting
  /\ latest' = [latest EXCEPT ![w] = None]
  /\ deleting' = deleting \ {w}
  /\ UNCHANGED <<ttl, now, generatedAt, put, applied, got>>

Next ==
  \/ Advance
  \/ \E p \in Puts : Call(p) \/ Apply(p) \/ Return(p)
  \/ \E r \in Readers : GetLatest(r)
  \/ \E w \in Workloads : Expire(w) \/ CallDelete(w) \/ Delete(w)

Spec == Init /\ [][Next]_vars
==============================================================================
