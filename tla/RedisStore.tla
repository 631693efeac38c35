----------------------------- MODULE RedisStore ------------------------------
(***************************************************************************)
(* The Redis store of pkg/storage/redis.go: Put and GetLatest over a       *)
(* client that sends a command, loses its connection or its answer, sends  *)
(* the command again and gives up, and Close, which other goroutines do    *)
(* not wait for.  The server executes what it has received, if late.       *)
(*                                                                         *)
(* The module has no next-state relation of its own: who calls Put,        *)
(* GetLatest and Close, and until when, is up to module Process.           *)
(***************************************************************************)
EXTENDS Integers, FiniteSets

CONSTANTS
  Workloads, Puts, WorkloadOf, None,   \* as in SnapshotStore
  Readers,        \* handlers of the HTTP server
  TTL,            \* r.ttl
  MaxTries,       \* how often a command is sent, one more than MaxRetries
  MaxTime         \* bound on the clock

VARIABLES
  now, generatedAt,
  server,         \* the snapshot and the expiry time of the key of a workload
  client,         \* r.client: open, closed, or nil
  pc,             \* where a tick is that computes a snapshot and puts it
  tries,          \* how often the command of a Put under way has been sent
  abandoned,      \* commands on their way to the server that nobody waits for
  executed,       \* the Puts whose command the server has executed
  reader          \* where a handler is that calls GetLatest

storeVars == <<now, generatedAt, server, client, pc, tries, abandoned, executed, reader>>
wireVars == <<tries, abandoned, executed>>

ASSUME RedisAssumption ==
  /\ WorkloadOf \in [Puts -> Workloads] /\ None \notin Puts
  /\ TTL \in Nat \ {0} /\ MaxTries \in Nat \ {0} /\ MaxTime \in Nat

NoKey == [snapshot |-> None, expires |-> 0]

(* The clock starts before the process does: keys that an earlier instance *)
(* has left, or another one sets, are brought by PutElsewhere, and time    *)
(* may pass before main connects.                                          *)
StoreInit ==
  /\ now = 0 /\ generatedAt = [p \in Puts |-> 0]
  /\ server = [w \in Workloads |-> NoKey]
  /\ client = "open"
  /\ pc = [p \in Puts |-> "new"]
  /\ tries = [p \in Puts |-> 0] /\ abandoned = [p \in Puts |-> 0]
  /\ executed = {}
  /\ reader = [r \in Readers |-> "idle"]

------------------------------------------------------------------------------
(* The server.                                                             *)

(* A key that has reached its expiry time is gone before time goes on.     *)
Advance ==
  /\ now < MaxTime
  /\ \A w \in Workloads : server[w].snapshot # None => now < server[w].expires
  /\ now' = now + 1
  /\ UNCHANGED <<generatedAt, server, client, pc, wireVars, reader>>

Expire(w) ==
  /\ server[w].snapshot # None /\ now >= server[w].expires
  /\ server' = [server EXCEPT ![w] = NoKey]
  /\ UNCHANGED <<now, generatedAt, client, pc, wireVars, reader>>

(* SET with an expiry: the time to live counts from here.                  *)
Set(p) ==
  /\ server' = [server EXCEPT ![WorkloadOf[p]] =
                  [snapshot |-> p, expires |-> now + TTL]]
  /\ executed' = executed \cup {p}

Execute(p) ==
  /\ pc[p] = "waiting"
  /\ Set(p) /\ pc' = [pc EXCEPT ![p] = "answered"]
  /\ UNCHANGED <<now, generatedAt, client, tries, abandoned, reader>>

ExecuteAbandoned(p) ==
  /\ abandoned[p] > 0
  /\ Set(p) /\ abandoned' = [abandoned EXCEPT ![p] = @ - 1]
  /\ UNCHANGED <<now, generatedAt, client, pc, tries, reader>>

(* Another instance, an earlier one or a replica, stamps a snapshot ...    *)
PutElsewhere(p) ==
  /\ pc[p] = "new"
  /\ pc' = [pc EXCEPT ![p] = "elsewhere"]
  /\ generatedAt' = [generatedAt EXCEPT ![p] = now]
  /\ UNCHANGED <<now, server, client, wireVars, reader>>

(* ... and the server executes its command, once or again.  All instances  *)
(* of a deployment have the same ttl.                                      *)
ExecuteElsewhere(p) ==
  /\ pc[p] = "elsewhere"
  /\ Set(p)
  /\ UNCHANGED <<now, generatedAt, client, pc, tries, abandoned, reader>>

------------------------------------------------------------------------------
(* Put.                                                                    *)

(* storeSnapshot stamps the snapshot and calls Put.                        *)
PutCall(p) ==
  /\ pc[p] = "computing"
  /\ pc' = [pc EXCEPT ![p] = "called"]
  /\ generatedAt' = [generatedAt EXCEPT ![p] = now]
  /\ UNCHANGED <<now, server, client, wireVars, reader>>

(* r.client is read without the lock and used: nil panics.                 *)
PutPanics(p) ==
  /\ pc[p] = "called" /\ client = "nil"
  /\ pc' = [pc EXCEPT ![p] = "failed"]
  /\ UNCHANGED <<now, generatedAt, server, client, wireVars, reader>>

PutSend(p) ==
  /\ pc[p] = "called" /\ client = "open"
  /\ pc' = [pc EXCEPT ![p] = "waiting"]
  /\ tries' = [tries EXCEPT ![p] = 1]
  /\ UNCHANGED <<now, generatedAt, server, client, abandoned, executed, reader>>

(* The command is on its way when the caller stops waiting for it.         *)
Abandon(p) ==
  abandoned' = IF pc[p] = "waiting" THEN [abandoned EXCEPT ![p] = @ + 1] ELSE abandoned

(* Mutant of PutRetry: the client never stops retrying.                    *)
PutRetryForever(p) ==
  /\ pc[p] \in {"waiting", "answered"} /\ client = "open"
  /\ tries[p] <= MaxTries
  /\ Abandon(p)
  /\ pc' = [pc EXCEPT ![p] = "waiting"]
  /\ tries' = [tries EXCEPT ![p] = @ + 1]
  /\ UNCHANGED <<now, generatedAt, server, client, executed, reader>>

(* The connection broke: the command is sent once more.                    *)
PutRetry(p) ==
  /\ pc[p] \in {"waiting", "answered"} /\ client = "open"
  /\ tries[p] < MaxTries
  /\ Abandon(p)
  /\ pc' = [pc EXCEPT ![p] = "waiting"]
  /\ tries' = [tries EXCEPT ![p] = @ + 1]
  /\ UNCHANGED <<now, generatedAt, server, client, executed, reader>>

(* An error: the name or the context was refused, the server cannot be     *)
(* reached, the client is closed, or no answer came in time.               *)
PutFails(p) ==
  /\ pc[p] \in {"called", "waiting", "answered"}
  /\ Abandon(p)
  /\ pc' = [pc EXCEPT ![p] = "failed"]
  /\ tries' = [tries EXCEPT ![p] = 0]
  /\ UNCHANGED <<now, generatedAt, server, client, executed, reader>>

(* Mutant of PutReturn: the command's result is not waited for.            *)
PutReturnAtOnce(p) ==
  /\ pc[p] \in {"waiting", "answered"}
  /\ Abandon(p)
  /\ pc' = [pc EXCEPT ![p] = "ok"]
  /\ tries' = [tries EXCEPT ![p] = 0]
  /\ UNCHANGED <<now, generatedAt, server, client, executed, reader>>

PutReturn(p) ==
  /\ pc[p] = "answered"
  /\ pc' = [pc EXCEPT ![p] = "ok"]
  /\ tries' = [tries EXCEPT ![p] = 0]
  /\ UNCHANGED <<now, generatedAt, server, client, abandoned, executed, reader>>

------------------------------------------------------------------------------
(* GetLatest and Close.                                                    *)

(* One command at the server, which answers with the key's value, with nil *)
(* or not at all; a client that is closed or nil breaks the handler.       *)
GetLatest(r) ==
  /\ reader[r] = "serving"
  /\ reader' = [reader EXCEPT ![r] = IF client = "open" THEN "idle" ELSE "broken"]
  /\ UNCHANGED <<now, generatedAt, server, client, pc, wireVars>>

(* Close, under a lock that only Close takes.                              *)
CloseClient ==
  /\ client = "open"
  /\ client' = "closed"
  /\ UNCHANGED <<now, generatedAt, server, pc, wireVars, reader>>

ForgetClient ==
  /\ client = "closed"
  /\ client' = "nil"
  /\ UNCHANGED <<now, generatedAt, server, pc, wireVars, reader>>

------------------------------------------------------------------------------

StoreTypeOK ==
  /\ now \in 0..MaxTime /\ generatedAt \in [Puts -> 0..MaxTime]
  /\ server \in [Workloads -> [snapshot : Puts \cup {None}, expires : 0..MaxTime + TTL]]
  /\ client \in {"open", "closed", "nil"}
  /\ pc \in [Puts -> {"new", "computing", "called", "waiting", "answered",
                      "ok", "failed", "elsewhere"}]
  /\ tries \in [Puts -> 0..MaxTries] /\ abandoned \in [Puts -> 0..MaxTries]
  /\ executed \subseteq Puts
  /\ reader \in [Readers -> {"idle", "serving", "broken"}]

(* The interface, as this store implements it: a Put may take effect       *)
(* several times, and after it has returned.  What a reader is given is    *)
(* the key's value and not repeated here.                                  *)
View(at) ==
  CASE at \in {"new", "computing"} -> "new"
    [] at \in {"called", "waiting", "answered", "elsewhere"} -> "pending"
    [] at = "ok" -> "ok"
    [] at = "failed" -> "failed"

PutView == [p \in Puts |-> View(pc[p])]

LatestView == [w \in Workloads |-> server[w].snapshot]

Interface ==
  INSTANCE SnapshotStore WITH
    Late <- TRUE, ttl <- TTL, latest <- LatestView,
    put <- PutView, applied <- executed, deleting <- {},
    Readers <- {}, got <- [r \in {} |-> None]
==============================================================================
