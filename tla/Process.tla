------------------------------- MODULE Process --------------------------------
(***************************************************************************)
(* The life of a forecaster process (cmd/forecaster/main.go) that keeps    *)
(* its snapshots in Redis: start-up, the operator and the HTTP server      *)
(* (pkg/httpx/server.go) as goroutines of their own, the loops that tick,  *)
(* the handlers that read, and the shutdown, which cancels the context,    *)
(* drains the server and closes the store without waiting for the loops.   *)
(***************************************************************************)
EXTENDS RedisStore

VARIABLES
  main,           \* where main is
  operator,       \* the goroutine of runOperator, "none" without --operator
  ctxDone,        \* ctx has been cancelled
  http,           \* the HTTP server
  looping,        \* the workloads whose registered loop has not returned
  cancelled       \* ticks under way, of loops that Upsert or Remove cancelled

procVars == <<main, operator, ctxDone, http, looping, cancelled>>
vars == <<storeVars, procVars>>

Alive == main # "exited"

(* A loop is in the tick that puts the snapshot p.                         *)
InTick(p) == pc[p] \in {"computing", "called", "waiting", "answered"}

(* The tick of the loop that is registered for w, if it is in one.         *)
CurrentTick(w) ==
  {p \in Puts : WorkloadOf[p] = w /\ InTick(p) /\ p \notin cancelled}

(* The process ends, by returning from main or by os.Exit, and all its     *)
(* goroutines with it.  What the client has sent is on its way.            *)
Exit ==
  /\ main' = "exited" /\ ctxDone' = TRUE
  /\ operator' = "gone" /\ http' = "gone" /\ looping' = {}
  /\ reader' = [r \in Readers |-> "idle"]
  /\ UNCHANGED <<now, generatedAt, server, client, pc, wireVars, cancelled>>

Init ==
  /\ StoreInit
  /\ main = "connect" /\ operator \in {"none", "starting"}
  /\ ctxDone = FALSE /\ http = "starting"
  /\ looping = {} /\ cancelled = {}

------------------------------------------------------------------------------
(* main.                                                                   *)

(* store.New: the server has answered to Ping.                             *)
Connect ==
  /\ main = "connect"
  /\ main' = "setup"
  /\ UNCHANGED <<storeVars, operator, ctxDone, http, looping, cancelled>>

(* The workloads are configured and their loops started, or the operator's *)
(* goroutine is.                                                           *)
Setup ==
  /\ main = "setup"
  /\ main' = "wire"
  /\ operator' = IF operator = "none" THEN "none" ELSE "running"
  /\ looping' = IF operator = "none" THEN Workloads ELSE {}
  /\ UNCHANGED <<storeVars, ctxDone, http, cancelled>>

(* os.Exit: the store cannot be reached, or the workloads, a model or the  *)
(* TLS files are refused.  Deferred calls do not run, and the loops may    *)
(* have started.                                                           *)
StartFails ==
  /\ main \in {"connect", "setup", "wire"}
  /\ Exit

(* The server's goroutine is started and the signals are asked for.        *)
Wire ==
  /\ main = "wire"
  /\ main' = "select"
  /\ UNCHANGED <<storeVars, operator, ctxDone, http, looping, cancelled>>

(* SIGTERM or SIGINT: before main has asked for it, it ends the process;   *)
(* after the select nobody reads the channel any more.                     *)
Signal ==
  \/ main \in {"connect", "setup", "wire"} /\ Exit
  \/ /\ main = "select" /\ main' = "signalled"
     /\ UNCHANGED <<storeVars, operator, ctxDone, http, looping, cancelled>>

(* The select takes the signal or the end of the server: cancel, then      *)
(* Server.Stop begins.                                                     *)
Stop ==
  /\ main = "signalled" \/ (main = "select" /\ http = "failed")
  /\ main' = "drain"
  /\ ctxDone' = TRUE /\ http' = "shutdown"
  /\ UNCHANGED <<storeVars, operator, looping, cancelled>>

(* Shutdown has waited for the handlers, and main returns.                 *)
Drained ==
  /\ main = "drain"
  /\ \A r \in Readers : reader[r] # "serving"
  /\ main' = "close"
  /\ UNCHANGED <<storeVars, operator, ctxDone, http, looping, cancelled>>

(* Mutant of DrainTimesOut: main returns instead of exiting.               *)
DrainTimesOutReturns ==
  /\ main = "drain"
  /\ \E r \in Readers : reader[r] = "serving"
  /\ main' = "close"
  /\ UNCHANGED <<storeVars, operator, ctxDone, http, looping, cancelled>>

(* Mutant of DrainTimesOut: Stop has no timeout.                           *)
DrainTimesOutNever ==
  /\ main = "drain"
  /\ \A r \in Readers : reader[r] # "serving"
  /\ Exit

(* After ten seconds Stop fails and main calls os.Exit.                    *)
DrainTimesOut ==
  /\ main = "drain"
  /\ \E r \in Readers : reader[r] = "serving"
  /\ Exit

(* The deferred Close, and the end.                                        *)
Close ==
  /\ main = "close"
  /\ \/ /\ CloseClient \/ ForgetClient
        /\ UNCHANGED <<main, operator, ctxDone, http, looping, cancelled>>
     \/ client = "nil" /\ Exit

------------------------------------------------------------------------------
(* The operator and the server.                                            *)

(* Mutant of OperatorFails: the failure is only logged.                    *)
OperatorFailsLogs ==
  /\ Alive /\ operator = "running"
  /\ operator' = "returned"
  /\ UNCHANGED <<storeVars, main, ctxDone, http, looping, cancelled>>

(* runOperator returns an error: its goroutine cancels the context.        *)
OperatorFails ==
  /\ Alive /\ operator = "running"
  /\ operator' = "returned" /\ ctxDone' = TRUE
  /\ UNCHANGED <<storeVars, main, http, looping, cancelled>>

(* The manager sees the cancelled context.                                 *)
OperatorEnds ==
  /\ Alive /\ operator = "running" /\ ctxDone
  /\ operator' = "returned"
  /\ UNCHANGED <<storeVars, main, ctxDone, http, looping, cancelled>>

(* ListenAndServe listens, fails to, or fails later on.  After Shutdown it *)
(* returns at once.                                                        *)
Listen ==
  /\ Alive
  /\ \/ main \in {"select", "signalled"} /\ http = "starting" /\ http' \in {"serving", "failed"}
     \/ http = "serving" /\ http' = "failed"
  /\ UNCHANGED <<storeVars, main, operator, ctxDone, looping, cancelled>>

Request(r) ==
  /\ Alive /\ http = "serving" /\ reader[r] = "idle"
  /\ reader' = [reader EXCEPT ![r] = "serving"]
  /\ UNCHANGED <<now, generatedAt, server, client, pc, wireVars, procVars>>

Handle(r) == Alive /\ GetLatest(r) /\ UNCHANGED procVars

------------------------------------------------------------------------------
(* The loops.                                                              *)

(* The reconciler registers a workload, new or not, while runOperator has  *)
(* not returned: a loop that is registered already is cancelled, its tick  *)
(* is not waited for, and another one is launched.                         *)
Upsert(w) ==
  /\ Alive /\ operator = "running"
  /\ looping' = looping \cup {w}
  /\ cancelled' = cancelled \cup CurrentTick(w)
  /\ UNCHANGED <<storeVars, main, operator, ctxDone, http>>

(* The reconciler removes a workload.  The Redis store has no Delete.      *)
Remove(w) ==
  /\ Alive /\ operator = "running"
  /\ looping' = looping \ {w}
  /\ cancelled' = cancelled \cup CurrentTick(w)
  /\ UNCHANGED <<storeVars, main, operator, ctxDone, http>>

(* Mutant of TickStarts: a tick does not wait for the Put of the one       *)
(* before it.                                                              *)
TickStartsInBackground(p) ==
  /\ pc[p] = "new"
  /\ Alive /\ WorkloadOf[p] \in looping
  /\ \A q \in CurrentTick(WorkloadOf[p]) : pc[q] # "computing"
  /\ pc' = [pc EXCEPT ![p] = "computing"]
  /\ UNCHANGED <<now, generatedAt, server, client, wireVars, reader, procVars>>

(* A loop ticks, one tick after the other.  The first tick looks at no     *)
(* context, and the select may take the ticker although Done is closed.    *)
(* A loop that was replaced or removed may likewise tick once more: its    *)
(* Put is refused before anything is sent, and that tick is left out.      *)
TickStarts(p) ==
  /\ pc[p] = "new"
  /\ Alive /\ WorkloadOf[p] \in looping
  /\ CurrentTick(WorkloadOf[p]) = {}
  /\ pc' = [pc EXCEPT ![p] = "computing"]
  /\ UNCHANGED <<now, generatedAt, server, client, wireVars, reader, procVars>>

(* Nothing was collected or predicted: the next tick starts over.          *)
TickFails(p) ==
  /\ pc[p] = "computing" /\ Alive
  /\ pc' = [pc EXCEPT ![p] = "new"]
  /\ cancelled' = cancelled \ {p}
  /\ UNCHANGED <<now, generatedAt, server, client, wireVars, reader,
                 main, operator, ctxDone, http, looping>>

(* A panic unwinds the goroutine of the tick, which Run recovers.          *)
Unwind(p) ==
  looping' = IF p \in cancelled THEN looping ELSE looping \ {WorkloadOf[p]}

(* An adapter or a model panics.                                           *)
TickPanics(p) ==
  /\ pc[p] = "computing" /\ Alive
  /\ pc' = [pc EXCEPT ![p] = "new"]
  /\ Unwind(p)
  /\ cancelled' = cancelled \ {p}
  /\ UNCHANGED <<now, generatedAt, server, client, wireVars, reader,
                 main, operator, ctxDone, http>>

(* The steps of Put.  A cancelled context, of the process or of the loop,  *)
(* is refused before a command is sent.                                    *)
Put(p) ==
  /\ Alive
  /\ \/ /\ \/ PutCall(p)
           \/ ~ctxDone /\ p \notin cancelled /\ (PutSend(p) \/ PutRetry(p))
        /\ UNCHANGED <<looping, cancelled>>
     \/ /\ \/ (PutFails(p) \/ PutReturn(p)) /\ UNCHANGED looping
           \/ PutPanics(p) /\ Unwind(p)
        /\ cancelled' = cancelled \ {p}
  /\ UNCHANGED <<main, operator, ctxDone, http>>

(* The select of the loop takes Done between two ticks.                    *)
LoopEnds(w) ==
  /\ Alive /\ w \in looping /\ ctxDone
  /\ CurrentTick(w) = {}
  /\ looping' = looping \ {w}
  /\ UNCHANGED <<storeVars, main, operator, ctxDone, http, cancelled>>

------------------------------------------------------------------------------

Server ==
  \/ Advance \/ \E w \in Workloads : Expire(w)
  \/ \E p \in Puts : \/ Execute(p) \/ ExecuteAbandoned(p)
                      \/ PutElsewhere(p) \/ ExecuteElsewhere(p)

Main == Connect \/ Setup \/ StartFails \/ Wire \/ Stop \/ Drained \/ DrainTimesOut \/ Close

Next ==
  \/ Server /\ UNCHANGED procVars
  \/ Main \/ Signal
  \/ OperatorFails \/ OperatorEnds \/ Listen
  \/ \E r \in Readers : Request(r) \/ Handle(r)
  \/ \E p \in Puts : TickStarts(p) \/ TickFails(p) \/ TickPanics(p) \/ Put(p)
  \/ \E w \in Workloads : Upsert(w) \/ Remove(w) \/ LoopEnds(w)

Spec == Init /\ [][Next]_vars

(* Goroutines are scheduled and the timers of Stop, of a tick and of the   *)
(* client fire.  Nothing is assumed of handlers and of the server.  select *)
(* chooses at random, so a loop that finds Done closed again and again     *)
(* takes it once: strong fairness of LoopEnds.                             *)
Fairness ==
  /\ WF_vars(Stop \/ Drained \/ DrainTimesOut \/ Close)
  /\ \A p \in Puts : WF_vars(TickFails(p) \/ TickPanics(p) \/ Put(p))
  /\ \A w \in Workloads : SF_vars(LoopEnds(w))

FairSpec == Spec /\ Fairness

------------------------------------------------------------------------------

TypeOK ==
  /\ StoreTypeOK
  /\ main \in {"connect", "setup", "wire", "select", "signalled", "drain", "close", "exited"}
  /\ operator \in {"none", "starting", "running", "returned", "gone"}
  /\ ctxDone \in BOOLEAN
  /\ http \in {"starting", "serving", "failed", "shutdown", "gone"}
  /\ looping \subseteq Workloads /\ cancelled \subseteq Puts

(* The Redis store implements the interface of the stores, whatever is     *)
(* lost, retried, late or cut off by the end of the process: Put returns   *)
(* nil only if the snapshot has been stored (redis.go:90), and no snapshot *)
(* is dropped before it has reached the age ttl.                           *)
ImplementsStore == Interface!Spec

(* No handler meets a client that is closed or nil, which would make it    *)
(* fail or panic: Close runs after the server has been drained, and not at *)
(* all when that fails (main.go:99-103 and 188-191).                       *)
HandlersSeeOpenStore ==
  \A r \in Readers : reader[r] # "idle" => reader[r] = "serving" /\ client = "open"

(* A step replaces the snapshot kept for w by an older one, both of this   *)
(* process.  Nothing orders the commands of two instances.                 *)
Regresses(w) ==
  LET before == server[w].snapshot
      after == server'[w].snapshot
  IN /\ before # None /\ pc[before] # "elsewhere"
     /\ after # None /\ pc[after] # "elsewhere"
     /\ generatedAt[after] < generatedAt[before]

(* The step executes a command of p that no registered loop waits for: its *)
(* Put has given it up, or its loop had sent it when it was cancelled.     *)
Unowned(p) == abandoned'[p] < abandoned[p] \/ p \in cancelled

(* The registered loop stores in order: a command that its Put waits for   *)
(* never replaces a younger snapshot of this process, whatever was lost,   *)
(* retried, replaced or removed before.  An older snapshot comes back only *)
(* by a command that its Put has given up, or by one that a loop had sent  *)
(* when Upsert or Remove cancelled it (forecaster.go:162-170 and 176-185   *)
(* do not wait for it).                                                    *)
LoopStoresInOrder ==
  [][\A w \in Workloads : Regresses(w) => Unowned(server'[w].snapshot)]_vars

(* A signal, or a server that fails, ends the process: neither a handler   *)
(* that hangs nor a loop in the middle of a Put holds up the shutdown.     *)
ShutdownEnds ==
  main = "signalled" \/ (main = "select" /\ http = "failed") ~> main = "exited"

(* When the operator fails, main.go:118 cancels the context and goes on    *)
(* serving: the loops end, whether or not the process ever does, although  *)
(* each may be sent into further ticks by its ticker first.                *)
OperatorFailureEndsLoops ==
  operator = "returned" ~> looping = {}
==============================================================================
