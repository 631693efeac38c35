---------------------------- MODULE ProcessProofs -----------------------------
(***************************************************************************)
(* For any number of workloads, snapshots, handlers and retries: handlers  *)
(* meet an open store, the Redis store implements the interface, and the   *)
(* registered loop of a workload stores its snapshots in order.            *)
(***************************************************************************)
EXTENDS Process, TLAPS

(* The steps of main, of the operator, of the HTTP server and of the       *)
(* handlers leave the snapshots and the calls of Put alone.                *)
dataVars == <<now, generatedAt, server, pc, wireVars>>

ProcStep ==
  \/ Main \/ Signal \/ OperatorFails \/ OperatorEnds \/ Listen
  \/ \E r \in Readers : Request(r) \/ Handle(r)
  \/ \E w \in Workloads : Upsert(w) \/ Remove(w) \/ LoopEnds(w)

(* The steps of main, of the readers, of the signal and of the reconciler  *)
(* leave the wire and the server alone, and cancel ticks but never bring   *)
(* one back.                                                               *)
LEMMA ProcFrame ==
  ProcStep \/ UNCHANGED vars => UNCHANGED dataVars /\ cancelled \subseteq cancelled'
BY DEF ProcStep, Main, Connect, Setup, StartFails, Wire, Stop, Drained, DrainTimesOut, Close,
  CloseClient, ForgetClient, Exit, Signal, OperatorFails, OperatorEnds, Listen, Request,
  Handle, GetLatest, Upsert, Remove, LoopEnds, vars, storeVars, procVars, dataVars, wireVars

------------------------------------------------------------------------------
(* The shutdown.                                                           *)

(* The client is closed after main has returned from Stop, and from then   *)
(* on no handler runs and no request is accepted.                          *)
ShutInv ==
  /\ client # "open" => main \in {"close", "exited"}
  /\ reader \in [Readers -> {"idle", "serving"}]
  /\ main \in {"close", "exited"} => \A r \in Readers : reader[r] = "idle"
  /\ main \in {"drain", "close", "exited"} => http \in {"shutdown", "gone"}

(* Everybody else leaves the client, the handlers and the rest of the      *)
(* process as they are.                                                    *)
LEMMA ShutFrame ==
  ASSUME Next, ~ProcStep
  PROVE  UNCHANGED <<client, reader, main, operator, ctxDone, http>>
BY DEF Next, ProcStep, Server, Advance, Expire, Execute, ExecuteAbandoned, PutElsewhere,
  ExecuteElsewhere, TickStarts, TickFails, TickPanics, Put, PutCall, PutPanics, PutSend,
  PutRetry, PutFails, PutReturn, procVars

(* Every step keeps the order of the shutdown.                             *)
LEMMA ShutStep == ShutInv /\ [Next]_vars => ShutInv'
<1> SUFFICES ASSUME ShutInv, [Next]_vars PROVE ShutInv'
  OBVIOUS
<1>1. CASE Connect \/ Setup \/ Wire \/ Stop
  BY <1>1 DEF ShutInv, Connect, Setup, Wire, Stop, storeVars
<1>2. CASE StartFails \/ DrainTimesOut
  BY <1>2 DEF ShutInv, StartFails, DrainTimesOut, Exit
<1>3. CASE Drained
  BY <1>3 DEF ShutInv, Drained, storeVars
<1>4. CASE Close
  BY <1>4 DEF ShutInv, Close, CloseClient, ForgetClient, Exit
<1>5. CASE Signal
  BY <1>5 DEF ShutInv, Signal, Exit, storeVars
<1>6. CASE OperatorFails \/ OperatorEnds \/ Listen
  BY <1>6 DEF ShutInv, OperatorFails, OperatorEnds, Listen, storeVars
<1>7. ASSUME NEW r \in Readers, Request(r) PROVE ShutInv'
  BY <1>7 DEF ShutInv, Request, procVars
<1>8. ASSUME NEW r \in Readers, Handle(r) PROVE ShutInv'
  BY <1>8 DEF ShutInv, Handle, GetLatest, procVars
<1>9. ASSUME NEW w \in Workloads, Upsert(w) \/ Remove(w) \/ LoopEnds(w) PROVE ShutInv'
  BY <1>9 DEF ShutInv, Upsert, Remove, LoopEnds, storeVars
<1>10. CASE Next /\ ~ProcStep
  BY <1>10, ShutFrame DEF ShutInv
<1>11. CASE UNCHANGED vars
  BY <1>11 DEF ShutInv, vars, storeVars, procVars
<1> QED
  BY <1>1, <1>2, <1>3, <1>4, <1>5, <1>6, <1>7, <1>8, <1>9, <1>10, <1>11 DEF ProcStep, Main

(* No handler meets a closed client, however requests, signals, failures   *)
(* and the shutdown interleave.                                            *)
THEOREM ProcessHandlersSeeOpenStore == Spec => []HandlersSeeOpenStore
<1>1. Init => ShutInv
  BY DEF Init, StoreInit, ShutInv
<1>2. ShutInv => HandlersSeeOpenStore
  BY DEF ShutInv, HandlersSeeOpenStore
<1> QED
  BY <1>1, <1>2, ShutStep, PTL DEF Spec

------------------------------------------------------------------------------
(* Type correctness.                                                       *)

WireTypeOK ==
  /\ now \in 0..MaxTime /\ generatedAt \in [Puts -> 0..MaxTime]
  /\ server \in [Workloads -> [snapshot : Puts \cup {None}, expires : 0..MaxTime + TTL]]
  /\ pc \in [Puts -> {"new", "computing", "called", "waiting", "answered",
                      "ok", "failed", "elsewhere"}]
  /\ tries \in [Puts -> 0..MaxTries] /\ abandoned \in [Puts -> 0..MaxTries]
  /\ executed \subseteq Puts

(* Every abandoned command is one of the tries, so that giving up on one   *)
(* more cannot exceed MaxTries.                                            *)
TriesInv ==
  \A p \in Puts :
    /\ pc[p] \in {"new", "computing", "called"} => abandoned[p] = 0
    /\ pc[p] \in {"waiting", "answered"} => abandoned[p] < tries[p]

WireInv == WireTypeOK /\ TriesInv

ProcTypeOK ==
  /\ client \in {"open", "closed", "nil"}
  /\ reader \in [Readers -> {"idle", "serving", "broken"}]
  /\ main \in {"connect", "setup", "wire", "select", "signalled", "drain", "close", "exited"}
  /\ operator \in {"none", "starting", "running", "returned", "gone"}
  /\ http \in {"starting", "serving", "failed", "shutdown", "gone"}

FlagsOK == ctxDone \in BOOLEAN

LoopsOK == looping \subseteq Workloads /\ cancelled \subseteq Puts

(* Every step keeps the types and the retry counts of the calls.           *)
LEMMA WireStep == WireInv /\ [Next]_vars => WireInv'
<1> SUFFICES ASSUME WireInv, [Next]_vars PROVE WireInv'
  OBVIOUS
<1> USE RedisAssumption DEF WireInv, WireTypeOK, TriesInv
<1>1. CASE Advance
  BY <1>1 DEF Advance, wireVars
<1>2. ASSUME NEW w \in Workloads, Expire(w) PROVE WireInv'
  BY <1>2 DEF Expire, NoKey, wireVars
<1>3. ASSUME NEW p \in Puts, Execute(p) PROVE WireInv'
  BY <1>3 DEF Execute, Set
<1>4. ASSUME NEW p \in Puts, ExecuteAbandoned(p) PROVE WireInv'
  BY <1>4 DEF ExecuteAbandoned, Set
<1>5. ASSUME NEW p \in Puts, TickStarts(p) \/ TickFails(p) \/ TickPanics(p) PROVE WireInv'
  BY <1>5 DEF TickStarts, TickFails, TickPanics, wireVars
<1>6. ASSUME NEW p \in Puts, PutCall(p) PROVE WireInv'
  BY <1>6 DEF PutCall, wireVars
<1>7. ASSUME NEW p \in Puts, PutSend(p) \/ PutPanics(p) PROVE WireInv'
  <2>1. CASE PutSend(p)
    BY <2>1 DEF PutSend
  <2>2. CASE PutPanics(p)
    BY <2>2 DEF PutPanics, wireVars
  <2> QED
    BY <1>7, <2>1, <2>2
<1>8. ASSUME NEW p \in Puts, PutRetry(p) PROVE WireInv'
  BY <1>8 DEF PutRetry, Abandon
<1>9. ASSUME NEW p \in Puts, PutFails(p) PROVE WireInv'
  BY <1>9 DEF PutFails, Abandon
<1>10. ASSUME NEW p \in Puts, PutReturn(p) PROVE WireInv'
  BY <1>10 DEF PutReturn
<1>11. ASSUME NEW p \in Puts, PutElsewhere(p) PROVE WireInv'
  BY <1>11 DEF PutElsewhere, wireVars
<1>12. ASSUME NEW p \in Puts, ExecuteElsewhere(p) PROVE WireInv'
  BY <1>12 DEF ExecuteElsewhere, Set
<1>13. CASE ProcStep \/ UNCHANGED vars
  BY <1>13, ProcFrame DEF dataVars, wireVars
<1> HIDE DEF WireInv
<1> QED
  BY <1>1, <1>2, <1>3, <1>4, <1>5, <1>6, <1>7, <1>8, <1>9, <1>10, <1>11, <1>12, <1>13
     DEF Next, Server, Put, ProcStep

(* Every step keeps the types of the process variables.                    *)
LEMMA ProcTypeStep == ProcTypeOK /\ [Next]_vars => ProcTypeOK'
<1> SUFFICES ASSUME ProcTypeOK, [Next]_vars PROVE ProcTypeOK'
  OBVIOUS
<1> USE DEF ProcTypeOK
<1>1. CASE Connect \/ Setup \/ Wire \/ Stop \/ Drained
  BY <1>1 DEF Connect, Setup, Wire, Stop, Drained, storeVars
<1>2. CASE StartFails \/ DrainTimesOut
  BY <1>2 DEF StartFails, DrainTimesOut, Exit
<1>3. CASE Close
  BY <1>3 DEF Close, CloseClient, ForgetClient, Exit
<1>4. CASE Signal
  BY <1>4 DEF Signal, Exit, storeVars
<1>5. CASE OperatorFails \/ OperatorEnds \/ Listen
  BY <1>5 DEF OperatorFails, OperatorEnds, Listen, storeVars
<1>6. ASSUME NEW r \in Readers, Request(r) \/ Handle(r) PROVE ProcTypeOK'
  BY <1>6 DEF Request, Handle, GetLatest, procVars
<1>7. ASSUME NEW w \in Workloads, Upsert(w) \/ Remove(w) \/ LoopEnds(w) PROVE ProcTypeOK'
  BY <1>7 DEF Upsert, Remove, LoopEnds, storeVars
<1>8. CASE Next /\ ~ProcStep
  BY <1>8, ShutFrame
<1>9. CASE UNCHANGED vars
  BY <1>9 DEF vars, storeVars, procVars
<1> HIDE DEF ProcTypeOK
<1> QED
  BY <1>1, <1>2, <1>3, <1>4, <1>5, <1>6, <1>7, <1>8, <1>9 DEF ProcStep, Main

(* Every step keeps the state of the context Boolean.                      *)
LEMMA FlagsStep == FlagsOK /\ [Next]_vars => FlagsOK'
<1> SUFFICES ASSUME FlagsOK, [Next]_vars PROVE FlagsOK'
  OBVIOUS
<1> USE DEF FlagsOK
<1>1. CASE Main
  BY <1>1, Zenon DEF Main, Connect, Setup, Wire, Stop, Drained, StartFails,
    DrainTimesOut, Close, Exit
<1>2. CASE Signal \/ OperatorFails \/ OperatorEnds \/ Listen
  BY <1>2, Zenon DEF Signal, OperatorFails, OperatorEnds, Listen, Exit
<1>3. ASSUME NEW r \in Readers, Request(r) \/ Handle(r) PROVE FlagsOK'
  BY <1>3, Zenon DEF Request, Handle, procVars
<1>4. ASSUME NEW w \in Workloads, Upsert(w) \/ Remove(w) \/ LoopEnds(w) PROVE FlagsOK'
  BY <1>4, Zenon DEF Upsert, Remove, LoopEnds
<1>5. CASE Next /\ ~ProcStep
  BY <1>5, ShutFrame, Zenon
<1>6. CASE UNCHANGED vars
  BY <1>6, Zenon DEF vars, procVars
<1> HIDE DEF FlagsOK
<1> QED
  BY <1>1, <1>2, <1>3, <1>4, <1>5, <1>6, Zenon DEF ProcStep

(* Every step keeps the loops and the cancelled ticks among those there    *)
(* are.                                                                    *)
LEMMA LoopsStep == LoopsOK /\ [Next]_vars => LoopsOK'
<1> SUFFICES ASSUME LoopsOK, [Next]_vars PROVE LoopsOK'
  OBVIOUS
<1> USE RedisAssumption DEF LoopsOK
<1>1. CASE Main \/ Signal \/ OperatorFails \/ OperatorEnds \/ Listen
  BY <1>1 DEF Main, Connect, Setup, Wire, Stop, Drained, StartFails, DrainTimesOut, Close,
    Exit, Signal, OperatorFails, OperatorEnds, Listen
<1>2. ASSUME NEW w \in Workloads, Upsert(w) \/ Remove(w) \/ LoopEnds(w) PROVE LoopsOK'
  BY <1>2 DEF Upsert, Remove, LoopEnds, CurrentTick
<1>3. ASSUME NEW p \in Puts, TickStarts(p) \/ TickFails(p) \/ TickPanics(p) PROVE LoopsOK'
  BY <1>3 DEF TickStarts, TickFails, TickPanics, Unwind, procVars
<1>4. ASSUME NEW p \in Puts, Put(p) PROVE LoopsOK'
  BY <1>4 DEF Put, Unwind
<1>5. CASE UNCHANGED procVars
  BY <1>5 DEF procVars
<1> HIDE DEF LoopsOK
<1> QED
  BY <1>1, <1>2, <1>3, <1>4, <1>5 DEF Next, Request, Handle, vars

(* Every variable of the process and of the Redis store keeps its type for *)
(* any number of loops, handlers and retries; above all the commands given *)
(* up never outnumber the tries the client makes.                          *)
THEOREM ProcessTypeOK == Spec => []TypeOK
<1>1. Init => WireInv
  BY RedisAssumption DEF Init, StoreInit, NoKey, WireInv, WireTypeOK, TriesInv
<1>2. Init => ProcTypeOK
  BY DEF Init, StoreInit, ProcTypeOK
<1>3. Init => FlagsOK /\ LoopsOK
  BY DEF Init, FlagsOK, LoopsOK
<1>4. WireInv /\ ProcTypeOK /\ FlagsOK /\ LoopsOK => TypeOK
  BY Zenon DEF WireInv, WireTypeOK, ProcTypeOK, FlagsOK, LoopsOK, TypeOK, StoreTypeOK
<1> QED
  BY <1>1, <1>2, <1>3, <1>4, WireStep, ProcTypeStep, FlagsStep, LoopsStep, PTL DEF Spec

------------------------------------------------------------------------------
(* The snapshots.                                                          *)

DataOK ==
  /\ now \in Nat /\ generatedAt \in [Puts -> Nat]
  /\ server \in [Workloads -> [snapshot : Puts \cup {None}, expires : Nat]]
  /\ pc \in [Puts -> {"new", "computing", "called", "waiting", "answered",
                      "ok", "failed", "elsewhere"}]
  /\ abandoned \in [Puts -> Nat] /\ executed \subseteq Puts

(* A command of this process has reached the server, or may yet.           *)
Sent(q) ==
  /\ pc[q] # "elsewhere"
  /\ q \in executed \/ abandoned[q] > 0 \/ pc[q] = "waiting"

(* A loop ticks again when the tick before has ended, so a snapshot that a *)
(* registered loop is putting is the youngest one of its workload that     *)
(* this process has sent.  What a cancelled loop stamps later is not sent. *)
StampInv ==
  /\ \A p \in Puts : generatedAt[p] <= now
  /\ \A p, q \in Puts \ cancelled :
       InTick(p) /\ InTick(q) /\ WorkloadOf[p] = WorkloadOf[q] => p = q
  /\ \A p \in Puts \ cancelled, q \in Puts :
       /\ pc[p] \in {"called", "waiting", "answered"}
       /\ WorkloadOf[p] = WorkloadOf[q] /\ Sent(q)
       => generatedAt[q] <= generatedAt[p]

(* What the server holds was sent by a Put and is kept for its ttl.        *)
KeyInv ==
  /\ \A w \in Workloads : server[w].snapshot # None =>
       /\ WorkloadOf[server[w].snapshot] = w /\ server[w].snapshot \in executed
       /\ server[w].expires >= generatedAt[server[w].snapshot] + TTL
  /\ \A p \in Puts : pc[p] \in {"new", "computing", "called"} =>
       p \notin executed /\ abandoned[p] = 0
  /\ \A p \in Puts : pc[p] \in {"answered", "ok"} => p \in executed

Inv == DataOK /\ StampInv /\ KeyInv

(* The steps of a call of Put that neither stamp a snapshot nor set a key. *)
LEMMA CallStep ==
  ASSUME Inv, NEW p \in Puts, Put(p), ~PutCall(p)
  PROVE  Inv'
<1> USE RedisAssumption DEF Inv
<1>1. /\ UNCHANGED <<now, generatedAt, server, executed>>
      /\ pc[p] \in {"called", "waiting", "answered"}
      /\ \E after \in {"waiting", "failed", "ok"} :
           /\ pc' = [pc EXCEPT ![p] = after]
           /\ after = "waiting" => p \notin cancelled /\ UNCHANGED cancelled
           /\ after # "waiting" => cancelled' = cancelled \ {p}
           /\ after = "ok" => p \in executed
  BY DEF Put, DataOK, KeyInv, PutPanics, PutSend, PutRetry, PutFails, PutReturn, wireVars
<1>2. \/ abandoned' = abandoned
      \/ pc[p] = "waiting" /\ abandoned' = [abandoned EXCEPT ![p] = @ + 1]
  BY DEF Put, PutPanics, PutSend, PutRetry, PutFails, PutReturn, Abandon, wireVars
<1>3. DataOK'
  BY <1>1, <1>2 DEF DataOK
<1>4. StampInv'
  <2>1. \A q \in Puts \ cancelled' : InTick(q)' => q \in Puts \ cancelled /\ InTick(q)
    BY <1>1 DEF DataOK, InTick
  <2>2. \A q \in Puts : Sent(q)' => Sent(q) \/ (q = p /\ p \notin cancelled)
    BY <1>1, <1>2 DEF DataOK, Sent
  <2>3. \A q \in Puts \ cancelled' : pc'[q] \in {"called", "waiting", "answered"} =>
          q \in Puts \ cancelled /\ pc[q] \in {"called", "waiting", "answered"}
    BY <1>1 DEF DataOK
  <2> QED
    BY <1>1, <2>1, <2>2, <2>3 DEF DataOK, StampInv, InTick
<1>5. KeyInv'
  BY <1>1, <1>2 DEF DataOK, KeyInv
<1> QED
  BY <1>3, <1>4, <1>5

(* A key is set by a command that was sent before.                         *)
LEMMA SetStep ==
  ASSUME Inv, NEW p \in Puts, Execute(p) \/ ExecuteAbandoned(p) \/ ExecuteElsewhere(p),
         UNCHANGED procVars
  PROVE  Inv'
<1> USE RedisAssumption DEF Inv
<1>1. /\ Set(p) /\ UNCHANGED <<now, generatedAt, cancelled>>
      /\ Sent(p) \/ pc[p] = "elsewhere"
      /\ \/ UNCHANGED pc
         \/ pc[p] = "waiting" /\ pc' = [pc EXCEPT ![p] = "answered"]
      /\ \/ UNCHANGED abandoned
         \/ abandoned[p] > 0 /\ abandoned' = [abandoned EXCEPT ![p] = @ - 1]
  BY DEF Execute, ExecuteAbandoned, ExecuteElsewhere, Sent, procVars, DataOK
<1>2. DataOK'
  <2>1. pc' \in [Puts -> {"new", "computing", "called", "waiting", "answered",
                          "ok", "failed", "elsewhere"}]
    BY <1>1 DEF DataOK
  <2>2. abandoned' \in [Puts -> Nat]
    BY <1>1 DEF DataOK
  <2> QED
    BY <1>1, <2>1, <2>2 DEF DataOK, Set
<1>3. StampInv'
  <2>1. \A q \in Puts : InTick(q)' => InTick(q)
    BY <1>1 DEF DataOK, InTick
  <2>2. \A q \in Puts : Sent(q)' => Sent(q)
    BY <1>1 DEF DataOK, Sent, Set
  <2>3. \A q \in Puts : pc'[q] \in {"called", "waiting", "answered"} =>
          pc[q] \in {"called", "waiting", "answered"}
    BY <1>1 DEF DataOK
  <2> QED
    BY <1>1, <2>1, <2>2, <2>3 DEF StampInv
<1>4. KeyInv'
  <2>1. pc[p] \notin {"new", "computing", "called"}
    BY <1>1 DEF Sent, KeyInv, DataOK
  <2> QED
    BY <1>1, <2>1 DEF DataOK, StampInv, KeyInv, Set
<1> QED
  BY <1>2, <1>3, <1>4

(* A tick that begins, ends early or stamps its snapshot.                  *)
LEMMA TickStep ==
  ASSUME Inv, NEW p \in Puts,
         \/ TickStarts(p) \/ TickFails(p) \/ TickPanics(p) \/ (Put(p) /\ PutCall(p))
         \/ (PutElsewhere(p) /\ UNCHANGED procVars)
  PROVE  Inv'
<1> USE RedisAssumption DEF Inv
<1>0. /\ UNCHANGED <<now, server, executed, abandoned>>
      /\ pc[p] \in {"new", "computing"} /\ p \notin executed /\ abandoned[p] = 0
      /\ \E after \in {"new", "computing", "called", "elsewhere"} :
           /\ pc' = [pc EXCEPT ![p] = after]
           /\ after = "called" => pc[p] = "computing"
           /\ after = "computing" => CurrentTick(WorkloadOf[p]) = {}
           /\ cancelled' = IF after = "new" THEN cancelled \ {p} ELSE cancelled
           /\ generatedAt' = IF after \in {"called", "elsewhere"}
                             THEN [generatedAt EXCEPT ![p] = now] ELSE generatedAt
  <2>1. CASE TickStarts(p)
    BY <2>1 DEF KeyInv, TickStarts, wireVars, procVars
  <2>2. CASE TickFails(p) \/ TickPanics(p)
    BY <2>2 DEF KeyInv, TickFails, TickPanics, wireVars
  <2>3. CASE Put(p) /\ PutCall(p)
    BY <2>3 DEF KeyInv, Put, PutCall, PutPanics, PutSend, PutRetry, PutFails, PutReturn, wireVars
  <2>4. CASE PutElsewhere(p) /\ UNCHANGED procVars
    BY <2>4 DEF KeyInv, PutElsewhere, wireVars, procVars
  <2> QED
    BY <2>1, <2>2, <2>3, <2>4
<1>1. DataOK'
  BY <1>0 DEF DataOK
<1>2. StampInv'
  <2>1. \A q \in Puts : ~Sent(p)' /\ (Sent(q)' /\ q # p => Sent(q))
    BY <1>0 DEF DataOK, Sent
  <2>2. \A q \in Puts \ cancelled' : InTick(q)' /\ q # p => q \in Puts \ cancelled /\ InTick(q)
    BY <1>0 DEF DataOK, InTick
  <2>3. InTick(p)' /\ p \notin cancelled' =>
          \A q \in Puts \ cancelled : InTick(q) /\ WorkloadOf[q] = WorkloadOf[p] => q = p
    BY <1>0 DEF DataOK, InTick, StampInv, CurrentTick
  <2>4. \A q \in Puts : q # p => generatedAt'[q] = generatedAt[q] /\ pc'[q] = pc[q]
    BY <1>0 DEF DataOK
  <2>5. \A q \in Puts : generatedAt[q] <= now /\ generatedAt'[q] <= now'
    BY <1>0 DEF DataOK, StampInv
  <2>6. pc'[p] = "called" => generatedAt'[p] = now
    BY <1>0 DEF DataOK
  <2>7. \A q, u \in Puts \ cancelled' :
          InTick(q)' /\ InTick(u)' /\ WorkloadOf[q] = WorkloadOf[u] => q = u
    BY <2>2, <2>3 DEF StampInv
  <2>8. \A q \in Puts \ cancelled', u \in Puts :
          /\ pc'[q] \in {"called", "waiting", "answered"}
          /\ WorkloadOf[q] = WorkloadOf[u] /\ Sent(u)'
          => generatedAt'[u] <= generatedAt'[q]
    <3> SUFFICES ASSUME NEW q \in Puts \ cancelled', NEW u \in Puts,
                        pc'[q] \in {"called", "waiting", "answered"},
                        WorkloadOf[q] = WorkloadOf[u], Sent(u)'
                 PROVE  generatedAt'[u] <= generatedAt'[q]
      OBVIOUS
    <3>1. u # p /\ Sent(u)
      BY <2>1
    <3>2. CASE q = p
      BY <1>0, <2>4, <2>5, <2>6, <3>1, <3>2 DEF DataOK
    <3>3. CASE q # p
      BY <1>0, <2>4, <3>1, <3>3 DEF StampInv
    <3> QED
      BY <3>2, <3>3
  <2> QED
    BY <2>5, <2>7, <2>8 DEF StampInv
<1>3. KeyInv'
  BY <1>0 DEF DataOK, KeyInv
<1> QED
  BY <1>1, <1>2, <1>3

(* Every step preserves the inductive invariant.                           *)
LEMMA DataStep == Inv /\ [Next]_vars => Inv'
<1> SUFFICES ASSUME Inv, [Next]_vars PROVE Inv'
  OBVIOUS
<1> USE RedisAssumption
<1>1. CASE Advance /\ UNCHANGED procVars
  BY <1>1 DEF Inv, DataOK, StampInv, KeyInv, InTick, Sent, Advance, wireVars, procVars
<1>2. ASSUME NEW w \in Workloads, Expire(w), UNCHANGED procVars PROVE Inv'
  BY <1>2 DEF Inv, DataOK, StampInv, KeyInv, InTick, Sent, Expire, NoKey, wireVars, procVars
<1>3. CASE ProcStep \/ UNCHANGED vars
  BY <1>3, ProcFrame DEF Inv, DataOK, StampInv, KeyInv, InTick, Sent, dataVars, wireVars
<1> QED
  BY <1>1, <1>2, <1>3, CallStep, SetStep, TickStep DEF Next, Server, ProcStep

(* The inductive invariant holds in every reachable state.                 *)
LEMMA ProcessInv == Spec => []Inv
<1>1. Init => Inv
  BY RedisAssumption
  DEF Init, StoreInit, Inv, DataOK, StampInv, KeyInv, InTick, Sent, NoKey
<1> QED
  BY <1>1, DataStep, PTL DEF Spec

------------------------------------------------------------------------------

(* The registered loop of a workload stores its snapshots in order, for    *)
(* any number of loops, replacements, retries and other instances.         *)
THEOREM ProcessLoopStoresInOrder == Spec => LoopStoresInOrder
<1>1. ASSUME Inv, Next, NEW w \in Workloads, Regresses(w) PROVE Unowned(server'[w].snapshot)
  <2> USE RedisAssumption, <1>1 DEF Inv, Regresses, Unowned
  <2>0. server'[w] # server[w]
    BY DEF DataOK
  <2>1. ASSUME NEW v \in Workloads, Expire(v) PROVE FALSE
    BY <2>0, <2>1 DEF DataOK, Expire, NoKey
  <2>2. ASSUME NEW p \in Puts, Execute(p) PROVE Unowned(server'[w].snapshot)
    <3>1. w = WorkloadOf[p] /\ server'[w].snapshot = p
      BY <2>0, <2>2 DEF DataOK, Execute, Set
    <3>2. server[w].snapshot \in Puts /\ Sent(server[w].snapshot)
          /\ WorkloadOf[server[w].snapshot] = w
      BY DEF DataOK, KeyInv, Sent
    <3> QED
      BY <2>2, <3>1, <3>2 DEF DataOK, StampInv, Execute
  <2>3. ASSUME NEW p \in Puts, ExecuteAbandoned(p) PROVE Unowned(server'[w].snapshot)
    BY <2>0, <2>3 DEF DataOK, ExecuteAbandoned, Set
  <2>4. ASSUME NEW p \in Puts, ExecuteElsewhere(p) PROVE FALSE
    BY <2>0, <2>4 DEF DataOK, ExecuteElsewhere, Set
  <2>5. CASE UNCHANGED server
    BY <2>0, <2>5
  <2>6. CASE ProcStep
    BY <2>6, <2>5, ProcFrame DEF dataVars
  <2> QED
    BY <2>1, <2>2, <2>3, <2>4, <2>5, <2>6 DEF Next, Server, ProcStep, Advance, PutElsewhere,
       TickStarts, TickFails, TickPanics, Put, PutCall, PutPanics, PutSend, PutRetry,
       PutFails, PutReturn
<1>2. Inv /\ [Next]_vars =>
        [\A w \in Workloads : Regresses(w) => Unowned(server'[w].snapshot)]_vars
  BY <1>1
<1> QED
  BY ProcessInv, <1>2, PTL DEF Spec, LoopStoresInOrder

------------------------------------------------------------------------------
(* The refinement.                                                         *)

(* What a Put in each of its states looks like to the abstract store.      *)
LEMMA Views ==
  /\ View("new") = "new" /\ View("computing") = "new"
  /\ View("called") = "pending" /\ View("waiting") = "pending" /\ View("answered") = "pending"
  /\ View("elsewhere") = "pending"
  /\ View("ok") = "ok" /\ View("failed") = "failed"
BY DEF View

(* A Put that moves on is seen to move on, or not at all.                  *)
LEMMA ViewStep ==
  ASSUME DataOK, NEW p \in Puts, NEW after, pc' = [pc EXCEPT ![p] = after]
  PROVE  /\ PutView' = [PutView EXCEPT ![p] = View(after)]
         /\ View(after) = View(pc[p]) => PutView' = PutView
<1>1. PutView = [q \in Puts |-> PutView[q]] /\ PutView' = [q \in Puts |-> PutView'[q]]
  BY DEF PutView
<1>2. \A q \in Puts : PutView[q] = View(pc[q]) /\ PutView'[q] = View(pc'[q])
  BY DEF PutView
<1>3. \A q \in Puts : pc'[q] = IF q = p THEN after ELSE pc[q]
  BY DEF DataOK
<1>4. \A q \in Puts : PutView'[q] = IF q = p THEN View(after) ELSE PutView[q]
  BY <1>2, <1>3, Zenon
<1>5. PutView' = [PutView EXCEPT ![p] = View(after)]
  BY <1>1, <1>4
<1>6. ASSUME View(after) = View(pc[p]) PROVE PutView' = PutView
  <2>1. \A q \in Puts : PutView'[q] = PutView[q]
    BY <1>2, <1>4, <1>6, Zenon
  <2> QED
    BY <1>1, <2>1, Zenon
<1> QED
  BY <1>5, <1>6

(* What leaves the calls and the server alone is not seen.                 *)
LEMMA ViewFrame ==
  /\ UNCHANGED pc => UNCHANGED PutView
  /\ UNCHANGED server => UNCHANGED LatestView
BY DEF PutView, LatestView

(* A write to one key is seen as a write to one workload.                  *)
LEMMA LatestStep ==
  ASSUME NEW v \in Workloads, NEW after,
         \A w \in Workloads :
           server'[w].snapshot = IF w = v THEN after ELSE server[w].snapshot
  PROVE  LatestView' = [LatestView EXCEPT ![v] = after]
<1>1. /\ LatestView = [w \in Workloads |-> LatestView[w]]
      /\ LatestView' = [w \in Workloads |-> LatestView'[w]]
  BY DEF LatestView
<1>2. \A w \in Workloads : LatestView'[w] = IF w = v THEN after ELSE LatestView[w]
  BY DEF LatestView
<1> QED
  BY <1>1, <1>2

(* A command that the server executes is the effect of its Put, the first  *)
(* or one more.                                                            *)
LEMMA SetImplements ==
  ASSUME Inv, NEW p \in Puts, Execute(p) \/ ExecuteAbandoned(p) \/ ExecuteElsewhere(p)
  PROVE  Interface!Apply(p)
<1> USE RedisAssumption DEF Inv
<1>1. PutView' = PutView
  <2>1. CASE Execute(p)
    <3>1. pc' = [pc EXCEPT ![p] = "answered"] /\ pc[p] = "waiting"
      BY <2>1 DEF Execute
    <3>2. View("answered") = View(pc[p])
      BY <3>1, Views
    <3> QED
      BY <3>1, <3>2, ViewStep, Zenon
  <2>2. CASE ExecuteAbandoned(p) \/ ExecuteElsewhere(p)
    BY <2>2, ViewFrame DEF ExecuteAbandoned, ExecuteElsewhere
  <2> QED
    BY <2>1, <2>2
<1>2. PutView[p] # "new"
  <2>1. pc[p] \in {"waiting", "answered", "ok", "failed", "elsewhere"}
    BY DEF DataOK, KeyInv, Execute, ExecuteAbandoned, ExecuteElsewhere
  <2>2. PutView[p] = View(pc[p])
    BY DEF PutView
  <2> QED
    BY <2>1, <2>2, Views
<1>3. LatestView' = [LatestView EXCEPT ![WorkloadOf[p]] = p]
  <2>1. \A w \in Workloads :
          server'[w].snapshot = IF w = WorkloadOf[p] THEN p ELSE server[w].snapshot
    BY DEF DataOK, Execute, ExecuteAbandoned, ExecuteElsewhere, Set
  <2> QED
    BY <2>1, LatestStep
<1>4. executed' = executed \cup {p} /\ UNCHANGED <<now, generatedAt>>
  BY DEF Execute, ExecuteAbandoned, ExecuteElsewhere, Set
<1> QED
  BY <1>1, <1>2, <1>3, <1>4, Zenon DEF Interface!Apply

(* The steps of a call, here or in another instance.                       *)
LEMMA PutImplements ==
  ASSUME Inv, NEW p \in Puts, Put(p) \/ PutElsewhere(p)
  PROVE  Interface!Call(p) \/ Interface!Return(p) \/ UNCHANGED Interface!vars
<1> USE RedisAssumption DEF Inv
<1>0. PutView[p] = View(pc[p]) /\ DataOK
  BY DEF PutView
<1>1. CASE PutCall(p) \/ PutElsewhere(p)
  <2>1. PutView[p] = "new" /\ UNCHANGED <<now, executed, LatestView>>
    BY <1>0, <1>1, Views, ViewFrame DEF PutCall, PutElsewhere, wireVars
  <2>2. PutView' = [PutView EXCEPT ![p] = "pending"]
    <3>1. PICK after \in {"called", "elsewhere"} : pc' = [pc EXCEPT ![p] = after]
      BY <1>1 DEF PutCall, PutElsewhere
    <3>2. View(after) = "pending"
      BY Views
    <3> QED
      BY <1>0, <3>1, <3>2, ViewStep, Zenon
  <2>3. \E at \in 0..now : generatedAt' = [generatedAt EXCEPT ![p] = at]
    <3>1. now \in 0..now
      BY DEF DataOK
    <3> QED
      BY <1>1, <3>1, Zenon DEF PutCall, PutElsewhere
  <2> QED
    BY <2>1, <2>2, <2>3, Zenon DEF Interface!Call
<1>2. CASE PutSend(p) \/ PutRetry(p)
  <2>1. pc' = [pc EXCEPT ![p] = "waiting"] /\ pc[p] \in {"called", "waiting", "answered"}
    BY <1>2 DEF PutSend, PutRetry
  <2>2. View("waiting") = View(pc[p])
    BY <2>1, Views
  <2>3. PutView' = PutView
    BY <1>0, <2>1, <2>2, ViewStep, Zenon
  <2> QED
    BY <1>2, <2>3, ViewFrame DEF PutSend, PutRetry, Interface!vars
<1>3. CASE PutFails(p) \/ PutPanics(p)
  <2>1. pc' = [pc EXCEPT ![p] = "failed"]
    BY <1>3 DEF PutFails, PutPanics
  <2>2. View("failed") = "failed" /\ PutView[p] = "pending"
    BY <1>0, <1>3, Views DEF PutFails, PutPanics
  <2>3. PutView' = [PutView EXCEPT ![p] = "failed"]
    BY <1>0, <2>1, <2>2, ViewStep, Zenon
  <2>4. UNCHANGED <<now, generatedAt, executed, LatestView>>
    BY <1>3, ViewFrame DEF PutFails, PutPanics, wireVars
  <2> QED
    BY <2>2, <2>3, <2>4, Zenon DEF Interface!Return
<1>4. CASE PutReturn(p)
  <2>1. pc' = [pc EXCEPT ![p] = "ok"] /\ PutView[p] = "pending" /\ p \in executed
    BY <1>0, <1>4, Views DEF PutReturn, KeyInv
  <2>2. PutView' = [PutView EXCEPT ![p] = "ok"]
    <3>1. View("ok") = "ok"
      BY Views
    <3> QED
      BY <1>0, <2>1, <3>1, ViewStep, Zenon
  <2>3. UNCHANGED <<now, generatedAt, executed, LatestView>>
    BY <1>4, ViewFrame DEF PutReturn
  <2> QED
    BY <2>1, <2>2, <2>3, Zenon DEF Interface!Return
<1> QED
  BY <1>1, <1>2, <1>3, <1>4 DEF Put

(* Every step is a step of the interface or leaves it alone.               *)
LEMMA StepImplements == Inv /\ [Next]_vars => [Interface!Next]_Interface!vars
<1> SUFFICES ASSUME Inv, [Next]_vars PROVE [Interface!Next]_Interface!vars
  OBVIOUS
<1> USE RedisAssumption DEF Inv
<1>1. CASE Advance
  <2>1. now' \in Nat /\ now < now'
    BY <1>1 DEF Advance, DataOK
  <2> QED
    BY <1>1, <2>1, ViewFrame DEF Advance, Interface!Next, Interface!Advance, wireVars
<1>2. ASSUME NEW w \in Workloads, Expire(w) PROVE Interface!Next
  <2>1. LatestView[w] # None /\ now - generatedAt[LatestView[w]] >= TTL
    BY <1>2 DEF Expire, DataOK, KeyInv, LatestView
  <2>2. LatestView' = [LatestView EXCEPT ![w] = None]
    <3>1. \A v \in Workloads :
            server'[v].snapshot = IF v = w THEN None ELSE server[v].snapshot
      BY <1>2 DEF Expire, DataOK, NoKey
    <3> QED
      BY <3>1, LatestStep
  <2>3. UNCHANGED <<now, generatedAt, executed, PutView>>
    BY <1>2, ViewFrame DEF Expire, wireVars
  <2>4. Interface!Expire(w)
    BY <2>1, <2>2, <2>3 DEF Interface!Expire
  <2> QED
    BY <2>4 DEF Interface!Next
<1>3. ASSUME NEW p \in Puts, Execute(p) \/ ExecuteAbandoned(p) \/ ExecuteElsewhere(p)
      PROVE  Interface!Next
  BY <1>3, SetImplements DEF Interface!Next
<1>4. ASSUME NEW p \in Puts, Put(p) \/ PutElsewhere(p) PROVE [Interface!Next]_Interface!vars
  BY <1>4, PutImplements DEF Interface!Next
<1>5. ASSUME NEW p \in Puts, TickStarts(p) \/ TickFails(p) \/ TickPanics(p)
      PROVE  UNCHANGED Interface!vars
  <2>1. PICK after \in {"new", "computing"} : pc' = [pc EXCEPT ![p] = after]
    BY <1>5 DEF TickStarts, TickFails, TickPanics
  <2>2. View(after) = View(pc[p])
    BY <1>5, Views DEF TickStarts, TickFails, TickPanics
  <2>3. PutView' = PutView
    BY <2>1, <2>2, ViewStep, Zenon
  <2> QED
    BY <1>5, <2>3, ViewFrame DEF TickStarts, TickFails, TickPanics, Interface!vars, wireVars
<1>6. CASE ProcStep \/ UNCHANGED vars
  BY <1>6, ProcFrame, ViewFrame DEF dataVars, wireVars, Interface!vars
<1> QED
  BY <1>1, <1>2, <1>3, <1>4, <1>5, <1>6 DEF Next, Server, ProcStep

(* The Redis store of a running or dying process implements the interface  *)
(* in which a Put may take effect late and more than once.                 *)
THEOREM ProcessImplementsStore == Spec => ImplementsStore
<1>1. Init => Interface!Init
  BY RedisAssumption, Views
  DEF Init, StoreInit, NoKey, Interface!Init, PutView, LatestView
<1> QED
  BY ProcessInv, <1>1, StepImplements, PTL DEF Spec, ImplementsStore, Interface!Spec
==============================================================================
