------------------------------- MODULE Scaler -------------------------------
(***************************************************************************)
(* The read path: the forecaster's HTTP handler for /forecast/current      *)
(* (cmd/forecaster/router), the KEDA external scaler that turns a snapshot *)
(* into IsActive and GetMetrics answers (cmd/scaler/scaler.go), and the    *)
(* client of the MCP server (pkg/client).                                  *)
(*                                                                         *)
(* A call is three steps: the request, the handler that reads the store,   *)
(* and the decision after the response has travelled, so the snapshot may  *)
(* have aged or been replaced in between.  Time is counted in fractions of *)
(* a second; the two processes are taken to agree on it.                   *)
(***************************************************************************)
EXTENDS Integers, Sequences

CONSTANTS
  None,
  Plans,        \* the values of DesiredReplicas
  StepSeconds,  \* the values of StepSeconds, 0 for steps below a second
  Second,       \* ticks of the clock per second
  LeadTime,     \* s.leadTime, in ticks
  StaleAfter,   \* staleAfter of the router, in ticks
  MaxTime       \* bound on the clock

ASSUME PlansAssumption == Plans \subseteq Seq(Nat)
ASSUME TimingAssumption ==
  /\ StepSeconds \subseteq Nat /\ Second \in Nat \ {0}
  /\ LeadTime \in Nat /\ StaleAfter \in Nat /\ MaxTime \in Nat

VARIABLES
  now,       \* the clock
  snapshot,  \* what the store holds for the workload
  call,      \* the call in progress
  reply,     \* the answer to the last call, until the next one
  up         \* the scaler process is running

vars == <<now, snapshot, call, reply, up>>

Snapshot == [at : 0..MaxTime, step : StepSeconds, desired : Plans]

(* What a response carries: the snapshot with its GeneratedAt as text, and *)
(* the header X-Kedastral-Stale.  exact is the GeneratedAt before the      *)
(* formatting, for the properties only.                                    *)
Body == [at : 0..MaxTime, exact : 0..MaxTime, step : StepSeconds,
         desired : Plans, stale : BOOLEAN]

Kinds == {"IsActive", "GetMetrics", "GetSnapshot"}

ASSUME NoneAssumption == None \notin Snapshot /\ None \notin Body

Idle == [state |-> "idle", kind |-> "IsActive", body |-> None]
NoReply == [kind |-> "none", ok |-> FALSE, value |-> 0, body |-> None, when |-> 0]

Init ==
  /\ now = 0
  /\ snapshot = None
  /\ call = Idle
  /\ reply = NoReply
  /\ up = TRUE

------------------------------------------------------------------------------
(* The store, as the forecaster uses it.                                   *)

(* A forecast loop stores a snapshot.  A late Put of a replaced loop may   *)
(* store an old one (MultiForecaster!OnlyReplacedLoopsRegress).            *)
Publish ==
  /\ \E at \in 0..now, step \in StepSeconds, desired \in Plans :
       snapshot' = [at |-> at, step |-> step, desired |-> desired]
  /\ UNCHANGED <<now, call, reply, up>>

Drop ==
  /\ snapshot # None
  /\ snapshot' = None
  /\ UNCHANGED <<now, call, reply, up>>

Advance ==
  /\ now < MaxTime
  /\ now' = now + 1
  /\ UNCHANGED <<snapshot, call, reply, up>>

------------------------------------------------------------------------------
(* getForecast, GetSnapshot and the handler between them.                  *)

Ask(kind) ==
  /\ up /\ call.state = "idle"
  /\ call' = [state |-> "sent", kind |-> kind, body |-> None]
  /\ reply' = NoReply
  /\ UNCHANGED <<now, snapshot, up>>

(* Format(time.RFC3339) and its parsing: fractions of a second are lost.   *)
RFC3339(t) == t - (t % Second)

(* handleGetSnapshot: 404 without a snapshot, else the snapshot.           *)
Serve ==
  /\ call.state = "sent"
  /\ call' = [state |-> "answered", kind |-> call.kind,
       body |-> IF snapshot = None THEN None
                ELSE [at |-> RFC3339(snapshot.at), exact |-> snapshot.at,
                      step |-> snapshot.step, desired |-> snapshot.desired,
                      stale |-> now - snapshot.at > StaleAfter]]
  /\ UNCHANGED <<now, snapshot, reply, up>>

(* Mutant of FetchFails: a failed fetch is retried without a limit.        *)
FetchFailsRetries ==
  /\ call.state \in {"sent", "answered"}
  /\ call' = [state |-> "sent", kind |-> call.kind, body |-> None]
  /\ UNCHANGED <<now, snapshot, reply, up>>

(* The request or the response is lost, times out or has another status.   *)
FetchFails ==
  /\ \/ call.state = "sent"
     \/ call.state = "answered" /\ call.body # None
  /\ call' = [state |-> "answered", kind |-> call.kind, body |-> None]
  /\ UNCHANGED <<now, snapshot, reply, up>>

Reply(kind, ok, value) ==
  /\ up /\ call.state = "answered" /\ call.kind = kind
  /\ reply' = [kind |-> kind, ok |-> ok, value |-> value, body |-> call.body,
               when |-> now]
  /\ call' = Idle
  /\ UNCHANGED <<now, snapshot, up>>

------------------------------------------------------------------------------
(* The scaler.                                                             *)

(* Mutant of IsActive: the header, as old as the response, decides.        *)
IsActiveByHeader ==
  LET body == call.body
  IN Reply("IsActive", body # None /\ ~body.stale, 0)

(* IsActive: inactive after an error or when the age of the decoded        *)
(* snapshot exceeds twice the lead time.                                   *)
IsActive ==
  LET body == call.body
  IN Reply("IsActive", body # None /\ now - body.at <= 2 * LeadTime, 0)

(* Mutant of LeadSteps: the window ends before the lead time's step.       *)
LeadStepsExclusive(body) ==
  LET steps == LeadTime \div (body.step * Second)
  IN IF steps > Len(body.desired) THEN Len(body.desired) - 1
     ELSE IF steps > 0 THEN steps - 1 ELSE 0

(* leadSteps of selectReplicasAtLeadTime, cut off at the last step.        *)
LeadSteps(body) ==
  LET steps == LeadTime \div (body.step * Second)
  IN IF steps >= Len(body.desired) THEN Len(body.desired) - 1 ELSE steps

(* The maximum of DesiredReplicas[0..leadSteps].                           *)
IsLeadMax(value, body) ==
  /\ \E i \in 0..LeadSteps(body) : value = body.desired[i + 1]
  /\ \A i \in 0..LeadSteps(body) : body.desired[i + 1] <= value

(* Mutant of GetMetrics: -1 stands for a missing forecast.                 *)
GetMetricsSentinel ==
  call.body = None /\ Reply("GetMetrics", TRUE, -1)

(* GetMetrics: an error without a forecast, 1 for a snapshot without a     *)
(* plan.  The age of the snapshot is logged and not looked at.             *)
GetMetrics ==
  LET body == call.body
  IN \/ body = None /\ Reply("GetMetrics", FALSE, 0)
     \/ body # None /\ body.desired = << >> /\ Reply("GetMetrics", TRUE, 1)
     \/ /\ body # None /\ body.desired # << >> /\ body.step > 0
        /\ \E i \in 1..Len(body.desired) :
             /\ IsLeadMax(body.desired[i], body)
             /\ Reply("GetMetrics", TRUE, body.desired[i])

(* A step of zero seconds divides by zero: the handler panics and, without *)
(* a recovering interceptor, takes the process down.                       *)
GetMetricsPanics ==
  /\ up /\ call.state = "answered" /\ call.kind = "GetMetrics"
  /\ call.body # None /\ call.body.desired # << >> /\ call.body.step = 0
  /\ up' = FALSE
  /\ call' = Idle
  /\ UNCHANGED <<now, snapshot, reply>>

(* The deployment restarts the process.                                    *)
Restart ==
  /\ ~up
  /\ up' = TRUE
  /\ UNCHANGED <<now, snapshot, call, reply>>

(* GetSnapshot of the MCP server's client: the header decides.             *)
GetSnapshot == Reply("GetSnapshot", call.body # None, 0)

Next ==
  \/ Publish \/ Drop \/ Advance
  \/ \E kind \in Kinds : Ask(kind)
  \/ Serve \/ FetchFails
  \/ IsActive \/ GetMetrics \/ GetMetricsPanics \/ Restart \/ GetSnapshot

Spec == Init /\ [][Next]_vars

(* Both processes keep running and every request has a timeout.            *)
FairSpec ==
  /\ Spec
  /\ WF_vars(Serve \/ FetchFails)
  /\ WF_vars(IsActive \/ GetMetrics \/ GetMetricsPanics \/ GetSnapshot)
  /\ WF_vars(Restart)

------------------------------------------------------------------------------

TypeOK ==
  /\ now \in 0..MaxTime
  /\ snapshot \in Snapshot \cup {None}
  /\ call \in [state : {"idle", "sent", "answered"}, kind : Kinds,
               body : Body \cup {None}]
  /\ reply \in [kind : Kinds \cup {"none"}, ok : BOOLEAN, value : Nat,
                body : Body \cup {None}, when : 0..MaxTime]
  /\ up \in BOOLEAN

(* The real age of the snapshot an answer is based on, when it was given.  *)
Age == reply.when - reply.body.exact

Answered(kind) == reply.kind = kind /\ reply.body # None

(* Active if and only if fresh: a snapshot declared active is at most      *)
(* twice the lead time old at the moment of the answer, however long the   *)
(* response travelled, and one declared inactive is older than that but    *)
(* for the fraction of a second that RFC3339 drops.                        *)
ActiveIffFresh ==
  Answered("IsActive") =>
    /\ reply.ok => Age <= 2 * LeadTime
    /\ ~reply.ok => Age > 2 * LeadTime - Second

(* The counts of the plan up to the one for time t, with the first one for *)
(* GeneratedAt as the scaler counts.  To the models the first one is for   *)
(* the time one step after the last row: as long as that row is at most a  *)
(* step older than GeneratedAt, their count for t is among these too.      *)
PlannedUntil(body, t) ==
  {body.desired[i] : i \in {j \in 1..Len(body.desired) :
     j <= (t - body.exact) \div (body.step * Second) + 1}}

(* The present is covered: GetMetrics never answers less than the plan     *)
(* says for the moment of the answer or a moment before it, as long as the *)
(* snapshot is not older than the lead time.                               *)
PresentCovered ==
  Answered("GetMetrics") /\ reply.body.step > 0 /\ Age <= LeadTime =>
    \A count \in PlannedUntil(reply.body, reply.when) : count <= reply.value

(* Every call is answered or lost with the process: KEDA is never left     *)
(* waiting.                                                                *)
CallsEnd == call.state # "idle" ~> call.state = "idle"
=============================================================================
