---------------------------- MODULE ScalerProofs ----------------------------
(***************************************************************************)
(* Proofs of the safety properties of the read path for every set of       *)
(* plans, every lead time and every threshold.  The inductive invariant    *)
(* says what a response and an answer remember of the snapshot they were   *)
(* made from: its rounded time, that it is not from the future, and which  *)
(* maximum was taken.                                                      *)
(***************************************************************************)
EXTENDS Scaler, TLAPS

(* A body that was made at some time up to t.                              *)
Faithful(body, t) ==
  body # None =>
    /\ body.at <= body.exact /\ body.exact < body.at + Second
    /\ body.exact <= t

AnswerFaithful ==
  /\ Faithful(reply.body, reply.when)
  /\ Answered("IsActive") => (reply.ok <=> reply.when - reply.body.at <= 2 * LeadTime)
  /\ Answered("GetMetrics") /\ reply.body.desired # << >> =>
       IsLeadMax(reply.value, reply.body)

Inv ==
  /\ TypeOK
  /\ snapshot # None => snapshot.at <= now
  /\ Faithful(call.body, now)
  /\ AnswerFaithful

------------------------------------------------------------------------------

(* Rounding down to a second loses less than a second.                     *)
LEMMA RFC3339Facts ==
  ASSUME NEW t \in 0..MaxTime
  PROVE  /\ RFC3339(t) \in 0..MaxTime
         /\ RFC3339(t) <= t /\ t < RFC3339(t) + Second
BY TimingAssumption DEF RFC3339

(* Division by the length of a step is monotone.                           *)
LEMMA DivMono ==
  ASSUME NEW a \in Nat, NEW b \in Nat, NEW s \in Nat \ {0}, a <= b
  PROVE  a \div s \in Nat /\ a \div s <= b \div s
<1> DEFINE q == a \div s
           r == b \div s
<1>1. q \in Nat /\ r \in Nat
  BY SMT
<1>2. s * q <= a /\ b < s * r + s
  BY SMT
<1>3. CASE q <= r
  BY <1>1, <1>3
<1>4. CASE q > r
  <2>1. PICK d \in Nat : q = r + 1 + d
    BY <1>1, <1>4, q - r - 1 \in Nat
  <2>2. s * q = s * r + s + s * d
    BY <1>1, <2>1
  <2>3. s * d >= 0
    BY <2>1
  <2>4. s * q \in Int /\ s * r \in Int /\ s * d \in Int
    BY <1>1, <2>1
  <2> HIDE DEF q, r
  <2> QED
    BY <1>2, <2>2, <2>3, <2>4
<1> QED
  BY <1>1, <1>3, <1>4

------------------------------------------------------------------------------

(* An answer of the right kind keeps the invariant.                        *)
LEMMA ReplyInv ==
  ASSUME Inv, NEW kind \in Kinds, NEW ok \in BOOLEAN, NEW value \in Nat,
         Reply(kind, ok, value),
         kind = "IsActive" /\ call.body # None =>
           (ok <=> now - call.body.at <= 2 * LeadTime),
         kind = "GetMetrics" /\ call.body # None /\ call.body.desired # << >> =>
           IsLeadMax(value, call.body)
  PROVE  Inv'
<1>1. TypeOK'
  BY DEF Inv, TypeOK, Reply, Idle, Kinds
<1>2. /\ reply'.kind = kind /\ reply'.ok = ok /\ reply'.value = value
      /\ reply'.body = call.body /\ reply'.when = now
      /\ call'.body = None /\ snapshot' = snapshot /\ now' = now
  BY DEF Reply, Idle
<1>3. AnswerFaithful'
  BY <1>2 DEF Inv, AnswerFaithful, Answered, Faithful, IsLeadMax, LeadSteps
<1> QED
  BY <1>1, <1>2, <1>3 DEF Inv, Faithful

(* Every step keeps the invariant.                                         *)
LEMMA StepInv ==
  ASSUME Inv, [Next]_vars
  PROVE  Inv'
<1> USE TimingAssumption
<1>1. CASE Publish
  <2>1. PICK at \in 0..now, step \in StepSeconds, desired \in Plans :
          snapshot' = [at |-> at, step |-> step, desired |-> desired]
    BY <1>1 DEF Publish
  <2>2. snapshot' \in Snapshot /\ snapshot'.at <= now
    BY <2>1 DEF Inv, TypeOK, Snapshot
  <2> QED
    BY <1>1, <2>2 DEF Publish, Inv, TypeOK, AnswerFaithful, Answered, Faithful,
                      IsLeadMax, LeadSteps
<1>2. CASE Drop
  BY <1>2 DEF Drop, Inv, TypeOK, AnswerFaithful, Answered, Faithful, IsLeadMax, LeadSteps
<1>3. CASE Advance
  <2>1. now' \in 0..MaxTime /\ now' = now + 1 /\ UNCHANGED <<snapshot, call, reply, up>>
    BY <1>3 DEF Advance, Inv, TypeOK
  <2>2. TypeOK'
    BY <2>1 DEF Inv, TypeOK
  <2>3. snapshot' # None => snapshot'.at <= now'
    BY <2>1 DEF Inv, TypeOK, Snapshot
  <2>4. Faithful(call.body, now)'
    BY <2>1 DEF Inv, TypeOK, Faithful, Body
  <2>5. AnswerFaithful'
    BY <2>1 DEF Inv, AnswerFaithful, Answered, Faithful, IsLeadMax, LeadSteps
  <2> QED
    BY <2>2, <2>3, <2>4, <2>5 DEF Inv
<1>4. ASSUME NEW kind \in Kinds, Ask(kind)
      PROVE  Inv'
  <2>1. call'.body = None /\ reply' = NoReply /\ UNCHANGED <<now, snapshot, up>>
    BY <1>4 DEF Ask
  <2>2. TypeOK'
    BY <1>4 DEF Ask, Inv, TypeOK, NoReply
  <2> QED
    BY <2>1, <2>2 DEF Inv, AnswerFaithful, Answered, Faithful, NoReply
<1>5. CASE Serve
  <2>1. CASE snapshot = None
    BY <1>5, <2>1 DEF Serve, Inv, TypeOK, AnswerFaithful, Answered, Faithful,
                      IsLeadMax, LeadSteps
  <2>2. CASE snapshot # None
    <3> DEFINE body == [at |-> RFC3339(snapshot.at), exact |-> snapshot.at,
                        step |-> snapshot.step, desired |-> snapshot.desired,
                        stale |-> now - snapshot.at > StaleAfter]
    <3>1. snapshot \in Snapshot /\ now \in 0..MaxTime /\ snapshot.at <= now
      BY <2>2 DEF Inv, TypeOK
    <3>2. body \in Body
      BY <3>1, RFC3339Facts DEF Snapshot, Body
    <3>3. Faithful(body, now)
      BY <3>1, RFC3339Facts DEF Snapshot, Faithful
    <3>4. call' = [state |-> "answered", kind |-> call.kind, body |-> body]
      BY <1>5, <2>2 DEF Serve
    <3> HIDE DEF body
    <3>5. TypeOK' /\ call'.body = body
      BY <1>5, <3>2, <3>4 DEF Serve, Inv, TypeOK
    <3>6. AnswerFaithful'
      BY <1>5 DEF Serve, Inv, AnswerFaithful, Answered, Faithful, IsLeadMax, LeadSteps
    <3> QED
      BY <1>5, <3>1, <3>3, <3>5, <3>6 DEF Serve, Inv, Faithful
  <2> QED
    BY <2>1, <2>2
<1>6. CASE FetchFails
  BY <1>6 DEF FetchFails, Inv, TypeOK, AnswerFaithful, Answered, Faithful,
              IsLeadMax, LeadSteps
<1>7. CASE IsActive
  <2> DEFINE ok == call.body # None /\ now - call.body.at <= 2 * LeadTime
  <2>1. Reply("IsActive", ok, 0)
    BY <1>7 DEF IsActive
  <2>2. ok \in BOOLEAN
    OBVIOUS
  <2> QED
    BY <2>1, <2>2, ReplyInv DEF Kinds
<1>8. CASE GetMetrics
  <2>1. CASE call.body = None /\ Reply("GetMetrics", FALSE, 0)
    BY <2>1, ReplyInv DEF Kinds
  <2>2. CASE call.body # None /\ call.body.desired = << >> /\ Reply("GetMetrics", TRUE, 1)
    BY <2>2, ReplyInv DEF Kinds
  <2>3. CASE /\ call.body # None /\ call.body.desired # << >>
             /\ \E i \in 1..Len(call.body.desired) :
                  /\ IsLeadMax(call.body.desired[i], call.body)
                  /\ Reply("GetMetrics", TRUE, call.body.desired[i])
    <3>1. PICK i \in 1..Len(call.body.desired) :
            /\ IsLeadMax(call.body.desired[i], call.body)
            /\ Reply("GetMetrics", TRUE, call.body.desired[i])
      BY <2>3
    <3>2. call.body.desired \in Seq(Nat)
      BY <2>3, PlansAssumption DEF Inv, TypeOK, Body
    <3>3. call.body.desired[i] \in Nat
      BY <3>1, <3>2
    <3> QED
      BY <3>1, <3>3, ReplyInv DEF Kinds
  <2> QED
    BY <1>8, <2>1, <2>2, <2>3 DEF GetMetrics
<1>9. CASE GetMetricsPanics
  BY <1>9 DEF GetMetricsPanics, Inv, TypeOK, AnswerFaithful, Answered, Faithful,
              IsLeadMax, LeadSteps, Idle, Kinds
<1>10. CASE Restart
  BY <1>10 DEF Restart, Inv, TypeOK, AnswerFaithful, Answered, Faithful,
               IsLeadMax, LeadSteps
<1>11. CASE GetSnapshot
  <2>1. Reply("GetSnapshot", call.body # None, 0)
    BY <1>11 DEF GetSnapshot
  <2>2. (call.body # None) \in BOOLEAN
    OBVIOUS
  <2> QED
    BY <2>1, <2>2, ReplyInv DEF Kinds
<1>12. CASE UNCHANGED vars
  BY <1>12 DEF vars, Inv, TypeOK, AnswerFaithful, Answered, Faithful, IsLeadMax, LeadSteps
<1> QED
  BY <1>1, <1>2, <1>3, <1>4, <1>5, <1>6, <1>7, <1>8, <1>9, <1>10, <1>11, <1>12
     DEF Next

(* The invariant holds throughout.                                         *)
LEMMA AlwaysInv == Spec => []Inv
<1>1. Init => Inv
  BY TimingAssumption
     DEF Init, Inv, TypeOK, AnswerFaithful, Answered, Faithful, Idle, NoReply, Kinds
<1> QED
  BY <1>1, StepInv, PTL DEF Spec

------------------------------------------------------------------------------

(* Type correctness of the read path (scaler.go, router.go, client).       *)
THEOREM ScalerTypeOK == Spec => []TypeOK
<1>1. Inv => TypeOK
  BY DEF Inv
<1> QED
  BY <1>1, AlwaysInv, PTL

(* IsActive of scaler.go answers by the real age of the snapshot, up to    *)
(* the second that the handler's RFC3339 drops, for every lead time and    *)
(* every delay of the response.                                            *)
THEOREM ScalerActiveIffFresh == Spec => []ActiveIffFresh
<1>1. Inv => ActiveIffFresh
  BY TimingAssumption
     DEF Inv, TypeOK, AnswerFaithful, Answered, Faithful, ActiveIffFresh, Age, Body
<1> QED
  BY <1>1, AlwaysInv, PTL

(* GetMetrics never answers less than the plan's count for the moment of   *)
(* the answer, or for an earlier one, while the snapshot is not older than *)
(* the lead time.                                                          *)
THEOREM ScalerPresentCovered == Spec => []PresentCovered
<1>1. ASSUME Inv
      PROVE  PresentCovered
  <2> SUFFICES ASSUME Answered("GetMetrics"), reply.body.step > 0, Age <= LeadTime,
                      NEW count \in PlannedUntil(reply.body, reply.when)
               PROVE  count <= reply.value
    BY DEF PresentCovered
  <2> DEFINE body == reply.body
             size == body.step * Second
  <2>1. /\ body \in Body /\ body # None /\ reply.when \in 0..MaxTime
        /\ body.exact <= reply.when
    BY <1>1 DEF Inv, TypeOK, Answered, AnswerFaithful, Faithful
  <2>2. body.desired \in Seq(Nat) /\ body.step \in Nat \ {0} /\ body.exact \in Nat
    <3>1. body.desired \in Plans /\ body.step \in StepSeconds /\ body.exact \in 0..MaxTime
      BY <2>1 DEF Body
    <3>2. body.step > 0
      OBVIOUS
    <3>3. body.desired \in Seq(Nat)
      BY <3>1, PlansAssumption, Zenon
    <3>4. StepSeconds \subseteq Nat /\ MaxTime \in Nat
      BY TimingAssumption
    <3>5. body.step \in Nat
      BY <3>1, <3>4, Zenon
    <3> HIDE DEF body
    <3>6. body.step \in Nat \ {0}
      BY <3>2, <3>5
    <3>7. body.exact \in Nat
      BY <3>1, <3>4
    <3> QED
      BY <3>3, <3>6, <3>7
  <2>3. size \in Nat \ {0}
    BY <2>2, TimingAssumption
  <2>4. PICK j \in 1..Len(body.desired) :
          /\ j <= (reply.when - body.exact) \div size + 1
          /\ count = body.desired[j]
    BY DEF PlannedUntil
  <2> HIDE DEF size
  <2>5. /\ (reply.when - body.exact) \div size \in Nat
        /\ (reply.when - body.exact) \div size <= LeadTime \div size
    <3>1. reply.when - body.exact \in Nat /\ reply.when - body.exact <= LeadTime
      BY <2>1, <2>2 DEF Age
    <3> QED
      BY <3>1, <2>3, DivMono, TimingAssumption
  <2>6. LeadTime \div size \in Nat
    BY <2>3, DivMono, TimingAssumption
  <2>7. LeadSteps(body) = IF LeadTime \div size >= Len(body.desired)
                          THEN Len(body.desired) - 1 ELSE LeadTime \div size
    BY DEF LeadSteps, size
  <2>8. j - 1 \in 0..LeadSteps(body)
    <3> DEFINE age == (reply.when - body.exact) \div size
               lead == LeadTime \div size
               len == Len(body.desired)
    <3>1. len \in Nat
      BY <2>2
    <3>2. LeadSteps(body) = IF lead >= len THEN len - 1 ELSE lead
      BY <2>7
    <3>3. age <= lead /\ lead \in Nat /\ j \in 1..len /\ j <= age + 1 /\ age \in Nat
      BY <2>4, <2>5, <2>6
    <3> HIDE DEF age, lead, len
    <3> QED
      BY <3>1, <3>2, <3>3
  <2>9. body.desired # << >>
    BY <2>2, <2>4
  <2>10. IsLeadMax(reply.value, body)
    BY <1>1, <2>9 DEF Inv, AnswerFaithful
  <2>11. body.desired[(j - 1) + 1] <= reply.value
    BY <2>8, <2>10 DEF IsLeadMax
  <2> QED
    BY <2>4, <2>11
<1> QED
  BY <1>1, AlwaysInv, PTL
=============================================================================
