------------------------- MODULE MultiForecasterProofs -------------------------
(***************************************************************************)
(* The inductive invariant of MultiForecaster, the proofs that the steps   *)
(* of the manager (Upsert, Remove, Start, Run, shutdown), of the clock and *)
(* of the loops preserve it, and the theorems it gives.                    *)
(***************************************************************************)
EXTENDS MultiForecaster, TLAPS

(* The registry: entries are filed under the workload of their loop, and   *)
(* after Start exactly the registered loops can be in a live context.      *)
Registry ==
  /\ baseDone => started
  /\ \A n \in Names : running[n] # None =>
       owner[running[n]] = n /\ pc[running[n]] # "unbuilt"
  /\ \A l \in Loops : Launched(l) => started
  /\ \A l \in Loops : started /\ running[owner[l]] = l => Launched(l)

(* The contexts: a live context belongs to a registered loop, ends with    *)
(* the base context, and is cancelled at a time that has passed.           *)
Contexts ==
  /\ \A l \in Loops : Launched(l) /\ Live(l) => running[owner[l]] = l
  /\ \A l \in Loops : baseDone /\ Launched(l) => ~Live(l)
  /\ \A l \in Loops : ~Launched(l) => Live(l)
  /\ \A l \in Loops : Live(l) \/ cancelledAt[l] <= now

(* The counts the planner starts from are within the policy's bounds.      *)
Counts ==
  \A l \in Loops : currentReplicas[l] \in policy[l].MinReplicas..policy[l].MaxReplicas

(* A tick that has built its snapshot: it is the loop's own and not from   *)
(* the future, once the context test of Put has passed it is not from      *)
(* after the cancellation, and if the loop is the registered one then      *)
(* every other loop of the workload was cancelled before it was generated. *)
Holding(l) == pc[l] \in {"put", "write"}

Drafts ==
  \A l \in Loops : Holding(l) =>
    /\ draft[l] \in Snapshot /\ draft[l].by = l /\ draft[l].at <= now
    /\ pc[l] = "write" => draft[l].at <= cancelledAt[l]
    /\ running[owner[l]] = l =>
         \A k \in Loops : k # l /\ owner[k] = owner[l] /\ Launched(k) =>
           cancelledAt[k] <= draft[l].at

(* The store: a snapshot was made by a loop of its workload, not after the *)
(* loop's cancellation, and before the one its loop is holding now.        *)
Stored ==
  \A n \in Names : snapshots[n] # None =>
    LET s == snapshots[n] IN
      /\ owner[s.by] = n /\ Launched(s.by)
      /\ s.at <= now /\ s.at <= cancelledAt[s.by]
      /\ Holding(s.by) => s.at <= draft[s.by].at

(* Run waits for the goroutines after the base context has ended, and when *)
(* it has returned none is past its collection.                            *)
Quiet ==
  /\ runner \notin {"idle", "checked", "blocked"} => baseDone
  /\ runner = "returned" => \A l \in Loops : pc[l] \notin {"forecast", "put", "write"}

Inv == TypeOK /\ Registry /\ Contexts /\ Counts /\ Drafts /\ Stored /\ Quiet

------------------------------------------------------------------------------

(* No time is later than Never.                                            *)
LEMMA NeverFacts == Never \in Nat /\ \A t \in Time : t \in Nat /\ t < Never
BY TimeAssumption DEF Never, Time

(* The initial states satisfy the invariant.                               *)
LEMMA InitInv == Init => Inv
<1> SUFFICES ASSUME Init PROVE Inv
  OBVIOUS
<1>1. TypeOK
  <2>1. currentReplicas \in [Loops -> Nat]
    BY PolicyAssumption DEF Init, ValidPolicy
  <2>2. now \in Time /\ Never \in Time \cup {Never}
    BY TimeAssumption DEF Init, Time
  <2> QED
    BY Zenon, <2>1, <2>2 DEF Init, TypeOK
<1>2. Counts
  <2> SUFFICES ASSUME NEW l \in Loops
               PROVE  policy[l].MinReplicas \in
                        policy[l].MinReplicas..policy[l].MaxReplicas
    BY DEF Init, Counts
  <2>1. policy[l] \in Policies
    BY DEF Init
  <2> QED
    BY <2>1, PolicyAssumption DEF ValidPolicy
<1>3. Registry /\ Contexts
  BY DEF Init, Registry, Contexts, Launched, Live
<1>4. Drafts /\ Stored /\ Quiet
  BY DEF Init, Drafts, Stored, Quiet, Holding
<1> QED
  BY <1>1, <1>2, <1>3, <1>4 DEF Inv
------------------------------------------------------------------------------

(* Upsert: the replaced loop is cancelled in the step that registers the   *)
(* new one, whether or not the launch panics.                              *)
LEMMA UpsertInv ==
  ASSUME Inv, NEW l \in Loops, Upsert(l) \/ UpsertPanics(l)
  PROVE  Inv'
<1> USE NeverFacts, NoneAssumption DEF Inv, Register, mfVars, wfVars, Cancel
<1>0. /\ pc[l] = "unbuilt" /\ Register(l)
      /\ \E at \in {"registered", "collect", "done"} :
           /\ pc' = [pc EXCEPT ![l] = at]
           /\ at = "registered" <=> ~started
      /\ \/ runner' = runner
         \/ baseDone /\ runner' \in {"reused", "panicked"}
      /\ UNCHANGED <<started, baseDone, deleting, wfVars, currentReplicas, draft,
                     snapshots, now>>
  BY DEF Upsert, UpsertPanics, Quiet, Registry
<1> USE <1>0
<1>1. TypeOK'
  BY DEF TypeOK
<1>2. Registry'
  BY DEF TypeOK, Registry, Launched
<1>3. Contexts'
  BY DEF TypeOK, Registry, Contexts, Launched, Live
<1>4. Counts'
  BY DEF TypeOK, Counts
<1>5. Drafts'
  BY DEF TypeOK, Registry, Contexts, Drafts, Launched, Live, Holding
<1>6. Stored'
  BY DEF TypeOK, Registry, Contexts, Drafts, Stored, Launched, Live, Holding,
         Snapshot, Time
<1>7. Quiet'
  BY DEF TypeOK, Contexts, Quiet, Launched, Live
<1> QED
  BY <1>1, <1>2, <1>3, <1>4, <1>5, <1>6, <1>7

(* A step of the manager that touches neither registrations nor loops may  *)
(* drop snapshots, and may let Run return when nothing is active.          *)
LEMMA FrameInv ==
  ASSUME Inv, TypeOK', started' = started, baseDone' = baseDone,
         running' = running, owner' = owner, policy' = policy,
         currentReplicas' = currentReplicas, pc' = pc,
         cancelledAt' = cancelledAt, draft' = draft, now' = now,
         \A n \in Names : snapshots'[n] \in {snapshots[n], None},
         runner' \in {"idle", "checked", "blocked"} \/ baseDone,
         runner' = "returned" =>
           runner = "returned" \/ \A l \in Loops : ~Active(l)
  PROVE  Inv'
<1> USE DEF Inv
<1>1. Registry' /\ Contexts'
  BY DEF Registry, Contexts, Launched, Live
<1>2. Counts' /\ Drafts'
  BY DEF Counts, Drafts, Launched, Holding
<1>3. Stored'
  BY DEF Stored, Launched, Holding
<1>4. Quiet'
  BY Zenon DEF Quiet, Active, Launched
<1> QED
  BY <1>1, <1>2, <1>3, <1>4

(* The emptiness test of Run changes nothing the invariant is about.       *)
LEMMA RunCheckInv ==
  ASSUME Inv, RunCheck
  PROVE  Inv'
<1>1. TypeOK'
  BY Zenon DEF Inv, TypeOK, RunCheck, wfVars, loopVars
<1> QED
  BY <1>1, FrameInv DEF Inv, TypeOK, RunCheck, wfVars, loopVars

(* Delete only empties an entry of the store.                              *)
LEMMA DeleteInv ==
  ASSUME Inv, NEW n \in Names, Delete(n)
  PROVE  Inv'
<1>1. TypeOK'
  BY DEF Inv, TypeOK, Delete, wfVars, loopVars
<1> QED
  BY <1>1, FrameInv DEF Inv, TypeOK, Quiet, Delete, wfVars, loopVars

(* Run waits, and returns when no goroutine is left.                       *)
LEMMA RunEndingInv ==
  ASSUME Inv, RunEnding
  PROVE  Inv'
<1>1. /\ baseDone /\ runner' \in {"waiting", "releasing", "woken", "returned", "panicked"}
      /\ RunnerTo(runner')
      /\ runner' = "returned" => \A l \in Loops : ~Active(l)
  BY DEF Inv, Quiet, RunEnding, RunWait, LastDone, Release, RunReturn, RunnerTo
<1>2. TypeOK'
  BY <1>1 DEF Inv, TypeOK, RunnerTo, wfVars, loopVars
<1> QED
  BY <1>1, <1>2, FrameInv DEF Inv, TypeOK, RunnerTo, wfVars, loopVars

(* Start launches the registered loops, all of which have a live context.  *)
LEMMA StartInv ==
  ASSUME Inv, Start
  PROVE  Inv'
<1> USE NeverFacts, NoneAssumption DEF Inv, Start, wfVars
<1>1. TypeOK'
  BY DEF TypeOK
<1>2. Registry'
  BY DEF TypeOK, Registry, Launched
<1>3. Contexts'
  BY DEF TypeOK, Registry, Contexts, Launched, Live
<1>4. Counts'
  BY DEF TypeOK, Counts
<1>5. Drafts'
  BY Zenon DEF TypeOK, Registry, Contexts, Drafts, Launched, Live, Holding
<1>6. Stored'
  BY DEF TypeOK, Registry, Contexts, Drafts, Stored, Launched, Live, Holding,
         Snapshot, Time
<1>7. Quiet'
  BY DEF TypeOK, Contexts, Quiet, Launched, Live
<1> QED
  BY <1>1, <1>2, <1>3, <1>4, <1>5, <1>6, <1>7

(* Remove cancels the loop it unregisters.                                 *)
LEMMA RemoveInv ==
  ASSUME Inv, NEW n \in Names, Remove(n)
  PROVE  Inv'
<1> USE NeverFacts, NoneAssumption DEF Inv, Remove, wfVars, Cancel
<1>1. TypeOK'
  BY DEF TypeOK
<1>2. Registry'
  BY DEF TypeOK, Registry, Launched
<1>3. Contexts'
  BY DEF TypeOK, Registry, Contexts, Launched, Live
<1>4. Counts'
  BY Zenon DEF TypeOK, Counts
<1>5. Drafts'
  BY DEF TypeOK, Registry, Contexts, Drafts, Launched, Live, Holding
<1>6. Stored'
  BY DEF TypeOK, Registry, Contexts, Drafts, Stored, Launched, Live, Holding,
         Snapshot, Time
<1>7. Quiet'
  BY DEF TypeOK, Contexts, Quiet, Launched, Live
<1> QED
  BY <1>1, <1>2, <1>3, <1>4, <1>5, <1>6, <1>7

(* Shutdown cancels every context at once.                                 *)
LEMMA ShutdownInv ==
  ASSUME Inv, Shutdown
  PROVE  Inv'
<1> USE NeverFacts, NoneAssumption DEF Inv, Shutdown, wfVars, Cancel
<1>1. TypeOK'
  BY DEF TypeOK
<1>2. Registry'
  BY DEF TypeOK, Registry, Launched
<1>3. Contexts'
  BY DEF TypeOK, Registry, Contexts, Launched, Live
<1>4. Counts'
  BY Zenon DEF TypeOK, Counts
<1>5. Drafts'
  BY DEF TypeOK, Registry, Contexts, Drafts, Launched, Live, Holding
<1>6. Stored'
  <2>1. \A l \in Loops : cancelledAt'[l] \in {cancelledAt[l], now}
    BY DEF TypeOK
  <2>2. UNCHANGED <<owner, pc, draft, snapshots, now>>
    BY Zenon
  <2>3. \A n \in Names : snapshots[n] # None => snapshots[n].by \in Loops
    BY DEF TypeOK, Snapshot
  <2>4. Stored
    BY Zenon
  <2> HIDE DEF Inv, Shutdown, Cancel
  <2> QED
    BY <2>1, <2>2, <2>3, <2>4 DEF Stored, Launched, Holding
<1>7. Quiet'
  BY DEF TypeOK, Contexts, Quiet, Launched, Live
<1> QED
  BY <1>1, <1>2, <1>3, <1>4, <1>5, <1>6, <1>7

(* Time only moves forward.                                                *)
LEMMA AdvanceInv ==
  ASSUME Inv, Advance
  PROVE  Inv'
<1> USE NeverFacts, NoneAssumption DEF Inv, mfVars, wfVars, loopVars
<1>1. TypeOK'
  BY TimeAssumption DEF Advance, TypeOK, Time
<1>2. Registry'
  BY Zenon DEF Advance, TypeOK, Registry, Launched
<1>3. Contexts'
  BY DEF Advance, TypeOK, Registry, Contexts, Launched, Live, Time
<1>4. Counts'
  BY DEF Advance, TypeOK, Counts
<1>5. now \in Nat /\ now' = now + 1
  BY DEF Advance, TypeOK
<1>6. \A s \in Snapshot : s.at <= now => s.at <= now'
  BY <1>5 DEF Snapshot
<1>7. Drafts'
  <2>1. /\ pc' = pc /\ draft' = draft /\ cancelledAt' = cancelledAt
        /\ running' = running /\ owner' = owner
    BY Zenon DEF Advance
  <2> QED
    BY <1>6, <2>1 DEF Drafts, Holding, Launched
<1>8. Stored'
  <2>1. /\ pc' = pc /\ draft' = draft /\ cancelledAt' = cancelledAt
        /\ snapshots' = snapshots /\ owner' = owner
    BY DEF Advance
  <2>2. \A n \in Names : snapshots[n] # None => snapshots[n] \in Snapshot
    BY Zenon DEF TypeOK
  <2> QED
    BY <1>6, <2>1, <2>2 DEF Stored, Holding, Launched
<1>9. Quiet'
  BY Zenon DEF Advance, TypeOK, Contexts, Quiet, Launched, Live
<1> QED
  BY Zenon, <1>1, <1>2, <1>3, <1>4, <1>7, <1>8, <1>9

------------------------------------------------------------------------------
(* The steps of a loop.                                                    *)

(* A goroutine that moves on and leaves the store alone: it may hold only  *)
(* the snapshot it held before, and it gets past the collection or past    *)
(* the context test of Put only in a live context.                         *)
LEMMA MoveInv ==
  ASSUME Inv, NEW l \in Loops, TypeOK', Launched(l), Launched(l)',
         started' = started, baseDone' = baseDone, running' = running,
         runner' = runner, owner' = owner, policy' = policy,
         currentReplicas' = currentReplicas, cancelledAt' = cancelledAt,
         snapshots' = snapshots, now' = now,
         \A k \in Loops : k # l => pc'[k] = pc[k] /\ draft'[k] = draft[k],
         Holding(l)' => Holding(l) /\ draft'[l] = draft[l],
         pc'[l] = "write" => pc[l] = "write" \/ Live(l),
         pc'[l] \in {"forecast", "put", "write"} =>
           pc[l] \in {"forecast", "put", "write"} \/ Live(l)
  PROVE  Inv'
<1> USE DEF Inv
<1>1. \A k \in Loops : /\ Launched(k)' <=> Launched(k)
                       /\ Live(k)' <=> Live(k)
                       /\ Holding(k)' => Holding(k) /\ draft'[k] = draft[k]
  BY Zenon DEF Launched, Live, Holding
<1>2. Registry'
  <2>1. \A k \in Loops : pc[k] # "unbuilt" => pc'[k] # "unbuilt"
    BY Zenon DEF Launched
  <2>2. \A n \in Names : running[n] # None => running[n] \in Loops
    BY Zenon DEF TypeOK
  <2> QED
    BY Zenon, <1>1, <2>1, <2>2 DEF Registry
<1>3. Contexts'
  BY Zenon, <1>1 DEF Contexts
<1>4. Counts'
  BY Zenon DEF Counts
<1>5. Drafts'
  <2> SUFFICES ASSUME NEW k \in Loops, Holding(k)'
               PROVE  /\ draft'[k] \in Snapshot /\ draft'[k].by = k
                      /\ draft'[k].at <= now
                      /\ pc'[k] = "write" => draft'[k].at <= cancelledAt[k]
                      /\ running[owner[k]] = k =>
                           \A m \in Loops : m # k /\ owner[m] = owner[k] /\ Launched(m)'
                             => cancelledAt[m] <= draft'[k].at
    BY Zenon DEF Drafts
  <2>1. Holding(k) /\ draft'[k] = draft[k]
    BY Zenon, <1>1
  <2>2. /\ draft[k] \in Snapshot /\ draft[k].by = k /\ draft[k].at <= now
        /\ pc[k] = "write" => draft[k].at <= cancelledAt[k]
        /\ running[owner[k]] = k =>
             \A m \in Loops : m # k /\ owner[m] = owner[k] /\ Launched(m) =>
               cancelledAt[m] <= draft[k].at
    BY Zenon, <2>1 DEF Drafts
  <2>3. ASSUME pc'[k] = "write" PROVE draft[k].at <= cancelledAt[k]
    <3>1. pc[k] = "write" \/ Live(k)
      BY Zenon, <2>3
    <3>2. draft[k].at \in Time
      BY Zenon, <2>2 DEF Snapshot
    <3>3. Live(k) => draft[k].at <= cancelledAt[k]
      BY <3>2, NeverFacts DEF Live
    <3> QED
      BY Zenon, <2>2, <3>1, <3>3
  <2> QED
    BY Zenon, <1>1, <2>1, <2>2, <2>3
<1>6. Stored'
  <2> SUFFICES ASSUME NEW n \in Names, snapshots[n] # None
               PROVE  /\ owner[snapshots[n].by] = n /\ Launched(snapshots[n].by)'
                      /\ snapshots[n].at <= now
                      /\ snapshots[n].at <= cancelledAt[snapshots[n].by]
                      /\ Holding(snapshots[n].by)' =>
                           snapshots[n].at <= draft'[snapshots[n].by].at
    BY Zenon DEF Stored, Launched, Holding
  <2>1. snapshots[n].by \in Loops
    BY Zenon DEF TypeOK, Snapshot
  <2>2. /\ owner[snapshots[n].by] = n /\ Launched(snapshots[n].by)
        /\ snapshots[n].at <= now
        /\ snapshots[n].at <= cancelledAt[snapshots[n].by]
        /\ Holding(snapshots[n].by) => snapshots[n].at <= draft[snapshots[n].by].at
    BY Zenon DEF Stored
  <2>3. Launched(snapshots[n].by)'
    BY Zenon, <1>1, <2>1, <2>2 DEF Launched
  <2>4. Holding(snapshots[n].by)' =>
          /\ Holding(snapshots[n].by)
          /\ draft'[snapshots[n].by] = draft[snapshots[n].by]
    BY Zenon, <1>1, <2>1 DEF Holding
  <2> QED
    BY Zenon, <2>2, <2>3, <2>4
<1>7. Quiet'
  BY Zenon DEF Quiet, Contexts
<1> QED
  BY Zenon, <1>2, <1>3, <1>4, <1>5, <1>6, <1>7

(* The steps of a goroutine that leave the store alone and build no        *)
(* snapshot: a collection succeeds and the context test of Put is passed   *)
(* only in a live context, a failed tick drops its snapshot, a panic and   *)
(* the end of the loop leave its registration.                             *)
Moves(l) ==
  Collect(l) \/ PutCheck(l) \/ TickFails(l) \/ Panic(l) \/ Fire(l) \/ Stop(l)

(* What each of those steps changes.                                       *)
LEMMA MovesFacts ==
  ASSUME Inv, NEW l \in Loops, Moves(l)
  PROVE  /\ UNCHANGED <<mfVars, wfVars, currentReplicas, cancelledAt, snapshots, now>>
         /\ \E to \in {"forecast", "write", "wait", "collect", "done"} :
              /\ pc[l] \in {"collect", "forecast", "put", "wait"}
              /\ pc' = [pc EXCEPT ![l] = to]
              /\ to = "forecast" => Live(l)
              /\ to = "write" => pc[l] = "put" /\ Live(l) /\ draft' = draft
              /\ to = "wait" /\ pc[l] = "put" => Faulty \/ ~Live(l)
              /\ to = "wait" => draft' = [draft EXCEPT ![l] = None]
              /\ to # "wait" => draft' = draft /\ (to = "write" \/ pc[l] # "put")
<1>1. CASE Collect(l) \/ PutCheck(l)
  BY Zenon, <1>1 DEF Collect, PutCheck, Goto
<1>2. CASE TickFails(l) \/ Panic(l)
  BY Zenon, <1>2 DEF TickFails, Panic, Goto
<1>3. CASE Fire(l) \/ Stop(l)
  BY Zenon, <1>3 DEF Fire, Stop, Goto
<1> QED
  BY Zenon, <1>1, <1>2, <1>3 DEF Moves

(* Those steps preserve the invariant.                                     *)
LEMMA MovesInv ==
  ASSUME Inv, NEW l \in Loops, Moves(l)
  PROVE  Inv'
<1>1. PICK to \in {"forecast", "write", "wait", "collect", "done"} :
        /\ pc[l] \in {"collect", "forecast", "put", "wait"}
        /\ pc' = [pc EXCEPT ![l] = to]
        /\ to = "forecast" => Live(l)
        /\ to = "write" => pc[l] = "put" /\ Live(l) /\ draft' = draft
        /\ draft' = draft \/ draft' = [draft EXCEPT ![l] = None]
  BY MovesFacts
<1>2. UNCHANGED <<mfVars, wfVars, currentReplicas, cancelledAt, snapshots, now>>
  BY Zenon, MovesFacts
<1> USE DEF mfVars, wfVars
<1>3. TypeOK'
  BY Zenon, <1>1, <1>2 DEF Inv, TypeOK
<1>4. Launched(l) /\ Launched(l)'
  BY Zenon, <1>1 DEF Inv, TypeOK, Launched
<1>5. /\ \A k \in Loops : k # l => pc'[k] = pc[k] /\ draft'[k] = draft[k]
      /\ Holding(l)' => Holding(l) /\ draft'[l] = draft[l]
      /\ pc'[l] = "write" => pc[l] = "write" \/ Live(l)
      /\ pc'[l] \in {"forecast", "put", "write"} =>
           pc[l] \in {"forecast", "put", "write"} \/ Live(l)
  BY <1>1 DEF Inv, TypeOK, Holding
<1> QED
  BY <1>2, <1>3, <1>4, <1>5, MoveInv

(* The write replaces the entry of the loop's own workload.                *)
LEMMA PutWriteInv ==
  ASSUME Inv, NEW l \in Loops, PutWrite(l)
  PROVE  Inv'
<1> USE NeverFacts, NoneAssumption DEF Inv
<1>1. /\ pc[l] = "write" /\ pc' = [pc EXCEPT ![l] = "wait"]
      /\ snapshots' = [snapshots EXCEPT ![owner[l]] = draft[l]]
      /\ draft' = [draft EXCEPT ![l] = None]
      /\ started' = started /\ baseDone' = baseDone /\ running' = running
      /\ deleting' = deleting /\ runner' = runner
      /\ owner' = owner /\ policy' = policy
      /\ currentReplicas' = currentReplicas
      /\ cancelledAt' = cancelledAt /\ now' = now
  BY Zenon DEF PutWrite, Goto, mfVars, wfVars
<1>2. TypeOK'
  BY Zenon, <1>1 DEF TypeOK
<1>3. \A k \in Loops : /\ Launched(k)' <=> Launched(k)
                       /\ Live(k)' <=> Live(k)
                       /\ Holding(k)' => /\ k # l /\ Holding(k)
                                         /\ pc'[k] = pc[k] /\ draft'[k] = draft[k]
  BY Zenon, <1>1 DEF TypeOK, Launched, Live, Holding
<1>4. Registry'
  BY <1>1, <1>3 DEF TypeOK, Registry
<1>5. Contexts'
  BY Zenon, <1>1, <1>3 DEF Contexts
<1>6. Counts'
  BY Zenon, <1>1 DEF Counts
<1>7. Drafts'
  BY Zenon, <1>1, <1>3 DEF Drafts
<1>8. Stored'
  <2>1. /\ draft[l] \in Snapshot /\ draft[l].by = l /\ draft[l].at <= now
        /\ draft[l].at <= cancelledAt[l] /\ Launched(l) /\ ~Holding(l)'
    BY Zenon, <1>1, <1>3 DEF Drafts, Holding, Launched
  <2>2. \A n \in Names : snapshots'[n] =
                         IF n = owner[l] THEN draft[l] ELSE snapshots[n]
    BY Zenon, <1>1 DEF TypeOK
  <2>3. \A n \in Names : snapshots[n] # None => snapshots[n].by \in Loops
    BY Zenon DEF TypeOK, Snapshot
  <2>4. ASSUME NEW n \in Names, snapshots'[n] # None
        PROVE  /\ owner[snapshots'[n].by] = n
               /\ pc'[snapshots'[n].by] \notin {"unbuilt", "registered"}
               /\ snapshots'[n].at <= now
               /\ snapshots'[n].at <= cancelledAt[snapshots'[n].by]
               /\ pc'[snapshots'[n].by] \in {"put", "write"} =>
                    snapshots'[n].at <= draft'[snapshots'[n].by].at
    <3>1. CASE n = owner[l]
      BY Zenon, <1>3, <2>1, <2>2, <3>1 DEF Launched, Holding
    <3>2. CASE n # owner[l]
      <4>1. snapshots'[n] = snapshots[n] /\ snapshots[n].by \in Loops
        BY Zenon, <2>2, <2>3, <2>4, <3>2
      <4> QED
        BY <1>3, <2>4, <4>1 DEF Stored, Launched, Holding
    <3> QED
      BY Zenon, <3>1, <3>2
  <2> QED
    BY Zenon, <1>1, <2>4 DEF Stored, Launched, Holding
<1>9. Quiet'
  BY <1>1 DEF TypeOK, Quiet
<1> QED
  BY Zenon, <1>2, <1>4, <1>5, <1>6, <1>7, <1>8, <1>9

(* Forecast: the planner's promise keeps the counts within the bounds, and *)
(* the stamp is the present, when every other loop of the workload has     *)
(* been cancelled if this one is the registered one.                       *)
LEMMA ForecastInv ==
  ASSUME Inv, NEW l \in Loops, Forecast(l)
  PROVE  Inv'
<1> USE NeverFacts, NoneAssumption DEF Inv
<1>1. PICK f \in Forecasts :
        /\ currentReplicas' =
             [currentReplicas EXCEPT ![l] =
                IF Plan(currentReplicas[l], f, policy[l]) = << >> THEN @
                ELSE Plan(currentReplicas[l], f, policy[l])[1]]
        /\ draft' =
             [draft EXCEPT ![l] =
                [by |-> l, at |-> now,
                 desired |-> Plan(currentReplicas[l], f, policy[l])]]
  BY Zenon DEF Forecast
<1> DEFINE desired == Plan(currentReplicas[l], f, policy[l])
<1>2. policy[l] \in Policies /\ ValidPolicy(policy[l])
  BY PolicyAssumption DEF TypeOK
<1>3. /\ desired \in Seq(Nat)
      /\ \A j \in 1..Len(desired) : WithinBounds(policy[l], desired[j])
  BY <1>2, PlanAssumption DEF Counts, KeepsLimits
<1> HIDE DEF desired
<1>4. desired # << >> =>
        desired[1] \in policy[l].MinReplicas..policy[l].MaxReplicas
  <2> SUFFICES ASSUME desired # << >>
               PROVE  desired[1] \in policy[l].MinReplicas..policy[l].MaxReplicas
    OBVIOUS
  <2>1. 1 \in 1..Len(desired) /\ desired[1] \in Nat
    BY <1>3
  <2>2. WithinBounds(policy[l], desired[1])
    BY <1>3, <2>1
  <2> QED
    BY <1>2, <2>1, <2>2 DEF WithinBounds, ValidPolicy
<1>5. /\ currentReplicas' =
           [currentReplicas EXCEPT ![l] = IF desired = << >> THEN @ ELSE desired[1]]
      /\ draft' = [draft EXCEPT ![l] = [by |-> l, at |-> now, desired |-> desired]]
      /\ pc[l] = "forecast" /\ pc' = [pc EXCEPT ![l] = "put"]
      /\ UNCHANGED <<mfVars, wfVars, cancelledAt, snapshots, now>>
  BY <1>1, Zenon DEF Forecast, Goto, desired
<1> USE DEF mfVars, wfVars
<1>6. Counts'
  BY Zenon, <1>4, <1>5 DEF TypeOK, Counts
<1>7. TypeOK'
  <2>1. [by |-> l, at |-> now, desired |-> desired] \in Snapshot
    BY Zenon, <1>3 DEF Snapshot, TypeOK
  <2>2. draft' \in [Loops -> Snapshot \cup {None}]
    BY Zenon, <1>5, <2>1 DEF TypeOK
  <2>3. currentReplicas' \in [Loops -> Nat]
    BY <1>3, <1>5 DEF TypeOK
  <2> QED
    BY Zenon, <1>5, <2>2, <2>3 DEF TypeOK
<1>8. Registry' /\ Contexts'
  BY <1>5 DEF TypeOK, Registry, Contexts, Launched, Live
<1>9. Drafts'
  <2>1. draft'[l] \in Snapshot /\ draft'[l].by = l /\ draft'[l].at = now
    BY <1>3, <1>5 DEF TypeOK, Snapshot
  <2>2. /\ \A k \in Loops : Launched(k)' <=> Launched(k)
        /\ UNCHANGED <<running, owner, cancelledAt, now>>
    BY <1>5 DEF TypeOK, Launched
  <2>3. pc'[l] = "put" /\ Launched(l)
    BY Zenon, <1>5 DEF TypeOK, Launched
  <2>4. \A k \in Loops : k # l => pc'[k] = pc[k] /\ draft'[k] = draft[k]
    BY Zenon, <1>5 DEF TypeOK
  <2>5. ASSUME NEW k \in Loops, k # l, owner[k] = owner[l], Launched(k),
               running[owner[l]] = l
        PROVE  cancelledAt[k] <= now
    BY Zenon, <2>5 DEF Contexts, Live
  <2>6. now \in Int
    BY DEF TypeOK, Time
  <2>7. ASSUME NEW k \in Loops, k # l, Holding(k)'
        PROVE  /\ draft'[k] \in Snapshot /\ draft'[k].by = k /\ draft'[k].at <= now'
               /\ pc'[k] = "write" => draft'[k].at <= cancelledAt'[k]
               /\ running'[owner'[k]] = k =>
                    \A j \in Loops : j # k /\ owner'[j] = owner'[k] /\ Launched(j)' =>
                      cancelledAt'[j] <= draft'[k].at
    <3>1. Holding(k)
      BY Zenon, <2>4, <2>7 DEF Holding
    <3> QED
      BY Zenon, <2>2, <2>4, <2>7, <3>1 DEF Drafts
  <2> HIDE DEF Inv
  <2> QED
    BY <2>1, <2>2, <2>3, <2>5, <2>6, <2>7 DEF Drafts
<1>10. Stored'
  <2>1. draft'[l].at = now
    BY Zenon, <1>5 DEF TypeOK
  <2>2. \A k \in Loops :
          /\ Launched(k)' <=> Launched(k)
          /\ k # l => (Holding(k)' <=> Holding(k)) /\ draft'[k] = draft[k]
    BY Zenon, <1>5 DEF TypeOK, Launched, Holding
  <2>3. \A n \in Names : snapshots[n] # None => snapshots[n].by \in Loops
    BY Zenon DEF TypeOK, Snapshot
  <2>4. UNCHANGED <<owner, snapshots, cancelledAt, now>>
    BY Zenon, <1>5
  <2> QED
    BY Zenon, <2>1, <2>2, <2>3, <2>4 DEF Stored
<1>11. Quiet'
  BY <1>5 DEF TypeOK, Quiet
<1> QED
  BY Zenon, <1>6, <1>7, <1>8, <1>9, <1>10, <1>11
------------------------------------------------------------------------------

(* Inv is inductive.                                                       *)
LEMMA StepInv == Inv /\ [Next]_vars => Inv'
<1> SUFFICES ASSUME Inv, [Next]_vars PROVE Inv'
  OBVIOUS
<1>1. ASSUME NEW l \in Loops, Upsert(l) \/ UpsertPanics(l) \/ LoopStep(l) PROVE Inv'
  BY <1>1, UpsertInv, ForecastInv, PutWriteInv, MovesInv DEF LoopStep, Moves
<1>2. ASSUME NEW n \in Names, Remove(n) \/ Delete(n) PROVE Inv'
  BY <1>2, RemoveInv, DeleteInv
<1>3. CASE RunCheck \/ Start \/ Shutdown \/ RunEnding \/ Advance
  BY Zenon, <1>3, RunCheckInv, StartInv, ShutdownInv, RunEndingInv, AdvanceInv
<1>4. CASE UNCHANGED vars
  BY Zenon, <1>4 DEF Inv, vars, mfVars, wfVars, loopVars, TypeOK, Registry, Contexts,
              Counts, Drafts, Stored, Quiet, Launched, Live, Holding
<1> QED
  BY <1>1, <1>2, <1>3, <1>4 DEF Next

(* The invariant holds in every reachable state.                           *)
LEMMA AlwaysInv == Spec => []Inv
BY InitInv, StepInv, PTL DEF Spec

(* Type correctness, which includes that every plan in the store and every *)
(* count the planner is called with is a natural number.                   *)
THEOREM ForecasterTypeOK == Spec => []TypeOK
<1>1. Inv => TypeOK
  BY DEF Inv
<1> QED
  BY AlwaysInv, <1>1, PTL

(* At most one goroutine per workload is in a live context, and it is the  *)
(* registered one, for every interleaving of Upsert, Remove, Start, Run,   *)
(* shutdown, ticks, failures and panics.                                   *)
THEOREM ForecasterOneLiveLoop == Spec => []OneLiveLoop
<1>1. Inv => OneLiveLoop
  BY Zenon DEF Inv, Contexts, OneLiveLoop, Active
<1> QED
  BY AlwaysInv, <1>1, PTL

(* What a stopped loop leaves in the store was generated before the stop.  *)
THEOREM ForecasterNothingAfterStop == Spec => []NothingGeneratedAfterStop
<1>1. Inv => NothingGeneratedAfterStop
  BY DEF Inv, Stored, NothingGeneratedAfterStop
<1> QED
  BY AlwaysInv, <1>1, PTL

(* The store is written by PutWrite and emptied by Delete, by nothing else. *)
LEMMA StoreSteps ==
  ASSUME [Next]_vars
  PROVE  \/ UNCHANGED snapshots
         \/ \E l \in Loops : PutWrite(l)
         \/ \E n \in Names : Delete(n)
<1>1. CASE UNCHANGED vars
  BY Zenon, <1>1 DEF vars
<1>2. ASSUME NEW l \in Loops, Upsert(l) \/ UpsertPanics(l) \/ LoopStep(l), ~PutWrite(l)
      PROVE  UNCHANGED snapshots
  BY <1>2 DEF LoopStep, Upsert, UpsertPanics, Collect, Forecast, PutCheck, TickFails, Panic,
              Fire, Stop
<1>3. ASSUME NEW n \in Names, Remove(n) PROVE UNCHANGED snapshots
  BY Zenon, <1>3 DEF Remove
<1>4. CASE RunCheck \/ Start \/ Shutdown \/ RunEnding \/ Advance
  BY <1>4 DEF RunCheck, Start, Shutdown, RunEnding, RunWait, LastDone, Release, RunReturn,
              RunnerTo, Advance
<1> QED
  BY <1>1, <1>2, <1>3, <1>4 DEF Next

(* A Put that lowers GeneratedAt is made by a cancelled loop.  The stored  *)
(* snapshot is either the writer's own earlier one, or one of a loop that  *)
(* was cancelled before a live writer generated its own.                   *)
THEOREM ForecasterOnlyReplacedRegress == Spec => OnlyReplacedLoopsRegress
<1> DEFINE Regress(n) ==
      /\ snapshots[n] # None /\ snapshots'[n] # None
      /\ snapshots'[n].at < snapshots[n].at
<1>1. ASSUME Inv, [Next]_vars, NEW n \in Names, Regress(n)
      PROVE  cancelledAt[snapshots'[n].by] # Never
  <2> USE NeverFacts, NoneAssumption DEF Inv
  <2>1. snapshots[n] \in Snapshot /\ snapshots[n].at \in Nat
    BY <1>1 DEF TypeOK, Snapshot
  <2>2. ~UNCHANGED snapshots
    BY <1>1, <2>1
  <2>3. ASSUME NEW m \in Names, Delete(m) PROVE FALSE
    BY <1>1, <2>1, <2>3 DEF Delete, TypeOK
  <2>4. PICK l \in Loops : PutWrite(l)
    BY Zenon, <1>1, <2>2, <2>3, StoreSteps
  <2>5. pc[l] = "write" /\ snapshots' = [snapshots EXCEPT ![owner[l]] = draft[l]]
    BY Zenon, <2>4 DEF PutWrite, Goto
  <2>6. owner[l] = n /\ snapshots'[n] = draft[l]
    BY <1>1, <2>1, <2>5 DEF TypeOK
  <2>7. draft[l] \in Snapshot /\ draft[l].by = l /\ draft[l].at \in Nat
    BY Zenon, <1>1, <2>5 DEF Drafts, Holding, Snapshot
  <2>8. SUFFICES ASSUME Live(l) PROVE FALSE
    BY Zenon, <2>6, <2>7 DEF Live
  <2>9. running[owner[l]] = l
    BY Zenon, <1>1, <2>5, <2>8 DEF Contexts, Launched
  <2>10. CASE snapshots[n].by = l
    BY <1>1, <2>1, <2>5, <2>6, <2>7, <2>10 DEF Stored, Holding
  <2>11. CASE snapshots[n].by # l
    <3> DEFINE k == snapshots[n].by
    <3>1. /\ k \in Loops /\ owner[k] = n /\ Launched(k)
          /\ snapshots[n].at <= cancelledAt[k]
      BY Zenon, <1>1, <2>1 DEF Stored, Snapshot
    <3>2. cancelledAt[k] <= draft[l].at
      BY Zenon, <1>1, <2>5, <2>6, <2>9, <2>11, <3>1 DEF Drafts, Holding
    <3>3. cancelledAt[k] \in Nat
      BY Zenon, <1>1, <3>1 DEF TypeOK
    <3> QED
      BY <1>1, <2>1, <2>6, <2>7, <3>1, <3>2, <3>3
  <2> QED
    BY Zenon, <2>10, <2>11
<1>2. Inv /\ [Next]_vars =>
        [\A n \in Names : Regress(n) => cancelledAt[snapshots'[n].by] # Never]_vars
  BY <1>1
<1> QED
  BY AlwaysInv, <1>2, PTL DEF Spec, OnlyReplacedLoopsRegress

(* After Run has returned the store is only ever emptied.                  *)
THEOREM ForecasterQuietAfterRun == Spec => QuietAfterRun
<1>1. ASSUME Inv, [Next]_vars, runner = "returned", NEW n \in Names
      PROVE  snapshots'[n] \in {snapshots[n], None}
  <2>1. ASSUME NEW l \in Loops, PutWrite(l) PROVE FALSE
    BY Zenon, <1>1, <2>1 DEF Inv, Quiet, PutWrite, Goto
  <2>2. ASSUME NEW m \in Names, Delete(m)
        PROVE  snapshots'[n] \in {snapshots[n], None}
    BY Zenon, <1>1, <2>2 DEF Delete, Inv, TypeOK
  <2> QED
    BY Zenon, <1>1, <2>1, <2>2, StoreSteps
<1>2. Inv /\ [Next]_vars =>
        [runner = "returned" =>
           \A n \in Names : snapshots'[n] \in {snapshots[n], None}]_vars
  BY Zenon, <1>1
<1> QED
  BY AlwaysInv, <1>2, PTL DEF Spec, QuietAfterRun
------------------------------------------------------------------------------

(* The rate limits of one loop.  The planner starts from the first count   *)
(* of the loop's snapshot in the store, unless that plan was dropped: the  *)
(* loop had been cancelled then and gets nothing past Put any more.        *)
RateLoop(l) ==
  /\ Holding(l) /\ draft[l].desired # << >> =>
       currentReplicas[l] = FirstCount(draft[l])
  /\ LET s == snapshots[owner[l]]
     IN /\ Live(l) \/ pc[l] = "write"
        /\ s # None /\ s.by = l /\ s.desired # << >>
        => IF Holding(l) THEN RateBetween(s, draft[l])
           ELSE currentReplicas[l] = FirstCount(s)

RateInv == \A l \in Loops : RateLoop(l)

(* Steps that leave the loop's tick, its counts and its snapshot alone.    *)
LEMMA RateFrame ==
  ASSUME NEW l \in Loops, RateLoop(l),
         owner' = owner, policy' = policy, draft'[l] = draft[l],
         draft[l].by = l \/ ~Holding(l), currentReplicas'[l] = currentReplicas[l],
         Holding(l)' <=> Holding(l), Live(l)' => Live(l),
         pc'[l] = "write" => pc[l] = "write",
         \/ snapshots'[owner[l]] \in {snapshots[owner[l]], None}
         \/ snapshots'[owner[l]].by # l
  PROVE  RateLoop(l)'
BY Zenon DEF RateLoop, RateBetween

(* The manager and the clock: they cancel contexts and revive none.        *)
LEMMA ManagerRate ==
  ASSUME Inv, [Next]_vars, \A l \in Loops : ~LoopStep(l)
  PROVE  /\ UNCHANGED <<owner, policy, draft, currentReplicas>>
         /\ \A n \in Names : snapshots'[n] \in {snapshots[n], None}
         /\ \A l \in Loops : /\ Holding(l)' <=> Holding(l)
                             /\ pc'[l] = "write" => pc[l] = "write"
                             /\ Live(l)' => Live(l)
<1> USE DEF mfVars, wfVars, loopVars
<1>1. /\ pc \in [Loops -> {"unbuilt", "registered", "collect", "forecast", "put",
                          "write", "wait", "done"}]
      /\ cancelledAt \in [Loops -> Time \cup {Never}] /\ now \in Time
      /\ snapshots \in [Names -> Snapshot \cup {None}]
  BY Zenon DEF Inv, TypeOK
<1>2. ASSUME NEW S, cancelledAt' = Cancel(S) PROVE \A l \in Loops : Live(l)' => Live(l)
  BY Zenon, <1>1, <1>2, NeverFacts DEF Cancel, Live
<1>3. ASSUME NEW l \in Loops, Upsert(l) \/ UpsertPanics(l)
      PROVE  \A k \in Loops : /\ Holding(k)' <=> Holding(k)
                              /\ pc'[k] = "write" => pc[k] = "write"
                              /\ Live(k)' => Live(k)
  <2>1. pc[l] = "unbuilt" /\ Live(l)
    BY Zenon, <1>3 DEF Upsert, UpsertPanics, Inv, Contexts, Launched
  <2>2. \A k \in Loops : k # l => pc'[k] = pc[k] /\ (Live(k)' => Live(k))
    BY Zenon, <1>1, <1>3, NeverFacts DEF Upsert, UpsertPanics, Register, Cancel, Live
  <2>3. pc'[l] \in {"collect", "registered", "done"}
    BY Zenon, <1>1, <1>3 DEF Upsert, UpsertPanics
  <2> QED
    BY Zenon, <2>1, <2>2, <2>3 DEF Holding
<1>4. CASE Start
  <2>1. \A k \in Loops : ~Launched(k)
    BY Zenon, <1>4 DEF Start, Inv, Registry
  <2>2. \A k \in Loops : pc'[k] \in {pc[k], "collect"} /\ cancelledAt' = cancelledAt
    BY Zenon, <1>1, <1>4 DEF Start
  <2>3. \A k \in Loops : /\ Holding(k)' <=> Holding(k)
                         /\ pc'[k] = "write" => pc[k] = "write"
                         /\ Live(k)' => Live(k)
    BY Zenon, <2>1, <2>2 DEF Holding, Launched, Live
  <2> QED
    BY Zenon, <1>4, <2>3 DEF Start, Holding, Live
<1>5. ASSUME NEW n \in Names, Remove(n) \/ Delete(n)
      PROVE  /\ pc' = pc /\ \A l \in Loops : Live(l)' => Live(l)
             /\ \A m \in Names : snapshots'[m] \in {snapshots[m], None}
             /\ UNCHANGED <<owner, policy, draft, currentReplicas>>
  <2>1. CASE Remove(n)
    BY Zenon, <1>2, <2>1 DEF Remove
  <2>2. CASE Delete(n)
    BY Zenon, <1>1, <2>2 DEF Delete, Live
  <2> QED
    BY Zenon, <1>5, <2>1, <2>2
<1>6. CASE Shutdown
  BY Zenon, <1>2, <1>6 DEF Shutdown, Holding
<1>7. CASE RunCheck \/ RunEnding \/ Advance \/ UNCHANGED vars
  BY Zenon, <1>7 DEF RunCheck, RunEnding, RunWait, LastDone, Release, RunReturn, RunnerTo,
    Advance, vars, Holding, Live
<1>8. ASSUME NEW l \in Loops, Upsert(l) \/ UpsertPanics(l)
      PROVE  UNCHANGED <<owner, policy, draft, currentReplicas, snapshots>>
  BY <1>8 DEF Upsert, UpsertPanics
<1> QED
  BY Zenon, <1>3, <1>4, <1>5, <1>6, <1>7, <1>8 DEF Next, Holding

(* The invariant is kept as long as no tick fails in a live context.       *)
LEMMA RateStep ==
  ASSUME Inv, RateInv, ~Faulty, [Next]_vars
  PROVE  RateInv'
<1> USE DEF Inv
<1>1. \A k \in Loops : draft[k].by = k \/ ~Holding(k)
  BY DEF Drafts
<1>2. CASE \A l \in Loops : ~LoopStep(l)
  <2>1. ASSUME NEW k \in Loops PROVE RateLoop(k)'
    <3>1. owner[k] \in Names
      BY Zenon DEF TypeOK
    <3>2. /\ owner' = owner /\ policy' = policy /\ draft'[k] = draft[k]
          /\ currentReplicas'[k] = currentReplicas[k]
          /\ snapshots'[owner[k]] \in {snapshots[owner[k]], None}
      BY Zenon, <1>2, <3>1, ManagerRate
    <3>3. /\ Holding(k)' <=> Holding(k)
          /\ pc'[k] = "write" => pc[k] = "write"
          /\ Live(k)' => Live(k)
      BY <1>2, ManagerRate DEF Holding, Live
    <3>4. RateLoop(k)
      BY DEF RateInv
    <3> QED
      BY Zenon, <1>1, <3>2, <3>3, <3>4, RateFrame
  <2> QED
    BY Zenon, <2>1 DEF RateInv
<1>3. ASSUME NEW l \in Loops, Moves(l) PROVE RateInv'
  <2>1. PICK to \in {"forecast", "write", "wait", "collect", "done"} :
          /\ pc[l] \in {"collect", "forecast", "put", "wait"}
          /\ pc' = [pc EXCEPT ![l] = to]
          /\ to = "write" => pc[l] = "put" /\ Live(l) /\ draft' = draft
          /\ to = "wait" /\ pc[l] = "put" => Faulty \/ ~Live(l)
          /\ to = "wait" => draft' = [draft EXCEPT ![l] = None]
          /\ to # "wait" => draft' = draft /\ (to = "write" \/ pc[l] # "put")
    BY Zenon, <1>3, MovesFacts
  <2>2. /\ owner' = owner /\ policy' = policy /\ snapshots' = snapshots
        /\ currentReplicas' = currentReplicas /\ cancelledAt' = cancelledAt
    BY Zenon, <1>3, MovesFacts DEF wfVars
  <2>3. ASSUME NEW k \in Loops, k # l PROVE RateLoop(k)'
    <3>1. pc'[k] = pc[k] /\ draft'[k] = draft[k] /\ RateLoop(k)
      BY Zenon, <2>1, <2>3 DEF TypeOK, RateInv
    <3>2. (Holding(k)' <=> Holding(k)) /\ (Live(k)' => Live(k))
      BY <2>2, <3>1 DEF Holding, Live
    <3> QED
      BY Zenon, <1>1, <2>2, <3>1, <3>2, RateFrame
  <2>4. RateLoop(l)'
    <3>1. RateLoop(l) /\ pc'[l] = to
      BY Zenon, <2>1 DEF RateInv, TypeOK
    <3>2. CASE to = "write"
      BY Zenon, <2>1, <2>2, <3>1, <3>2 DEF RateLoop, RateBetween, Holding, Live
    <3>3. CASE to # "write"
      BY Zenon, <2>1, <2>2, <3>1, <3>3 DEF RateLoop, Holding, Live
    <3> QED
      BY Zenon, <3>2, <3>3
  <2> QED
    BY Zenon, <2>3, <2>4 DEF RateInv
<1>4. ASSUME NEW l \in Loops, PutWrite(l) PROVE RateInv'
  <2>1. /\ pc[l] = "write" /\ pc' = [pc EXCEPT ![l] = "wait"]
        /\ snapshots' = [snapshots EXCEPT ![owner[l]] = draft[l]]
        /\ draft' = [draft EXCEPT ![l] = None]
        /\ owner' = owner /\ policy' = policy
        /\ currentReplicas' = currentReplicas /\ cancelledAt' = cancelledAt
    BY Zenon, <1>4 DEF PutWrite, Goto, mfVars, wfVars
  <2>2. draft[l].by = l /\ Holding(l)
    BY Zenon, <1>1, <2>1 DEF Holding
  <2>3. ASSUME NEW k \in Loops, k # l PROVE RateLoop(k)'
    <3>1. pc'[k] = pc[k] /\ draft'[k] = draft[k] /\ RateLoop(k)
      BY Zenon, <2>1, <2>3 DEF TypeOK, RateInv
    <3>2. (Holding(k)' <=> Holding(k)) /\ (Live(k)' => Live(k))
      BY Zenon, <2>1, <3>1 DEF Holding, Live
    <3>3. \/ snapshots'[owner[k]] \in {snapshots[owner[k]], None}
          \/ snapshots'[owner[k]].by # k
      BY Zenon, <2>1, <2>2, <2>3 DEF TypeOK
    <3> QED
      BY Zenon, <1>1, <2>1, <3>1, <3>2, <3>3, RateFrame
  <2>4. RateLoop(l)'
    <3>1. pc'[l] = "wait" /\ snapshots'[owner[l]] = draft[l] /\ RateLoop(l)
      BY <2>1 DEF TypeOK, RateInv
    <3> QED
      BY Zenon, <2>1, <2>2, <3>1 DEF RateLoop, Holding
  <2> QED
    BY Zenon, <2>3, <2>4 DEF RateInv
<1>5. ASSUME NEW l \in Loops, Forecast(l) PROVE RateInv'
  <2>1. PICK f \in Forecasts :
          /\ currentReplicas' =
               [currentReplicas EXCEPT ![l] =
                  IF Plan(currentReplicas[l], f, policy[l]) = << >> THEN @
                  ELSE Plan(currentReplicas[l], f, policy[l])[1]]
          /\ draft' =
               [draft EXCEPT ![l] =
                  [by |-> l, at |-> now,
                   desired |-> Plan(currentReplicas[l], f, policy[l])]]
    BY Zenon, <1>5 DEF Forecast
  <2> DEFINE desired == Plan(currentReplicas[l], f, policy[l])
  <2>2. /\ pc[l] = "forecast" /\ pc' = [pc EXCEPT ![l] = "put"]
        /\ owner' = owner /\ policy' = policy /\ snapshots' = snapshots
        /\ cancelledAt' = cancelledAt
    BY <1>5 DEF Forecast, Goto, wfVars
  <2>3. desired # << >> /\ policy[l].UpMaxFactorPerStep >= 100
          => WithinStep(policy[l], currentReplicas[l], desired[1])
    BY Zenon, PlanAssumption DEF Counts, TypeOK, KeepsLimits
  <2> HIDE DEF desired
  <2>4. ASSUME NEW k \in Loops, k # l PROVE RateLoop(k)'
    <3>1. /\ pc'[k] = pc[k] /\ draft'[k] = draft[k] /\ RateLoop(k)
          /\ currentReplicas'[k] = currentReplicas[k]
      BY Zenon, <2>1, <2>2, <2>4 DEF TypeOK, RateInv
    <3>2. (Holding(k)' <=> Holding(k)) /\ (Live(k)' => Live(k))
      BY Zenon, <2>2, <3>1 DEF Holding, Live
    <3> QED
      BY <1>1, <2>2, <3>1, <3>2, RateFrame
  <2>5. RateLoop(l)'
    <3>1. /\ pc'[l] = "put" /\ draft'[l].desired = desired /\ draft'[l].by = l
          /\ desired # << >> => currentReplicas'[l] = desired[1]
      BY <2>1, <2>2 DEF TypeOK, desired
    <3>2. RateLoop(l) /\ ~Holding(l)
      BY <2>2 DEF RateInv, Holding
    <3> QED
      BY Zenon, <2>2, <2>3, <3>1, <3>2 DEF RateLoop, RateBetween, FirstCount, Holding, Live
  <2> QED
    BY Zenon, <2>4, <2>5 DEF RateInv
<1> QED
  BY Zenon, <1>2, <1>3, <1>4, <1>5 DEF LoopStep, Moves

(* Two snapshots that a loop stores one after the other differ by at most  *)
(* one step of the rate limits, for any number of loops and workloads, any *)
(* policies, and whatever is replaced, removed or shut down meanwhile.     *)
THEOREM ForecasterSameLoopRate == ~Faulty /\ Spec => SameLoopRate
<1> SUFFICES ASSUME ~Faulty PROVE Spec => SameLoopRate
  BY Zenon
<1> DEFINE Successive(n) ==
      /\ snapshots'[n] # snapshots[n]
      /\ snapshots[n] # None /\ snapshots'[n] # None
      /\ snapshots[n].by = snapshots'[n].by
<1>1. Init => RateInv
  BY Zenon DEF Init, RateInv, RateLoop, Holding
<1>2. ASSUME Inv, RateInv, [Next]_vars, NEW n \in Names, Successive(n)
      PROVE  RateBetween(snapshots[n], snapshots'[n])
  <2> USE DEF Inv
  <2>1. ASSUME NEW m \in Names, Delete(m) PROVE FALSE
    BY <1>2, <2>1 DEF Delete, TypeOK
  <2>2. PICK l \in Loops : PutWrite(l)
    BY Zenon, <1>2, <2>1, StoreSteps
  <2>3. pc[l] = "write" /\ snapshots' = [snapshots EXCEPT ![owner[l]] = draft[l]]
    BY Zenon, <2>2 DEF PutWrite, Goto
  <2>4. n = owner[l] /\ snapshots'[n] = draft[l]
    BY Zenon, <1>2, <2>3 DEF TypeOK
  <2>5. Holding(l) /\ draft[l].by = l /\ RateLoop(l)
    BY Zenon, <1>2, <2>3 DEF Drafts, Holding, RateInv
  <2> QED
    BY Zenon, <1>2, <2>3, <2>4, <2>5 DEF RateLoop, RateBetween
<1>3. Inv /\ RateInv /\ [Next]_vars =>
        [\A n \in Names : Successive(n)
           => RateBetween(snapshots[n], snapshots'[n])]_vars
  BY <1>2
<1>4. Inv /\ RateInv /\ [Next]_vars => RateInv'
  BY RateStep
<1> QED
  BY AlwaysInv, <1>1, <1>3, <1>4, PTL DEF Spec, SameLoopRate
==============================================================================
