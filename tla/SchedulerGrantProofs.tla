------------------------ MODULE SchedulerGrantProofs ------------------------
(***************************************************************************)
(* What a grant may rely on: its slots are counted, its budget holds, no    *)
(* due instant is skipped silently, and an unknown outcome stops it until a *)
(* human has acted after it was noted.                                      *)
(*                                                                          *)
(* All four are about one row of the schedules table and the claims of that *)
(* schedule.  So every step is first reduced to what it does to these: it   *)
(* leaves the claims alone, renews the grant, takes a claim, or settles     *)
(* one.  The invariants then follow from that alone, whoever took the step. *)
(***************************************************************************)
EXTENDS SchedulerClaimProofs, FiniteSetTheorems

(* A schedule's own claims.                                                 *)
Own(s) == {c \in Claim : c[1] = s}

SameClaims(s) ==
  \A c \in Own(s) :
    snap'[c] = snap[c] /\ occ'[c].status = occ[c].status /\ noted'[c] = noted[c]

SameCount(s) == issued'[s] = issued[s] /\ base'[s] = base[s]

(* Nothing happens to the claims, and at most an operator's request, or a   *)
(* process switching the schedule off, to the row.                          *)
Edited(s) ==
  /\ SameClaims(s) /\ SameCount(s)
  /\ \/ /\ sch'[s] \in {sch[s], Paused(sch[s]), [sch[s] EXCEPT !.enabled = FALSE]}
        /\ origin'[s] = origin[s]
     \/ /\ sch[s].row = "live" /\ ~sch[s].enabled
        /\ sch'[s] = Resumed(sch[s], now)
        /\ origin'[s] = Restarted(s)
     \/ sch[s].row = "live" /\ sch'[s] = NoRow("deleted")
     \/ /\ sch[s].row = "absent"
        /\ \E max \in Budgets : sch'[s] = NewGrant(s, now, max)
        /\ origin'[s] = NextRun(now)

(* The grant is renewed.                                                    *)
RenewedStep(s) ==
  /\ SameClaims(s)
  /\ issued'[s] = issued[s] /\ base'[s] = issued[s]
  /\ sch[s].row = "live"
  /\ \E max \in Budgets, enable \in {"keep", "on", "off"} :
       /\ sch'[s] = Renewed(s, sch[s], now, max, enable)
       /\ origin'[s] = IF enable = "on" THEN Restarted(s) ELSE origin[s]

(* A claim is taken at t, on the row as it then is.                         *)
TakenStep(s) ==
  \E t \in Nat :
    LET n == <<s, issued[s] + 1>>
    IN  /\ sch[s].enabled /\ sch[s].due <= t
        /\ sch'[s] = Taken(sch[s], t)
        /\ issued'[s] = issued[s] + 1 /\ base'[s] = base[s] /\ origin'[s] = origin[s]
        /\ n \in Own(s)
        /\ snap'[n] = TakenSnapshot(sch[s], t)
        /\ occ'[n].status = IF HasBudget(sch[s]) THEN "reserved" ELSE "reserved_noslot"
        /\ \A c \in Own(s) \ {n} :
             snap'[c] = snap[c] /\ occ'[c].status = occ[c].status /\ noted'[c] = noted[c]

(* An unresolved claim is settled; what becomes of its slot and its row.    *)
SettledStep(s) ==
  \E c \in Own(s) :
    /\ Unresolved(occ[c])
    /\ \A d \in Own(s) :
         snap'[d] = snap[d]
           /\ (d # c => occ'[d].status = occ[d].status /\ noted'[d] = noted[d])
    /\ SameCount(s) /\ origin'[s] = origin[s]
    /\ \/ /\ occ'[c].status \in {"released", "abandoned"}
          /\ sch'[s] = IF occ[c].status = "reserved" THEN Refunded(sch[s]) ELSE sch[s]
       \/ occ'[c].status = "executed" /\ sch'[s] = sch[s]
       \/ /\ occ'[c].status = "unknown" /\ sch'[s] = PausedUnknown(sch[s])
          /\ noted'[c] = sch'[s].rev

GrantStep(s) == Edited(s) \/ RenewedStep(s) \/ TakenStep(s) \/ SettledStep(s)

-----------------------------------------------------------------------------
(* Who moves the count a renewal starts from.                               *)
LEMMA BaseWriters ==
  ASSUME [Next]_vars, base' # base
  PROVE  \E s \in Sched : RenewGrant(s)
<1>1. ~UNCHANGED vars /\ ~Tick
  BY DEF vars, Tick
<1>2. ~\E v \in Worker : \/ Heartbeat(v) \/ OpenJobStore(v)
                         \/ \E x \in Sched \cup {Layer} : SetBrake(v, x)
  BY DEF Heartbeat, OpenJobStore, SetBrake
<1>3. ~\E v \in Worker : Failure(v) \/ Stopping(v)
  BY DEF Failure, Crash, StoreErrorAborts, StoreErrorAfterRun, Stopping, StopRequest,
         StopJoined, StopTimeout, ThreadEnds
<1>4. ~\E v \in Worker : Startup(v)
  BY DEF Startup, Start, RecoverBegin, RecoverOne, Reconcile, RecoverDone
<1>5. ~\E v \in Worker : Loop(v)
  BY DEF Loop, TickBegin, ClaimDue, CreateJob, TickEnd, BindJob, Policy, Guard,
         Attempt, Propose, RunTool, Receipt, RecordExecuted, RecordReleased,
         DisableGrant, CloseJob
<1>6. ASSUME NEW s \in Sched, Operator(s) PROVE RenewGrant(s)
  BY <1>6 DEF Operator, Create, PauseGrant, ResumeGrant, DeleteGrant
<1> QED  BY <1>1, <1>2, <1>3, <1>4, <1>5, <1>6 DEF Next

(* Who moves the instant a schedule counts from.                            *)
LEMMA OriginWriters ==
  ASSUME [Next]_vars, origin' # origin
  PROVE  \E s \in Sched : Operator(s)
<1>1. ~UNCHANGED vars /\ ~Tick
  BY DEF vars, Tick
<1>2. ~\E v \in Worker : \/ Heartbeat(v) \/ OpenJobStore(v)
                         \/ \E x \in Sched \cup {Layer} : SetBrake(v, x)
  BY DEF Heartbeat, OpenJobStore, SetBrake
<1>3. ~\E v \in Worker : Failure(v) \/ Stopping(v)
  BY DEF Failure, Crash, StoreErrorAborts, StoreErrorAfterRun, Stopping, StopRequest,
         StopJoined, StopTimeout, ThreadEnds
<1>4. ~\E v \in Worker : Startup(v)
  BY DEF Startup, Start, RecoverBegin, RecoverOne, Reconcile, RecoverDone
<1>5. ~\E v \in Worker : Loop(v)
  BY DEF Loop, TickBegin, ClaimDue, CreateJob, TickEnd, BindJob, Policy, Guard,
         Attempt, Propose, RunTool, Receipt, RecordExecuted, RecordReleased,
         DisableGrant, CloseJob
<1> QED  BY <1>1, <1>2, <1>3, <1>4, <1>5 DEF Next

(* Who notes that an outcome is unknown.                                    *)
LEMMA NotedWriters ==
  ASSUME [Next]_vars, noted' # noted
  PROVE  \E v \in Worker : RecoverOne(v)
<1>1. ~UNCHANGED vars /\ ~Tick
  BY DEF vars, Tick
<1>2. ~\E v \in Worker : \/ Heartbeat(v) \/ OpenJobStore(v)
                         \/ \E x \in Sched \cup {Layer} : SetBrake(v, x)
  BY DEF Heartbeat, OpenJobStore, SetBrake
<1>3. ~\E v \in Worker : Failure(v) \/ Stopping(v)
  BY DEF Failure, Crash, StoreErrorAborts, StoreErrorAfterRun, Stopping, StopRequest,
         StopJoined, StopTimeout, ThreadEnds
<1>4. ASSUME NEW v \in Worker, Startup(v) PROVE RecoverOne(v)
  BY <1>4 DEF Startup, Start, RecoverBegin, Reconcile, RecoverDone
<1>5. ~\E v \in Worker : Loop(v)
  BY DEF Loop, TickBegin, ClaimDue, CreateJob, TickEnd, BindJob, Policy, Guard,
         Attempt, Propose, RunTool, Receipt, RecordExecuted, RecordReleased,
         DisableGrant, CloseJob
<1>6. ~\E s \in Sched : Operator(s)
  BY DEF Operator, Create, PauseGrant, ResumeGrant, RenewGrant, DeleteGrant, Edit
<1> QED  BY <1>1, <1>2, <1>3, <1>4, <1>5, <1>6 DEF Next

(* Who touches the rows.                                                    *)
LEMMA RowWriters ==
  ASSUME [Next]_vars, sch' # sch
  PROVE  \/ \E s \in Sched : Operator(s)
         \/ \E v \in Worker : \/ Start(v) \/ RecoverOne(v) \/ ClaimDue(v)
                              \/ RecordReleased(v) \/ DisableGrant(v)
                              \/ StoreErrorAfterRun(v)
<1>1. ~UNCHANGED vars /\ ~Tick
  BY DEF vars, durable, Tick
<1>2. ~\E v \in Worker : \/ Heartbeat(v) \/ OpenJobStore(v)
                         \/ \E x \in Sched \cup {Layer} : SetBrake(v, x)
  BY DEF Heartbeat, OpenJobStore, SetBrake
<1>3. ~\E v \in Worker : Crash(v) \/ StoreErrorAborts(v) \/ Stopping(v)
  BY DEF Crash, StoreErrorAborts, Stopping, StopRequest, StopJoined, StopTimeout,
         ThreadEnds, durable
<1>4. ASSUME NEW v \in Worker, Startup(v) PROVE Start(v) \/ RecoverOne(v)
  BY <1>4 DEF Startup, RecoverBegin, Reconcile, RecoverDone, durable
<1>5. ASSUME NEW v \in Worker, Loop(v)
      PROVE  ClaimDue(v) \/ RecordReleased(v) \/ DisableGrant(v)
  BY <1>5 DEF Loop, TickBegin, CreateJob, TickEnd, BindJob, Policy, Guard,
         Attempt, Propose, RunTool, Receipt, RecordExecuted, CloseJob, durable
<1> QED  BY <1>1, <1>2, <1>3, <1>4, <1>5 DEF Next, Failure

(* Operator requests.                                                       *)
LEMMA OperatorStep ==
  ASSUME TypeInv, NEW u \in Sched, Operator(u), NEW s \in Sched
  PROVE  GrantStep(s)
<1>0. sch \in [Sched -> Row] /\ base \in [Sched -> Nat] /\ origin \in [Sched -> Int]
  BY DEF TypeInv, TypeOK
<1>1. SameClaims(s) /\ issued'[s] = issued[s]
  BY DEF Operator, Create, PauseGrant, ResumeGrant, RenewGrant, DeleteGrant, Edit, SameClaims
<1>2. CASE u # s
  <2>1. sch'[s] = sch[s] /\ base'[s] = base[s] /\ origin'[s] = origin[s]
    BY <1>0, <1>2 DEF Operator, Create, PauseGrant, ResumeGrant, RenewGrant, DeleteGrant, Edit
  <2> QED  BY <1>1, <2>1 DEF GrantStep, Edited, SameCount
<1>3. CASE u = s /\ Create(s)
  <2>1. /\ sch[s].row = "absent" /\ base' = base
        /\ \E max \in Budgets : sch'[s] = NewGrant(s, now, max)
        /\ origin'[s] = NextRun(now)
    BY <1>0, <1>3 DEF Create, Edit
  <2> QED  BY <1>1, <2>1 DEF GrantStep, Edited, SameCount
<1>4. CASE u = s /\ PauseGrant(s)
  <2>1. sch'[s] = Paused(sch[s]) /\ base' = base /\ origin' = origin
    BY <1>0, <1>4 DEF PauseGrant, Edit
  <2> QED  BY <1>1, <2>1 DEF GrantStep, Edited, SameCount
<1>5. CASE u = s /\ ResumeGrant(s)
  <2>1. /\ sch'[s] = Resumed(sch[s], now) /\ base' = base /\ sch[s].row = "live"
        /\ ~sch[s].enabled /\ origin'[s] = Restarted(s)
    BY <1>0, <1>5 DEF ResumeGrant, Edit
  <2> QED  BY <1>1, <2>1 DEF GrantStep, Edited, SameCount
<1>6. CASE u = s /\ DeleteGrant(s)
  <2>1. sch'[s] = NoRow("deleted") /\ base' = base /\ sch[s].row = "live"
    BY <1>0, <1>6 DEF DeleteGrant, Edit
  <2> QED  BY <1>1, <2>1 DEF GrantStep, Edited, SameCount
<1>7. CASE u = s /\ RenewGrant(s)
  <2>1. /\ sch[s].row = "live" /\ base'[s] = issued[s]
        /\ \E max \in Budgets, enable \in {"keep", "on", "off"} :
             /\ sch'[s] = Renewed(s, sch[s], now, max, enable)
             /\ origin'[s] = IF enable = "on" THEN Restarted(s) ELSE origin[s]
    BY <1>0, <1>7 DEF RenewGrant, Edit
  <2> QED  BY <1>1, <2>1 DEF GrantStep, RenewedStep
<1> QED  BY <1>2, <1>3, <1>4, <1>5, <1>6, <1>7 DEF Operator

(* A claim is taken of every schedule of the batch, of the others none.     *)
LEMMA ClaimDueStep ==
  ASSUME TypeInv, NEW w \in Worker, ClaimDue(w), base' = base, origin' = origin,
         noted' = noted, NEW s \in Sched
  PROVE  GrantStep(s)
<1> DEFINE t == wk[w].tickAt
           n == <<s, issued[s] + 1>>
<1>0. /\ sch \in [Sched -> Row] /\ t \in Nat /\ issued \in [Sched -> Nat]
      /\ occ \in [Claim -> Occurrence] /\ snap \in [Claim -> Snapshot]
  BY DEF TypeInv, TypeOK, ProcessState
<1>1. PICK B \in DueBatches(t) : ClaimBatch(w, B)
  BY DEF ClaimDue
<1> DEFINE good == B \ Malformed
           new == {<<u, issued[u] + 1>> : u \in good}
<1>2. \A u \in B : u \in Sched /\ sch[u].enabled /\ sch[u].due <= t /\ issued[u] < MaxClaims
  BY DEF DueBatches
<1>3. \A c \in Claim : c \in new => /\ snap'[c] = TakenSnapshot(sch[c[1]], t)
                                    /\ occ'[c].status = IF HasBudget(sch[c[1]])
                                                          THEN "reserved" ELSE "reserved_noslot"
  BY <1>1 DEF ClaimBatch
<1>4. \A c \in Claim \ new : snap'[c] = snap[c] /\ occ'[c] = occ[c]
  BY <1>1 DEF ClaimBatch
<1>5. \A c \in Own(s) : c \in new => s \in good /\ c = n
  BY DEF Own
<1>6. CASE s \in good
  <2>1. n \in new /\ n \in Own(s) /\ n[1] = s
    BY <1>0, <1>2, <1>6, StoreAssumption DEF Own, Claim
  <2>2. /\ snap'[n] = TakenSnapshot(sch[s], t)
        /\ occ'[n].status = IF HasBudget(sch[s]) THEN "reserved" ELSE "reserved_noslot"
    BY <1>3, <2>1 DEF Own
  <2>3. \A c \in Own(s) \ {n} :
          snap'[c] = snap[c] /\ occ'[c].status = occ[c].status /\ noted'[c] = noted[c]
    BY <1>4, <1>5 DEF Own
  <2>4. sch'[s] = Taken(sch[s], t) /\ issued'[s] = issued[s] + 1
    BY <1>1, <1>6 DEF ClaimBatch
  <2>5. sch[s].enabled /\ sch[s].due <= t
    BY <1>2, <1>6
  <2> HIDE DEF t, n, good, new
  <2>6. TakenStep(s)
    BY <1>0, <2>1, <2>2, <2>3, <2>4, <2>5 DEF TakenStep, n
  <2> QED  BY <2>6 DEF GrantStep
<1>7. CASE s \notin good
  <2>1. SameClaims(s)
    BY <1>4, <1>5, <1>7 DEF SameClaims, Own
  <2>2. /\ sch'[s] \in {sch[s], [sch[s] EXCEPT !.enabled = FALSE]}
        /\ issued'[s] = issued[s]
    BY <1>1, <1>7 DEF ClaimBatch
  <2> QED  BY <2>1, <2>2 DEF GrantStep, Edited, SameCount
<1> QED  BY <1>6, <1>7

(* Recovery and the runner settle one claim at a time.                      *)
LEMMA SettleStep ==
  ASSUME TypeInv, NEW w \in Worker, NEW c \in Claim,
         base' = base, origin' = origin, issued' = issued, snap' = snap,
         Unresolved(occ[c]),
         NEW status \in {"released", "abandoned", "executed", "unknown"},
         occ' = [occ EXCEPT ![c].status = status],
         sch' = CASE status \in {"released", "abandoned"} -> Refund(c)
                  [] status = "unknown" -> [sch EXCEPT ![c[1]] = PausedUnknown(@)]
                  [] OTHER -> sch,
         noted' = IF status = "unknown" THEN [noted EXCEPT ![c] = sch'[c[1]].rev] ELSE noted,
         NEW s \in Sched
  PROVE  GrantStep(s)
<1>0. /\ sch \in [Sched -> Row] /\ occ \in [Claim -> Occurrence] /\ c[1] \in Sched
      /\ noted \in [Claim -> Nat]
  BY DEF TypeInv, TypeOK, Claim
<1>1. /\ occ'[c].status = status
      /\ \A d \in Claim : d # c => occ'[d] = occ[d] /\ noted'[d] = noted[d]
      /\ status = "unknown" => noted'[c] = sch'[c[1]].rev
      /\ noted' = noted \/ status = "unknown"
  BY <1>0 DEF Occurrence
<1>2. CASE c[1] # s
  <2>1. sch'[s] = sch[s]
    BY <1>0, <1>2 DEF Refund
  <2>2. SameClaims(s)
    BY <1>1, <1>2 DEF SameClaims, Own
  <2> QED  BY <2>1, <2>2 DEF GrantStep, Edited, SameCount
<1>3. CASE c[1] = s
  <2>1. c \in Own(s)
    BY <1>3 DEF Own
  <2>2. \/ /\ status \in {"released", "abandoned"}
           /\ sch'[s] = IF occ[c].status = "reserved" THEN Refunded(sch[s]) ELSE sch[s]
        \/ status = "executed" /\ sch'[s] = sch[s]
        \/ /\ status = "unknown" /\ sch'[s] = PausedUnknown(sch[s])
           /\ noted'[c] = sch'[s].rev
    BY <1>0, <1>1, <1>3 DEF Refund
  <2>3. SettledStep(s)
    BY <1>1, <2>1, <2>2 DEF SettledStep, Own, SameCount
  <2> QED  BY <2>3 DEF GrantStep
<1> QED  BY <1>2, <1>3

(* Every step is one of these for every schedule.                           *)
LEMMA GrantSteps ==
  ASSUME TypeInv, [Next]_vars, NEW s \in Sched
  PROVE  GrantStep(s)
<1>0. /\ sch \in [Sched -> Row] /\ wk \in [Worker -> ProcessState]
      /\ occ \in [Claim -> Occurrence]
  BY DEF TypeInv, TypeOK
<1>1. CASE \E u \in Sched : Operator(u)
  BY <1>1, OperatorStep
<1>2. CASE base' # base \/ origin' # origin
  BY <1>1, <1>2, BaseWriters, OriginWriters DEF Operator
<1>3. ASSUME NEW v \in Worker, ClaimDue(v), base' = base, origin' = origin PROVE GrantStep(s)
  BY <1>3, ClaimDueStep DEF ClaimDue
<1>4. ASSUME NEW v \in Worker, RecoverOne(v), base' = base, origin' = origin
      PROVE  GrantStep(s)
  <2>1. issued' = issued /\ snap' = snap
    BY <1>4 DEF RecoverOne
  <2>2. PICK c \in wk[v].batch :
          IF Unresolved(occ[c])
            THEN /\ occ' = Resolve(c, Evidence(c))
                 /\ sch' = CASE Evidence(c) = "abandoned" -> Refund(c)
                             [] Evidence(c) = "unknown" ->
                                  [sch EXCEPT ![c[1]] = PausedUnknown(@)]
                             [] OTHER -> sch
                 /\ noted' = IF Evidence(c) = "unknown"
                               THEN [noted EXCEPT ![c] = sch'[c[1]].rev] ELSE noted
            ELSE UNCHANGED <<occ, sch, noted>>
    BY <1>4 DEF RecoverOne
  <2>3. c \in Claim
    BY <1>0 DEF ProcessState
  <2>4. CASE ~Unresolved(occ[c])
    BY <1>4, <2>1, <2>2, <2>4 DEF GrantStep, Edited, SameClaims, SameCount
  <2>5. CASE Unresolved(occ[c])
    <3> DEFINE e == Evidence(c)
    <3>1. e \in {"abandoned", "executed", "unknown"}
      BY DEF Evidence
    <3>2. /\ occ' = [occ EXCEPT ![c].status = e]
          /\ sch' = CASE e \in {"released", "abandoned"} -> Refund(c)
                      [] e = "unknown" -> [sch EXCEPT ![c[1]] = PausedUnknown(@)]
                      [] OTHER -> sch
          /\ noted' = IF e = "unknown" THEN [noted EXCEPT ![c] = sch'[c[1]].rev] ELSE noted
      BY <2>2, <2>5, <3>1 DEF Resolve
    <3> HIDE DEF e
    <3>3. e \in {"released", "abandoned", "executed", "unknown"}
      BY <3>1
    <3> QED  BY <1>4, <2>1, <2>3, <2>5, <3>2, <3>3, SettleStep
  <2> QED  BY <2>4, <2>5
<1>5. ASSUME NEW v \in Worker, RecordExecuted(v) \/ RecordReleased(v), base' = base,
             origin' = origin
      PROVE  GrantStep(s)
  <2>1. issued' = issued /\ snap' = snap /\ noted' = noted
    BY <1>5 DEF RecordExecuted, RecordReleased
  <2>2. wk[v].cur \in Claim
    BY <1>5 DEF RecordExecuted, RecordReleased, TypeInv, HandsOK, HandOK, Executing
  <2>3. CASE ~Unresolved(occ[wk[v].cur])
    <3>1. occ' = occ /\ sch' = sch
      BY <1>5, <2>3 DEF RecordExecuted, RecordReleased, Unresolved, Refund
    <3> QED  BY <1>5, <2>1, <3>1 DEF GrantStep, Edited, SameClaims, SameCount
  <2>4. CASE Unresolved(occ[wk[v].cur]) /\ RecordExecuted(v)
    <3>1. occ' = [occ EXCEPT ![wk[v].cur].status = "executed"] /\ sch' = sch
      BY <2>4 DEF RecordExecuted, Resolve
    <3> QED  BY <1>5, <2>1, <2>2, <2>4, <3>1, SettleStep
  <2>5. CASE Unresolved(occ[wk[v].cur]) /\ RecordReleased(v)
    <3>1. occ' = [occ EXCEPT ![wk[v].cur].status = "released"] /\ sch' = Refund(wk[v].cur)
      BY <2>5 DEF RecordReleased, Resolve
    <3> QED  BY <1>5, <2>1, <2>2, <2>5, <3>1, SettleStep
  <2> QED  BY <1>5, <2>3, <2>4, <2>5
<1>6. ASSUME base' = base, origin' = origin,
             ~\E v \in Worker : \/ ClaimDue(v) \/ RecoverOne(v) \/ RecordExecuted(v)
                                \/ RecordReleased(v),
             ~\E u \in Sched : Operator(u)
      PROVE  GrantStep(s)
  <2>1. issued' = issued /\ snap' = snap /\ noted' = noted
    BY <1>6, HistoryWriters, NotedWriters
  <2>2. \A c \in Claim : occ'[c].status = occ[c].status
    <3>1. CASE occ' = occ
      BY <3>1
    <3>2. CASE \E v \in Worker : BindJob(v)
      BY <1>0, <3>2 DEF BindJob, Occurrence
    <3> QED  BY <1>6, <3>1, <3>2, OccurrenceWriters
  <2>3. sch'[s] \in {sch[s], Paused(sch[s])}
    <3>1. CASE sch' = sch
      BY <3>1
    <3>2. ASSUME NEW v \in Worker, Start(v) \/ DisableGrant(v) \/ StoreErrorAfterRun(v)
          PROVE  sch'[s] \in {sch[s], Paused(sch[s])}
      BY <1>0, <3>2 DEF Start, DisableGrant, StoreErrorAfterRun
    <3> QED  BY <1>6, <3>1, <3>2, RowWriters
  <2> QED  BY <1>6, <2>1, <2>2, <2>3 DEF GrantStep, Edited, SameClaims, SameCount, Own
<1> QED  BY <1>1, <1>2, <1>3, <1>4, <1>5, <1>6

-----------------------------------------------------------------------------
(* The claims of the current grant that hold a slot of its budget.          *)
HeldSlots(s) == {c \in CurrentClaims(s) : SlotHeld(c)}

(* A claim was written as holding a slot, or as holding none.               *)
SlotOK(c) ==
  /\ occ[c].status = "reserved" => snap[c].reserved
  /\ occ[c].status = "reserved_noslot" => ~snap[c].reserved

(* Where an outcome is unknown, the grant is at the revision at which this  *)
(* was noted, and off, or at a later one.                                   *)
RevisionOK(c) ==
  occ[c].status = "unknown" /\ sch[c[1]].row = "live" =>
    /\ sch[c[1]].rev >= noted[c]
    /\ sch[c[1]].enabled => sch[c[1]].rev > noted[c]

(* Every instant since the schedule was switched on is a claim, or missed,  *)
(* or ahead.                                                                *)
NothingSkipped(s) ==
  sch[s].row = "live" => sch[s].due = origin[s] + Period * (issued[s] + sch[s].missed)

(* The slots in use are those held, but for refunds from before a renewal.  *)
SlotsCounted(s) ==
  sch[s].row = "live" =>
    /\ sch[s].used <= Cardinality(HeldSlots(s))
    /\ Cardinality(HeldSlots(s)) <= sch[s].used + Cardinality(ReturnedEarlier(s))
    /\ sch[s].max > 0 => sch[s].used <= sch[s].max

GrantInv ==
  /\ \A c \in Claim : SlotOK(c) /\ RevisionOK(c)
  /\ \A s \in Sched : base[s] <= issued[s] /\ NothingSkipped(s) /\ SlotsCounted(s)

(* What the earlier invariants say of one schedule.                         *)
Known(s) ==
  /\ sch[s] \in Row /\ sch'[s] \in Row
  /\ issued[s] \in Nat /\ base[s] \in Nat /\ now \in Nat /\ origin[s] \in Int
  /\ sch[s].enabled => sch[s].row = "live"
  /\ sch[s].row = "absent" => issued[s] = 0
  /\ \A c \in Own(s) : /\ c \in Claim /\ c[1] = s /\ c[2] \in Nat \ {0}
                       /\ occ[c] \in Occurrence /\ occ'[c] \in Occurrence
                       /\ snap[c] \in Snapshot /\ snap'[c] \in Snapshot
                       /\ noted[c] \in Nat
                       /\ Issued(c) => c[2] <= issued[s]

(* And so of every schedule at every step.                                  *)
LEMMA KnownOfAll ==
  ASSUME TypeInv, ClaimsInv, DuesInv, [Next]_vars, NEW s \in Sched
  PROVE  Known(s)
<1>1. TypeInv'
  BY TypeStep
<1>2. \A c \in Own(s) : c \in Claim /\ c[1] = s /\ c[2] \in Nat \ {0}
  BY StoreAssumption DEF Own, Claim
<1>3. \A c \in Own(s) : Issued(c) => c[2] <= issued[s]
  BY <1>2 DEF ClaimsInv, TypeInv, TypeOK
<1> QED  BY <1>1, <1>2, <1>3 DEF Known, TypeInv, TypeOK, DuesInv

(* A schedule has finitely many claims.                                     *)
LEMMA OwnFinite ==
  ASSUME NEW s \in Sched
  PROVE  IsFiniteSet(Own(s))
<1>1. IsFiniteSet(1..MaxClaims)
  <2>1. MaxClaims \in Int
    BY StoreAssumption
  <2> QED  BY <2>1, FS_Interval
<1>2. IsFiniteSet({s} \X (1..MaxClaims))
  <2>1. IsFiniteSet({s})
    BY FS_Singleton
  <2> QED  BY <1>1, <2>1, FS_Product
<1>3. Own(s) \subseteq {s} \X (1..MaxClaims)
  BY DEF Own, Claim
<1> QED  BY <1>2, <1>3, FS_Subset

(* So what is counted are finite sets of them.                              *)
LEMMA Countable ==
  ASSUME NEW s \in Sched
  PROVE  /\ IsFiniteSet(HeldSlots(s)) /\ Cardinality(HeldSlots(s)) \in Nat
         /\ IsFiniteSet(ReturnedEarlier(s)) /\ Cardinality(ReturnedEarlier(s)) \in Nat
         /\ Cardinality(ReturnedEarlier(s)') \in Nat
<1>1. /\ HeldSlots(s) \subseteq Own(s) /\ ReturnedEarlier(s) \subseteq Own(s)
      /\ ReturnedEarlier(s)' \subseteq Own(s)
  BY DEF HeldSlots, CurrentClaims, ReturnedEarlier, Own
<1>2. \A S : S \subseteq Own(s) => IsFiniteSet(S) /\ Cardinality(S) \in Nat
  BY OwnFinite, FS_Subset, FS_CardinalityType
<1> QED  BY <1>1, <1>2

-----------------------------------------------------------------------------
(* The claims hold or do not hold a slot, as they were written.             *)
LEMMA SlotKept ==
  ASSUME NEW s \in Sched, Known(s), GrantStep(s), \A c \in Own(s) : SlotOK(c),
         NEW c \in Own(s)
  PROVE  SlotOK(c)'
<1> USE DEF SlotOK, Known
<1>1. CASE Edited(s) \/ RenewedStep(s)
  BY <1>1 DEF Edited, RenewedStep, SameClaims
<1>2. CASE TakenStep(s)
  BY <1>2 DEF TakenStep, TakenSnapshot
<1>3. CASE SettledStep(s)
  BY <1>3 DEF SettledStep
<1> QED  BY <1>1, <1>2, <1>3 DEF GrantStep

(* What the processes' operations do to revision, switch and row.           *)
LEMMA RevisionOf ==
  ASSUME NEW g \in Row
  PROVE  /\ Paused(g).row = g.row
         /\ Paused(g).rev = IF g.enabled THEN g.rev + 1 ELSE g.rev
         /\ ~Paused(g).enabled
         /\ Refunded(g).row = g.row /\ Refunded(g).rev = g.rev
         /\ Refunded(g).enabled = g.enabled
         /\ g.row = "live" => /\ PausedUnknown(g).row = "live"
                              /\ PausedUnknown(g).rev = g.rev + 1
                              /\ ~PausedUnknown(g).enabled
         /\ g.row # "live" => PausedUnknown(g) = g
<1>1. /\ Paused(g).row = g.row
      /\ Paused(g).rev = IF g.enabled THEN g.rev + 1 ELSE g.rev
      /\ ~Paused(g).enabled
  BY DEF Paused, Row
<1>2. /\ Refunded(g).row = g.row /\ Refunded(g).rev = g.rev
      /\ Refunded(g).enabled = g.enabled
  BY DEF Refunded, Row
<1>3. /\ g.row = "live" => /\ PausedUnknown(g).row = "live"
                           /\ PausedUnknown(g).rev = g.rev + 1
                           /\ ~PausedUnknown(g).enabled
      /\ g.row # "live" => PausedUnknown(g) = g
  BY DEF PausedUnknown, Row
<1> QED  BY <1>1, <1>2, <1>3

(* And those that depend on the time.                                       *)
LEMMA RevisionAt ==
  ASSUME NEW g \in Row, NEW t \in Nat
  PROVE  /\ Resumed(g, t).row = g.row /\ Resumed(g, t).enabled
         /\ Resumed(g, t).rev = IF g.enabled THEN g.rev ELSE g.rev + 1
         /\ Taken(g, t).row = g.row /\ Taken(g, t).rev = g.rev
         /\ Taken(g, t).enabled = g.enabled
<1>1. /\ Resumed(g, t).row = g.row /\ Resumed(g, t).enabled
      /\ Resumed(g, t).rev = IF g.enabled THEN g.rev ELSE g.rev + 1
  BY DEF Resumed, Row
<1>2. /\ Taken(g, t).row = g.row /\ Taken(g, t).rev = g.rev
      /\ Taken(g, t).enabled = g.enabled
  BY DEF Taken, Row
<1> QED  BY <1>1, <1>2

(* A renewal is a revision.                                                 *)
LEMMA RevisionRenewed ==
  ASSUME NEW g \in Row, NEW s, NEW t, NEW max, NEW enable
  PROVE  /\ Renewed(s, g, t, max, enable).row = g.row
         /\ Renewed(s, g, t, max, enable).rev = g.rev + 1
         /\ Renewed(s, g, t, max, enable).used = 0
  BY DEF Renewed, Row

(* Only a human's request follows the pause of an unknown outcome.          *)
LEMMA RevisionKept ==
  ASSUME NEW s \in Sched, Known(s), GrantStep(s), \A c \in Own(s) : RevisionOK(c),
         NEW c \in Own(s)
  PROVE  RevisionOK(c)'
<1>0. /\ sch[s] \in Row /\ sch[s].rev \in Nat /\ sch'[s] \in Row /\ sch'[s].rev \in Nat
      /\ noted[c] \in Nat /\ c[1] = s /\ now \in Nat
      /\ sch[s].row = "absent" => ~Issued(c)
      /\ RevisionOK(c)
  BY DEF Known, Row
<1>1. ASSUME noted'[c] = noted[c], occ'[c].status = occ[c].status,
             \/ sch'[s].row # "live"
             \/ /\ sch'[s].row = sch[s].row /\ sch'[s].rev >= sch[s].rev
                /\ sch'[s].enabled => sch[s].enabled \/ sch'[s].rev = sch[s].rev + 1
      PROVE  RevisionOK(c)'
  BY <1>0, <1>1 DEF RevisionOK
<1>2. CASE Edited(s)
  <2>1. noted'[c] = noted[c] /\ occ'[c].status = occ[c].status
    BY <1>2 DEF Edited, SameClaims
  <2>2. CASE sch'[s] = sch[s] \/ sch'[s] = [sch[s] EXCEPT !.enabled = FALSE]
    BY <1>0, <1>1, <2>1, <2>2 DEF Row
  <2>3. CASE sch'[s] = NoRow("deleted")
    BY <1>1, <2>1, <2>3 DEF NoRow
  <2>4. CASE sch'[s] = Paused(sch[s])
    BY <1>0, <1>1, <2>1, <2>4, RevisionOf
  <2>5. CASE sch'[s] = Resumed(sch[s], now)
    BY <1>0, <1>1, <2>1, <2>5, RevisionAt
  <2>6. CASE sch[s].row = "absent"
    BY <1>0, <2>1, <2>6 DEF RevisionOK, Issued
  <2> QED  BY <1>2, <2>2, <2>3, <2>4, <2>5, <2>6 DEF Edited
<1>3. CASE RenewedStep(s)
  <2>1. PICK max \in Budgets, enable \in {"keep", "on", "off"} :
          sch'[s] = Renewed(s, sch[s], now, max, enable)
    BY <1>3 DEF RenewedStep
  <2>2. sch'[s].row = sch[s].row /\ sch'[s].rev = sch[s].rev + 1
    BY <1>0, <2>1, RevisionRenewed
  <2> QED  BY <1>0, <1>1, <1>3, <2>2 DEF RenewedStep, SameClaims
<1>4. CASE TakenStep(s)
  <2>1. PICK t \in Nat :
          /\ sch'[s] = Taken(sch[s], t)
          /\ \/ occ'[c].status \in {"reserved", "reserved_noslot"}
             \/ noted'[c] = noted[c] /\ occ'[c].status = occ[c].status
    BY <1>4 DEF TakenStep
  <2>2. /\ sch'[s].row = sch[s].row /\ sch'[s].rev = sch[s].rev
        /\ sch'[s].enabled = sch[s].enabled
    BY <1>0, <2>1, RevisionAt
  <2> QED  BY <1>0, <1>1, <2>1, <2>2 DEF RevisionOK
<1>5. CASE SettledStep(s)
  <2>1. PICK d \in Own(s) :
          /\ c # d => occ'[c].status = occ[c].status /\ noted'[c] = noted[c]
          /\ \/ occ'[d].status # "unknown" /\ sch'[s] \in {sch[s], Refunded(sch[s])}
             \/ /\ occ'[d].status = "unknown" /\ sch'[s] = PausedUnknown(sch[s])
                /\ noted'[d] = sch'[s].rev
    BY <1>5 DEF SettledStep
  <2>2. CASE sch'[s] = PausedUnknown(sch[s])
    <3>1. \/ sch[s].row = "live" /\ sch'[s].rev = sch[s].rev + 1 /\ ~sch'[s].enabled
          \/ sch[s].row # "live" /\ sch'[s] = sch[s]
      BY <1>0, <2>2, RevisionOf
    <3> QED  BY <1>0, <2>1, <2>2, <3>1 DEF RevisionOK
  <2>3. CASE occ'[d].status # "unknown" /\ sch'[s] \in {sch[s], Refunded(sch[s])}
    <3>1. /\ sch'[s].row = sch[s].row /\ sch'[s].rev = sch[s].rev
          /\ sch'[s].enabled = sch[s].enabled
      BY <1>0, <2>3, RevisionOf
    <3> QED  BY <1>0, <2>1, <2>3, <3>1 DEF RevisionOK
  <2> QED  BY <2>1, <2>2, <2>3
<1> QED  BY <1>2, <1>3, <1>4, <1>5 DEF GrantStep

-----------------------------------------------------------------------------
(* catch_up leaves a whole number of cadences behind, one of them claimed,  *)
(* the others missed.                                                       *)
LEMMA CatchUpWhole ==
  ASSUME NEW due \in Nat, NEW t \in Nat, due <= t
  PROVE  \E n \in Nat : /\ CatchUp(due, t).missed + 1 = n
                        /\ CatchUp(due, t).due = due + n * Period
<1> DEFINE n == (t - due) \div Period + 1
<1>1. n \in Nat
  BY WholeCadences
<1>2. CatchUp(due, t) = [missed |-> n - 1, due |-> due + n * Period]
  BY DEF CatchUp
<1> HIDE DEF n
<1> QED  BY <1>1, <1>2

(* Taking a claim moves the due instant on by what it claims and misses.    *)
LEMMA TakenWhole ==
  ASSUME NEW g \in Row, NEW t \in Nat, g.due <= t
  PROVE  /\ Taken(g, t).row = g.row /\ Taken(g, t).rev = g.rev
         /\ \E n \in Nat : /\ Taken(g, t).missed + 1 = g.missed + n
                           /\ Taken(g, t).due = g.due + n * Period
<1>1. /\ Taken(g, t).row = g.row /\ Taken(g, t).rev = g.rev
      /\ Taken(g, t).missed = g.missed + CatchUp(g.due, t).missed
      /\ Taken(g, t).due = CatchUp(g.due, t).due
  BY DEF Taken, Row
<1>2. PICK n \in Nat : /\ CatchUp(g.due, t).missed + 1 = n
                      /\ CatchUp(g.due, t).due = g.due + n * Period
  BY CatchUpWhole DEF Row
<1>3. CatchUp(g.due, t).missed \in Nat /\ g.missed \in Nat
  BY CatchUpAdvances DEF Row
<1>4. Taken(g, t).missed + 1 = g.missed + n
  BY <1>1, <1>2, <1>3
<1> QED  BY <1>1, <1>2, <1>4

(* A product grows by what a factor grows.                                  *)
LEMMA Distributes ==
  ASSUME NEW a \in Nat, NEW n \in Nat
  PROVE  Period * (a + n) = Period * a + n * Period
  BY StoreAssumption

(* Switching a schedule on moves its due instant and where it counts from   *)
(* together; taking a claim moves it by what it claims and misses; nothing  *)
(* else moves it.                                                           *)
LEMMA NothingSkippedKept ==
  ASSUME NEW s \in Sched, Known(s), GrantStep(s), NothingSkipped(s)
  PROVE  NothingSkipped(s)'
<1> DEFINE k == issued[s] + sch[s].missed
<1>0. /\ sch[s] \in Row /\ sch[s].due \in Nat /\ sch[s].missed \in Nat
      /\ issued[s] \in Nat /\ now \in Nat /\ origin[s] \in Int /\ k \in Nat
      /\ Period \in Nat /\ Period * k \in Nat /\ NextRun(now) \in Nat
      /\ sch[s].row = "absent" => issued[s] = 0
      /\ sch[s].enabled => sch[s].row = "live"
  BY StoreAssumption DEF Known, Row, NextRun
<1>1. ASSUME issued'[s] = issued[s], origin'[s] = origin[s],
             \/ sch'[s] \in {sch[s], Paused(sch[s]), PausedUnknown(sch[s]),
                             Refunded(sch[s]), [sch[s] EXCEPT !.enabled = FALSE]}
             \/ \E max \in Budgets, enable \in {"keep", "off"} :
                  sch'[s] = Renewed(s, sch[s], now, max, enable)
      PROVE  NothingSkipped(s)'
  <2>1. /\ sch'[s].row = sch[s].row /\ sch'[s].due = sch[s].due
        /\ sch'[s].missed = sch[s].missed
    <3>1. CASE sch'[s] \in {sch[s], Refunded(sch[s]), [sch[s] EXCEPT !.enabled = FALSE]}
      BY <1>0, <3>1 DEF Refunded, Row
    <3>2. CASE sch'[s] = Paused(sch[s])
      BY <1>0, <3>2 DEF Paused, Row
    <3>3. CASE sch'[s] = PausedUnknown(sch[s])
      BY <1>0, <3>3 DEF PausedUnknown, Row
    <3>4. ASSUME NEW max \in Budgets, NEW enable \in {"keep", "off"},
                 sch'[s] = Renewed(s, sch[s], now, max, enable)
          PROVE  /\ sch'[s].row = sch[s].row /\ sch'[s].due = sch[s].due
                 /\ sch'[s].missed = sch[s].missed
      BY <1>0, <3>4 DEF Renewed, Row
    <3> QED  BY <1>1, <3>1, <3>2, <3>3, <3>4
  <2> QED  BY <1>1, <2>1 DEF NothingSkipped
<1>2. ASSUME issued'[s] = issued[s], origin'[s] = Restarted(s),
             sch'[s].due = NextRun(now), sch'[s].missed = sch[s].missed
      PROVE  NothingSkipped(s)'
  <2>1. origin'[s] = NextRun(now) - Period * k /\ issued'[s] + sch'[s].missed = k
    BY <1>2 DEF Restarted
  <2> HIDE DEF k
  <2>2. sch'[s].due = origin'[s] + Period * k
    BY <1>0, <1>2, <2>1
  <2> QED  BY <2>1, <2>2 DEF NothingSkipped
<1>3. CASE Edited(s)
  <2>1. issued'[s] = issued[s]
    BY <1>3 DEF Edited, SameCount
  <2>2. CASE /\ sch'[s] \in {sch[s], Paused(sch[s]), [sch[s] EXCEPT !.enabled = FALSE]}
             /\ origin'[s] = origin[s]
    BY <1>1, <2>1, <2>2
  <2>3. CASE ~sch[s].enabled /\ sch'[s] = Resumed(sch[s], now) /\ origin'[s] = Restarted(s)
    <3>1. sch'[s].due = NextRun(now) /\ sch'[s].missed = sch[s].missed
      BY <1>0, <2>3 DEF Resumed, Row
    <3> QED  BY <1>2, <2>1, <2>3, <3>1
  <2>4. CASE sch'[s] = NoRow("deleted")
    BY <2>4 DEF NothingSkipped, NoRow
  <2>5. ASSUME sch[s].row = "absent", NEW max \in Budgets, sch'[s] = NewGrant(s, now, max),
               origin'[s] = NextRun(now)
        PROVE  NothingSkipped(s)'
    <3>1. sch'[s].due = NextRun(now) /\ sch'[s].missed = 0
      BY <2>5 DEF NewGrant
    <3>2. Period * (issued'[s] + sch'[s].missed) = 0
      BY <1>0, <2>1, <2>5, <3>1
    <3> QED  BY <1>0, <2>5, <3>1, <3>2 DEF NothingSkipped
  <2> QED  BY <1>3, <2>2, <2>3, <2>4, <2>5 DEF Edited
<1>4. CASE RenewedStep(s)
  <2>1. PICK max \in Budgets, enable \in {"keep", "on", "off"} :
          /\ sch'[s] = Renewed(s, sch[s], now, max, enable)
          /\ origin'[s] = IF enable = "on" THEN Restarted(s) ELSE origin[s]
    BY <1>4 DEF RenewedStep
  <2>2. issued'[s] = issued[s]
    BY <1>4 DEF RenewedStep
  <2>3. CASE enable = "on"
    <3>1. sch'[s].due = NextRun(now) /\ sch'[s].missed = sch[s].missed
      BY <1>0, <2>1, <2>3 DEF Renewed, Row
    <3> QED  BY <1>2, <2>1, <2>2, <2>3, <3>1
  <2>4. CASE enable # "on"
    <3>1. enable \in {"keep", "off"}
      BY <2>4
    <3> QED  BY <1>1, <2>1, <2>2, <2>4, <3>1
  <2> QED  BY <2>3, <2>4
<1>5. CASE TakenStep(s)
  <2>1. PICK t \in Nat :
          /\ sch[s].enabled /\ sch[s].due <= t
          /\ sch'[s] = Taken(sch[s], t) /\ issued'[s] = issued[s] + 1
    BY <1>5 DEF TakenStep
  <2>2. origin'[s] = origin[s]
    BY <1>5 DEF TakenStep
  <2>3. PICK n \in Nat : /\ sch'[s].missed + 1 = sch[s].missed + n
                        /\ sch'[s].due = sch[s].due + n * Period
    BY <1>0, <2>1, TakenWhole
  <2>4. sch'[s].missed \in Nat
    BY DEF Known, Row
  <2>5. issued'[s] + sch'[s].missed = k + n
    <3> DEFINE i == issued[s]
               j == issued'[s]
               m == sch[s].missed
               o == sch'[s].missed
    <3>1. i \in Nat /\ m \in Nat /\ o \in Nat /\ j = i + 1 /\ o + 1 = m + n /\ k = i + m
      BY <1>0, <2>1, <2>3, <2>4
    <3> HIDE DEF i, j, m, o, k
    <3>2. j + o = k + n
      BY <3>1
    <3> QED  BY <3>2 DEF j, o
  <2>6. sch[s].due = origin[s] + Period * k
    BY <1>0, <2>1 DEF NothingSkipped
  <2> HIDE DEF k
  <2>7. Period * (k + n) = Period * k + n * Period
    BY <1>0, Distributes
  <2> DEFINE p == Period * k
             q == n * Period
  <2>8. p \in Nat /\ q \in Nat
    BY <1>0
  <2>9. Period * (issued'[s] + sch'[s].missed) = p + q
    BY <2>5, <2>7
  <2>10. sch[s].due = origin[s] + p /\ sch'[s].due = sch[s].due + q
    BY <2>3, <2>6
  <2> HIDE DEF p, q
  <2>11. sch'[s].due = origin'[s] + (p + q)
    BY <1>0, <2>2, <2>8, <2>10
  <2> QED  BY <2>9, <2>11 DEF NothingSkipped
<1>6. CASE SettledStep(s)
  <2>1. /\ sch'[s] \in {sch[s], Refunded(sch[s]), PausedUnknown(sch[s])}
        /\ issued'[s] = issued[s] /\ origin'[s] = origin[s]
    BY <1>6 DEF SettledStep, SameCount
  <2> QED  BY <1>1, <2>1
<1> QED  BY <1>3, <1>4, <1>5, <1>6 DEF GrantStep

-----------------------------------------------------------------------------
(* What the operations do to the count of slots.                            *)
LEMMA UsedOf ==
  ASSUME NEW g \in Row, NEW t \in Nat,
         NEW h \in {Paused(g), PausedUnknown(g), Resumed(g, t),
                    [g EXCEPT !.enabled = FALSE]}
  PROVE  h.row = g.row /\ h.used = g.used /\ h.max = g.max
<1>1. CASE h = Paused(g)
  BY <1>1 DEF Paused, Row
<1>2. CASE h = PausedUnknown(g)
  BY <1>2 DEF PausedUnknown, Row
<1>3. CASE h = Resumed(g, t)
  BY <1>3 DEF Resumed, Row
<1>4. CASE h = [g EXCEPT !.enabled = FALSE]
  BY <1>4 DEF Row
<1> QED  BY <1>1, <1>2, <1>3, <1>4

(* A refund takes a slot off the count, a claim within the budget adds one. *)
LEMMA UsedMoves ==
  ASSUME NEW g \in Row, NEW t \in Nat
  PROVE  /\ Refunded(g).row = g.row /\ Refunded(g).max = g.max
         /\ Refunded(g).used = IF g.used > 0 THEN g.used - 1 ELSE 0
         /\ Taken(g, t).row = g.row /\ Taken(g, t).max = g.max
         /\ Taken(g, t).used = IF HasBudget(g) THEN g.used + 1 ELSE g.used
<1>1. /\ Refunded(g).row = g.row /\ Refunded(g).max = g.max
      /\ Refunded(g).used = IF g.used > 0 THEN g.used - 1 ELSE 0
  BY DEF Refunded, Row
<1>2. /\ Taken(g, t).row = g.row /\ Taken(g, t).max = g.max
      /\ Taken(g, t).used = IF HasBudget(g) THEN g.used + 1 ELSE g.used
  BY DEF Taken, Row
<1> QED  BY <1>1, <1>2

(* The count is right as long as neither it nor what it counts changes.     *)
LEMMA SameIsCounted ==
  ASSUME NEW s \in Sched, SlotsCounted(s),
         HeldSlots(s)' = HeldSlots(s), ReturnedEarlier(s)' = ReturnedEarlier(s),
         sch'[s].row = sch[s].row, sch'[s].used = sch[s].used, sch'[s].max = sch[s].max
  PROVE  SlotsCounted(s)'
  BY DEF SlotsCounted

(* A schedule without claims of its current grant has used none.            *)
LEMMA NoneIsCounted ==
  ASSUME NEW s \in Sched, HeldSlots(s)' = {}, sch'[s].used = 0, sch'[s].max \in Nat
  PROVE  SlotsCounted(s)'
<1>1. Cardinality(HeldSlots(s)') = 0
  BY FS_EmptySet
<1>2. Cardinality(ReturnedEarlier(s)') \in Nat
  BY Countable
<1> QED  BY <1>1, <1>2 DEF SlotsCounted

(* A claim taken holds a slot exactly if the budget had one.                *)
LEMMA TakenIsCounted ==
  ASSUME NEW s \in Sched, Known(s), TakenStep(s), SlotsCounted(s), base[s] <= issued[s]
  PROVE  SlotsCounted(s)'
<1>1. PICK t \in Nat :
        LET n == <<s, issued[s] + 1>>
        IN  /\ sch[s].enabled
            /\ sch'[s] = Taken(sch[s], t)
            /\ base'[s] = base[s]
            /\ n \in Own(s)
            /\ snap'[n] = TakenSnapshot(sch[s], t)
            /\ occ'[n].status = IF HasBudget(sch[s]) THEN "reserved" ELSE "reserved_noslot"
            /\ \A c \in Own(s) \ {n} : snap'[c] = snap[c] /\ occ'[c].status = occ[c].status
  BY DEF TakenStep
<1> DEFINE n == <<s, issued[s] + 1>>
<1>2. n \in Own(s) /\ n[1] = s /\ n[2] = issued[s] + 1
  BY <1>1
<1> HIDE DEF n
<1>3. ~Issued(n) /\ n[2] > base[s]
  BY <1>2 DEF Known
<1>4. ReturnedEarlier(s)' = ReturnedEarlier(s)
  <2>1. ReturnedEarlier(s) \subseteq Own(s) /\ ReturnedEarlier(s)' \subseteq Own(s)
    BY DEF ReturnedEarlier, Own
  <2>2. base[s] \in Nat /\ base'[s] = base[s]
    BY <1>1 DEF Known
  <2>3. n \notin ReturnedEarlier(s) /\ n \notin ReturnedEarlier(s)'
    BY <1>2, <1>3, <2>2 DEF ReturnedEarlier, Known
  <2>4. \A c \in Own(s) : c # n => (c \in ReturnedEarlier(s)' <=> c \in ReturnedEarlier(s))
    BY <1>1, <2>2 DEF ReturnedEarlier, Own, n
  <2> QED  BY <2>1, <2>3, <2>4
<1>5. HeldSlots(s)' = IF HasBudget(sch[s]) THEN HeldSlots(s) \cup {n} ELSE HeldSlots(s)
  <2>1. snap'[n].reserved = HasBudget(sch[s])
    BY <1>1 DEF TakenSnapshot, n
  <2>2. \A c \in Own(s) : c # n => (c \in HeldSlots(s)' <=> c \in HeldSlots(s))
    BY <1>1 DEF HeldSlots, CurrentClaims, SlotHeld, Issued, Own, n
  <2>3. n \in HeldSlots(s)' <=> HasBudget(sch[s])
    BY <1>1, <1>2, <1>3, <2>1 DEF HeldSlots, CurrentClaims, SlotHeld, Issued, Own, n
  <2>4. n \notin HeldSlots(s)
    BY <1>3 DEF HeldSlots, CurrentClaims
  <2>5. HeldSlots(s) \subseteq Own(s) /\ HeldSlots(s)' \subseteq Own(s)
    BY DEF HeldSlots, CurrentClaims, Own
  <2> QED  BY <1>2, <2>2, <2>3, <2>4, <2>5
<1>6. n \notin HeldSlots(s)
  BY <1>3 DEF HeldSlots, CurrentClaims
<1>7. Cardinality(HeldSlots(s)')
        = Cardinality(HeldSlots(s)) + (IF HasBudget(sch[s]) THEN 1 ELSE 0)
  <2>1. Cardinality(HeldSlots(s) \cup {n}) = Cardinality(HeldSlots(s)) + 1
    BY <1>6, Countable, FS_AddElement
  <2>2. Cardinality(HeldSlots(s)) + 0 = Cardinality(HeldSlots(s))
    BY Countable
  <2> QED  BY <1>5, <2>1, <2>2
<1>8. /\ sch'[s].row = sch[s].row /\ sch'[s].max = sch[s].max
      /\ sch'[s].used = IF HasBudget(sch[s]) THEN sch[s].used + 1 ELSE sch[s].used
      /\ sch[s].row = "live"
  BY <1>1, UsedMoves DEF Known
<1>9. sch[s].used \in Nat /\ sch[s].max \in Nat
  BY DEF Known, Row
<1> QED  BY <1>4, <1>7, <1>8, <1>9, Countable DEF SlotsCounted, HasBudget

(* A claim settled keeps its slot or gives it back.                         *)
LEMMA SettledIsCounted ==
  ASSUME NEW s \in Sched, Known(s), SettledStep(s), SlotsCounted(s),
         \A c \in Own(s) : SlotOK(c)
  PROVE  SlotsCounted(s)'
<1>0. /\ sch[s] \in Row /\ sch[s].used \in Nat /\ sch[s].max \in Nat /\ now \in Nat
      /\ base'[s] = base[s] /\ base[s] \in Nat
  BY DEF Known, Row, SettledStep, SameCount
<1>1. PICK c \in Own(s) :
        /\ Unresolved(occ[c])
        /\ \A d \in Own(s) : snap'[d] = snap[d] /\ (d # c => occ'[d].status = occ[d].status)
        /\ \/ /\ occ'[c].status \in {"released", "abandoned"}
              /\ sch'[s] = IF occ[c].status = "reserved" THEN Refunded(sch[s]) ELSE sch[s]
           \/ occ'[c].status = "executed" /\ sch'[s] = sch[s]
           \/ occ'[c].status = "unknown" /\ sch'[s] = PausedUnknown(sch[s])
  BY DEF SettledStep
<1>2. /\ c \in Claim /\ c[1] = s /\ c[2] \in Nat /\ SlotOK(c)
      /\ c \notin ReturnedEarlier(s)
  BY <1>1 DEF Known, ReturnedEarlier, Unresolved
<1>3. /\ HeldSlots(s) \subseteq Own(s) /\ HeldSlots(s)' \subseteq Own(s)
      /\ ReturnedEarlier(s) \subseteq Own(s) /\ ReturnedEarlier(s)' \subseteq Own(s)
  BY DEF HeldSlots, CurrentClaims, ReturnedEarlier, Own
<1>4. \A d \in Own(s) : d # c => (d \in HeldSlots(s)' <=> d \in HeldSlots(s))
  BY <1>0, <1>1 DEF HeldSlots, CurrentClaims, SlotHeld, Issued, Own
<1>8. \A d \in Own(s) : d # c => (d \in ReturnedEarlier(s)' <=> d \in ReturnedEarlier(s))
  BY <1>0, <1>1 DEF Own, ReturnedEarlier
<1>5. c \in HeldSlots(s) <=> occ[c].status = "reserved" /\ c[2] > base[s]
  BY <1>1, <1>2 DEF HeldSlots, CurrentClaims, SlotHeld, Issued, SlotOK, Unresolved
<1>6. CASE occ'[c].status \in {"executed", "unknown"}
  <2>1. c \in HeldSlots(s)' <=> c \in HeldSlots(s)
    BY <1>0, <1>1, <1>2, <1>6 DEF HeldSlots, CurrentClaims, SlotHeld, Issued, SlotOK, Unresolved
  <2>2. c \notin ReturnedEarlier(s)'
    BY <1>6 DEF ReturnedEarlier
  <2>3. HeldSlots(s)' = HeldSlots(s) /\ ReturnedEarlier(s)' = ReturnedEarlier(s)
    <3>1. \A d \in Own(s) : d \in HeldSlots(s)' <=> d \in HeldSlots(s)
      BY <1>4, <2>1
    <3>2. \A d \in Own(s) : d \in ReturnedEarlier(s)' <=> d \in ReturnedEarlier(s)
      BY <1>2, <1>8, <2>2
    <3> QED  BY <1>3, <3>1, <3>2
  <2>4. sch'[s].row = sch[s].row /\ sch'[s].used = sch[s].used /\ sch'[s].max = sch[s].max
    BY <1>0, <1>1, <1>6, UsedOf
  <2> QED  BY <2>3, <2>4, SameIsCounted
<1>7. CASE occ'[c].status \in {"released", "abandoned"}
  <2>1. c \notin HeldSlots(s)' /\ (c \in ReturnedEarlier(s)' <=> c[2] <= base[s])
    BY <1>0, <1>2, <1>7 DEF HeldSlots, SlotHeld, ReturnedEarlier
  <2>2. /\ HeldSlots(s)' = HeldSlots(s) \ {c}
        /\ ReturnedEarlier(s)' = IF c[2] <= base[s] THEN ReturnedEarlier(s) \cup {c}
                                                    ELSE ReturnedEarlier(s)
    <3>1. \A d \in Own(s) : d \in HeldSlots(s)' <=> d \in HeldSlots(s) /\ d # c
      BY <1>4, <2>1
    <3>6. \A d \in Own(s) : d \in ReturnedEarlier(s)'
                             <=> d \in ReturnedEarlier(s) \/ (d = c /\ c[2] <= base[s])
      BY <1>2, <1>8, <2>1
    <3>2. c \in Own(s)
      BY <1>1
    <3>3. HeldSlots(s)' = HeldSlots(s) \ {c}
      BY <1>3, <3>1, <3>2
    <3>4. c[2] <= base[s] => ReturnedEarlier(s)' = ReturnedEarlier(s) \cup {c}
      BY <1>3, <3>6, <3>2
    <3>5. ~(c[2] <= base[s]) => ReturnedEarlier(s)' = ReturnedEarlier(s)
      BY <1>3, <3>6, <3>2
    <3> QED  BY <3>3, <3>4, <3>5
  <2>3. /\ Cardinality(HeldSlots(s)')
             = Cardinality(HeldSlots(s)) - (IF c \in HeldSlots(s) THEN 1 ELSE 0)
        /\ Cardinality(ReturnedEarlier(s)')
             = Cardinality(ReturnedEarlier(s)) + (IF c[2] <= base[s] THEN 1 ELSE 0)
    <3>1. IsFiniteSet(HeldSlots(s)) /\ IsFiniteSet(ReturnedEarlier(s))
      BY Countable
    <3>2. Cardinality(HeldSlots(s)) \in Nat /\ Cardinality(ReturnedEarlier(s)) \in Nat
      BY Countable
    <3>3. Cardinality(HeldSlots(s) \ {c})
             = IF c \in HeldSlots(s) THEN Cardinality(HeldSlots(s)) - 1
                                     ELSE Cardinality(HeldSlots(s))
      BY <3>1, FS_RemoveElement
    <3>4. Cardinality(ReturnedEarlier(s) \cup {c}) = Cardinality(ReturnedEarlier(s)) + 1
      BY <1>2, <3>1, FS_AddElement
    <3> QED  BY <2>2, <3>2, <3>3, <3>4
  <2>4. /\ sch'[s].row = sch[s].row /\ sch'[s].max = sch[s].max
        /\ sch'[s].used = IF occ[c].status = "reserved" /\ sch[s].used > 0
                            THEN sch[s].used - 1 ELSE sch[s].used
    BY <1>0, <1>1, <1>7, UsedMoves
  <2> DEFINE h == Cardinality(HeldSlots(s))
             r == Cardinality(ReturnedEarlier(s))
             k == Cardinality(HeldSlots(s)')
             q == Cardinality(ReturnedEarlier(s)')
             u == sch[s].used
             v == sch'[s].used
  <2>5. h \in Nat /\ r \in Nat /\ u \in Nat /\ (c \in HeldSlots(s) => h > 0)
    BY <1>0, Countable, FS_EmptySet
  <2>6. ASSUME sch[s].row = "live"
        PROVE  v <= k /\ k <= v + q /\ (sch[s].max > 0 => v <= sch[s].max)
    <3>1. u <= h /\ h <= u + r /\ (sch[s].max > 0 => u <= sch[s].max)
      BY <2>6 DEF SlotsCounted
    <3> QED  BY <1>0, <1>2, <1>5, <2>3, <2>4, <2>5, <3>1
  <2> QED  BY <2>4, <2>6 DEF SlotsCounted
<1> QED  BY <1>1, <1>6, <1>7

(* The slots are counted right, through every step.                         *)
LEMMA SlotsStayCounted ==
  ASSUME NEW s \in Sched, Known(s), GrantStep(s), SlotsCounted(s), base[s] <= issued[s],
         \A c \in Own(s) : SlotOK(c)
  PROVE  SlotsCounted(s)' /\ base'[s] <= issued'[s]
<1>0. /\ sch[s] \in Row /\ sch[s].max \in Nat /\ now \in Nat
      /\ base[s] \in Nat /\ issued[s] \in Nat
  BY DEF Known, Row
<1>1. base'[s] <= issued'[s]
  BY <1>0 DEF GrantStep, Edited, RenewedStep, TakenStep, SettledStep, SameCount
<1> SUFFICES SlotsCounted(s)'
  BY <1>1
<1>2. CASE Edited(s)
  <2>1. /\ HeldSlots(s)' = HeldSlots(s)
        /\ ReturnedEarlier(s)' = ReturnedEarlier(s)
    BY <1>2 DEF Edited, SameClaims, SameCount, HeldSlots, CurrentClaims, SlotHeld,
                Issued, ReturnedEarlier, Own
  <2>2. CASE sch'[s] \in {sch[s], Paused(sch[s]), [sch[s] EXCEPT !.enabled = FALSE],
                          Resumed(sch[s], now)}
    <3> DEFINE g == sch[s]
               h == sch'[s]
    <3>1. g \in Row /\ h \in {g, Paused(g), [g EXCEPT !.enabled = FALSE], Resumed(g, now)}
      BY <1>0, <2>2
    <3> HIDE DEF g, h
    <3>2. ASSUME h # g
          PROVE  h.row = g.row /\ h.used = g.used /\ h.max = g.max
      <4>1. h \in {Paused(g), PausedUnknown(g), Resumed(g, now), [g EXCEPT !.enabled = FALSE]}
        BY <3>1, <3>2
      <4> QED  BY <1>0, <3>1, <4>1, UsedOf
    <3>3. h.row = g.row /\ h.used = g.used /\ h.max = g.max
      BY <3>2
    <3> QED  BY <2>1, <3>3, SameIsCounted DEF g, h
  <2>3. CASE sch'[s] = NoRow("deleted")
    <3>1. sch'[s].row # "live"
      BY <2>3 DEF NoRow
    <3> QED  BY <3>1 DEF SlotsCounted
  <2>4. ASSUME sch[s].row = "absent", NEW max \in Budgets, sch'[s] = NewGrant(s, now, max)
        PROVE  SlotsCounted(s)'
    <3>1. \A c \in Own(s) : ~Issued(c)
      BY <1>0, <2>4 DEF Known
    <3>2. HeldSlots(s) = {}
      BY <3>1 DEF HeldSlots, CurrentClaims, Own
    <3>3. sch'[s].used = 0 /\ sch'[s].max \in Nat
      BY <2>4, StoreAssumption DEF NewGrant
    <3> QED  BY <2>1, <3>2, <3>3, NoneIsCounted
  <2> QED  BY <1>2, <2>2, <2>3, <2>4 DEF Edited
<1>3. CASE RenewedStep(s)
  <2>1. HeldSlots(s)' = {}
    <3>1. \A c \in Own(s) : Issued(c)' => c[2] <= issued[s] /\ c[2] \in Nat
      BY <1>3 DEF RenewedStep, SameClaims, Issued, Known
    <3> QED  BY <1>0, <1>3, <3>1 DEF RenewedStep, HeldSlots, CurrentClaims, Own
  <2>2. sch'[s].used = 0
    BY <1>0, <1>3, RevisionRenewed DEF RenewedStep
  <2>3. sch'[s].max \in Nat
    BY DEF Known, Row
  <2> QED  BY <2>1, <2>2, <2>3, NoneIsCounted
<1> QED  BY <1>2, <1>3, TakenIsCounted, SettledIsCounted DEF GrantStep

-----------------------------------------------------------------------------
(* A grant on disk at the beginning has no claims yet.                      *)
LEMMA GrantInit == Init => GrantInv
<1> SUFFICES ASSUME Init PROVE GrantInv
  OBVIOUS
<1>1. \A c \in Claim : occ[c].status = "none"
  BY DEF Init, NoOccurrence
<1>2. \A c \in Claim : SlotOK(c) /\ RevisionOK(c)
  BY <1>1 DEF SlotOK, RevisionOK
<1>3. ASSUME NEW s \in Sched
      PROVE  base[s] <= issued[s] /\ NothingSkipped(s) /\ SlotsCounted(s)
  <2>1. issued[s] = 0 /\ base[s] = 0 /\ origin[s] = NextRun(0)
    BY DEF Init
  <2>2. PICK max \in [Legacy -> Budgets] :
          sch[s] = IF s \in Legacy THEN NewGrant(s, 0, max[s]) ELSE NoRow("absent")
    BY DEF Init
  <2>3. sch[s].row = "live" =>
          /\ sch[s].used = 0 /\ sch[s].missed = 0 /\ sch[s].due = NextRun(0)
          /\ sch[s].max \in Nat
    <3>1. CASE s \in Legacy
      <4>1. max[s] \in Nat /\ sch[s] = NewGrant(s, 0, max[s])
        BY <2>2, <3>1, StoreAssumption
      <4> QED  BY <4>1 DEF NewGrant
    <3>2. CASE s \notin Legacy
      BY <2>2, <3>2 DEF NoRow
    <3> QED  BY <3>1, <3>2
  <2>4. NothingSkipped(s)
    BY <2>1, <2>3, StoreAssumption DEF NothingSkipped, NextRun
  <2>5. HeldSlots(s) = {}
    BY <1>1 DEF HeldSlots, CurrentClaims, Issued
  <2>6. Cardinality(HeldSlots(s)) = 0
    BY <2>5, FS_EmptySet
  <2>7. SlotsCounted(s)
    BY <2>3, <2>6, Countable DEF SlotsCounted
  <2> QED  BY <2>1, <2>4, <2>7
<1> QED  BY <1>2, <1>3 DEF GrantInv

(* Every step keeps every grant in order.                                   *)
LEMMA GrantInvStep ==
  TypeInv /\ ClaimsInv /\ DuesInv /\ GrantInv /\ [Next]_vars => GrantInv'
<1> SUFFICES ASSUME TypeInv, ClaimsInv, DuesInv, GrantInv, [Next]_vars
             PROVE  GrantInv'
  OBVIOUS
<1>1. \A s \in Sched : Known(s)
  BY KnownOfAll
<1>2. \A s \in Sched : GrantStep(s)
  BY GrantSteps
<1>3. \A s \in Sched : \A c \in Own(s) : SlotOK(c) /\ RevisionOK(c)
  BY DEF GrantInv, Own
<1>4. \A s \in Sched : /\ \A c \in Own(s) : SlotOK(c)' /\ RevisionOK(c)'
                       /\ NothingSkipped(s)'
                       /\ SlotsCounted(s)' /\ base'[s] <= issued'[s]
  <2> SUFFICES ASSUME NEW s \in Sched
               PROVE  /\ \A c \in Own(s) : SlotOK(c)' /\ RevisionOK(c)'
                      /\ NothingSkipped(s)'
                      /\ SlotsCounted(s)' /\ base'[s] <= issued'[s]
    OBVIOUS
  <2>1. \A c \in Own(s) : SlotOK(c)'
    BY <1>1, <1>2, <1>3, SlotKept
  <2>2. \A c \in Own(s) : RevisionOK(c)'
    BY <1>1, <1>2, <1>3, RevisionKept
  <2>3. NothingSkipped(s)'
    BY <1>1, <1>2, NothingSkippedKept DEF GrantInv
  <2>4. SlotsCounted(s)' /\ base'[s] <= issued'[s]
    BY <1>1, <1>2, <1>3, SlotsStayCounted DEF GrantInv
  <2> QED  BY <2>1, <2>2, <2>3, <2>4
<1>5. \A c \in Claim : c[1] \in Sched /\ c \in Own(c[1])
  BY DEF Claim, Own
<1> QED  BY <1>4, <1>5 DEF GrantInv

(* What holds of every grant, whatever the faults.                          *)
Grants == TypeInv /\ ClaimsInv /\ DuesInv /\ GrantInv

(* All of it from the first state on.                                       *)
LEMMA GrantsInOrder == Spec => []Grants
<1>1. Init => Grants
  BY TypeInit, ClaimsInit, DuesInit, GrantInit DEF Grants
<1>2. Grants /\ [Next]_vars => Grants'
  BY TypeStep, ClaimsStep, DuesStep, GrantInvStep DEF Grants
<1> QED  BY <1>1, <1>2, PTL DEF Spec

(* No due instant since a schedule was last switched on is lost without a   *)
(* trace: each is claimed or counted as missed, however late the ticks are  *)
(* and whatever is paused, resumed or renewed (claim_due, set_enabled,      *)
(* renew).                                                                  *)
THEOREM NoSilentSkip == Spec => []NothingSkippedSilently
<1>1. Grants => NothingSkippedSilently
  BY DEF Grants, GrantInv, NothingSkipped, NothingSkippedSilently
<1> QED  BY <1>1, GrantsInOrder, PTL

(* Once recovery has noted an unknown outcome, its grant stays off until an *)
(* operator has acted, whatever was paused or resumed before, and whatever  *)
(* stops, crashes or stalls (resolve_unknown_and_pause).                    *)
THEOREM UnknownStops == Spec => []UnknownNeedsHuman
<1>1. ASSUME Grants, NEW c \in Claim, occ[c].status = "unknown", sch[c[1]].enabled
      PROVE  sch[c[1]].rev > noted[c]
  <2>1. sch[c[1]].row = "live"
    BY <1>1 DEF Grants, DuesInv, Claim
  <2> QED  BY <1>1, <2>1 DEF Grants, GrantInv, RevisionOK
<1>2. Grants => UnknownNeedsHuman
  BY <1>1 DEF UnknownNeedsHuman
<1> QED  BY <1>2, GrantsInOrder, PTL

(* The count of used slots is that of the claims holding one, but for the   *)
(* refunds of claims from before a renewal.                                 *)
THEOREM SlotsAreCounted == Spec => []SlotsAccounted
<1>1. Grants => SlotsAccounted
  BY DEF Grants, GrantInv, SlotsCounted, SlotsAccounted, HeldSlots
<1> QED  BY <1>1, GrantsInOrder, PTL

-----------------------------------------------------------------------------
(* What a grant's budget is worth.  A claim is refused before its attempt   *)
(* unless it was given a slot, so that whatever ran had one; and as a slot  *)
(* handed back belongs to a write that did not run, every write of the      *)
(* current grant still holds its slot.                                      *)
Vetted == {"guard", "attempt", "gate", "tool"}

(* What is past the policy, and what has run, was given a slot.             *)
VettedInv ==
  /\ \A w \in Worker : wk[w].pc \in Vetted => snap[wk[w].cur].reserved
  /\ \A c \in Claim : runs[c] > 0 => snap[c].reserved

(* A process that is past the policy has just passed it, or was before.     *)
VettedBefore(w) ==
  wk'[w].pc \in Vetted =>
    /\ wk'[w].cur = wk[w].cur
    /\ \/ wk[w].pc \in Vetted
       \/ wk[w].pc = "policy" /\ snap[wk[w].cur].reserved

(* In the loop.                                                             *)
LEMMA VettedLoop ==
  ASSUME TypeInv, NEW w \in Worker, Loop(w)
  PROVE  VettedBefore(w)
<1>0. wk \in [Worker -> ProcessState] /\ wk[w] \in ProcessState
  BY DEF TypeInv, TypeOK
<1> USE <1>0 DEF Goto, Conclude, ProcessState, Vetted, VettedBefore
<1>1. CASE TickBegin(w) \/ TickEnd(w) \/ BindJob(w)
  BY <1>1 DEF TickBegin, TickEnd, BindJob
<1>2. CASE ClaimDue(w)
  BY <1>2 DEF ClaimDue, ClaimBatch
<1>3. CASE CreateJob(w)
  BY <1>3 DEF CreateJob
<1>4. CASE Policy(w)
  BY <1>4 DEF Policy, Refused
<1>5. CASE Guard(w) \/ Attempt(w)
  <2>1. wk[w].pc \in Vetted /\ wk'[w].cur = wk[w].cur
    BY <1>5 DEF Guard, Attempt
  <2> QED  BY <2>1
<1>6. CASE Propose(w)
  <2>1. wk[w].pc \in Vetted /\ wk'[w].cur = wk[w].cur
    BY <1>6 DEF Propose
  <2> QED  BY <2>1
<1>7. CASE RunTool(w)
  BY <1>7 DEF RunTool
<1>8. CASE Receipt(w) \/ RecordExecuted(w) \/ RecordReleased(w)
  BY <1>8 DEF Receipt, RecordExecuted, RecordReleased
<1>9. CASE DisableGrant(w) \/ CloseJob(w)
  BY <1>9 DEF DisableGrant, CloseJob
<1> QED  BY <1>1, <1>2, <1>3, <1>4, <1>5, <1>6, <1>7, <1>8, <1>9 DEF Loop

(* And outside it.                                                          *)
LEMMA VettedOther ==
  ASSUME TypeInv, NEW w \in Worker,
         \/ Startup(w) \/ Failure(w) \/ Stopping(w) \/ OpenJobStore(w)
         \/ \E x \in Sched \cup {Layer} : SetBrake(w, x)
  PROVE  VettedBefore(w)
<1>0. wk \in [Worker -> ProcessState] /\ wk[w] \in ProcessState
  BY DEF TypeInv, TypeOK
<1> USE <1>0 DEF Goto, Conclude, ProcessState, Process, Vetted, VettedBefore
<1>1. CASE Startup(w)
  <2>1. CASE Start(w) \/ RecoverBegin(w)
    BY <2>1 DEF Start, RecoverBegin
  <2>2. CASE RecoverOne(w)
    BY <2>2 DEF RecoverOne
  <2>3. CASE Reconcile(w) \/ RecoverDone(w)
    BY <2>3 DEF Reconcile, RecoverDone
  <2> QED  BY <1>1, <2>1, <2>2, <2>3 DEF Startup
<1>2. CASE Failure(w)
  BY <1>2 DEF Failure, Crash, StoreErrorAborts, StoreErrorAfterRun
<1>3. CASE Stopping(w)
  <2>1. \/ wk'[w].pc = "dead"
        \/ wk'[w].pc = wk[w].pc /\ wk'[w].cur = wk[w].cur
    BY <1>3 DEF Stopping, StopRequest, StopJoined, StopTimeout, ThreadEnds
  <2> QED  BY <2>1
<1>4. CASE OpenJobStore(w) \/ \E x \in Sched \cup {Layer} : SetBrake(w, x)
  <2>1. wk'[w].pc = wk[w].pc /\ wk'[w].cur = wk[w].cur
    BY <1>4 DEF OpenJobStore, SetBrake
  <2> QED  BY <2>1
<1> QED  BY <1>1, <1>2, <1>3, <1>4

(* So for every process at every step.                                      *)
LEMMA VettedAlways ==
  ASSUME TypeInv, ClaimsInv, [Next]_vars, NEW v \in Worker
  PROVE  VettedBefore(v) \/ wk'[v] = wk[v]
<1>1. ASSUME NEW w \in Worker, Loop(w) PROVE VettedBefore(v) \/ wk'[v] = wk[v]
  BY <1>1, VettedLoop, LoopLocal
<1>2. ASSUME NEW w \in Worker,
             \/ Startup(w) \/ Failure(w) \/ Stopping(w) \/ OpenJobStore(w)
             \/ \E x \in Sched \cup {Layer} : SetBrake(w, x)
      PROVE  VettedBefore(v) \/ wk'[v] = wk[v]
  BY <1>2, VettedOther, OtherHands
<1>3. Tick \/ (\E w \in Worker : Heartbeat(w)) \/ (\E s \in Sched : Operator(s)) => wk' = wk
  BY DEF Tick, Heartbeat, Operator, Create, PauseGrant, ResumeGrant, RenewGrant,
         DeleteGrant, Edit
<1>4. UNCHANGED vars => wk' = wk
  BY DEF vars
<1> QED  BY <1>1, <1>2, <1>3, <1>4 DEF Next

(* The snapshots of claims in hand, and of those that ran, are final.       *)
LEMMA SnapshotsFinal ==
  ASSUME TypeInv, ClaimsInv, [Next]_vars, NEW c \in Claim, snap'[c] # snap[c]
  PROVE  runs'[c] = 0 /\ \A w \in Worker : c \notin InHand(w)
<1>1. PICK v \in Worker : ClaimDue(v)
  BY HistoryWriters
<1>2. PICK B \in DueBatches(wk[v].tickAt) : ClaimBatch(v, B)
  BY <1>1 DEF ClaimDue
<1>3. c \in {<<s, issued[s] + 1>> : s \in B \ Malformed}
  BY <1>2 DEF ClaimBatch
<1>4. c[2] > issued[c[1]]
  BY <1>2, <1>3 DEF DueBatches, TypeInv, TypeOK
<1>5. runs' = runs
  BY <1>1 DEF ClaimDue
<1> QED  BY <1>4, <1>5 DEF ClaimsInv

(* Nothing runs without a slot.                                             *)
LEMMA VettedStep == TypeInv /\ ClaimsInv /\ VettedInv /\ [Next]_vars => VettedInv'
<1> SUFFICES ASSUME TypeInv, ClaimsInv, VettedInv, [Next]_vars PROVE VettedInv'
  OBVIOUS
<1>1. ASSUME NEW w \in Worker, wk'[w].pc \in Vetted
      PROVE  snap'[wk'[w].cur].reserved
  <2>1. wk'[w].cur = wk[w].cur /\ snap[wk[w].cur].reserved
    BY <1>1, VettedAlways DEF VettedInv, VettedBefore
  <2>2. wk[w].pc \in Vetted \cup {"policy"}
    BY <1>1, VettedAlways DEF VettedBefore
  <2>3. wk[w].cur \in Claim /\ wk[w].cur \in InHand(w)
    BY <2>2, SchedulerAssumption DEF TypeInv, HandsOK, HandOK, Executing, Vetted, InHand, InTick
  <2> QED  BY <2>1, <2>3, SnapshotsFinal
<1>2. ASSUME NEW c \in Claim, runs'[c] > 0
      PROVE  snap'[c].reserved
  <2>1. snap'[c] = snap[c]
    BY <1>2, SnapshotsFinal
  <2>2. CASE runs[c] > 0
    BY <2>1, <2>2 DEF VettedInv
  <2>3. CASE ~(runs[c] > 0)
    <3>1. PICK v \in Worker : RunTool(v)
      BY <1>2, <2>3, HistoryWriters
    <3>2. wk[v].pc = "tool" /\ wk[v].cur = c
      BY <1>2, <2>3, <3>1 DEF RunTool, TypeInv, TypeOK
    <3> QED  BY <2>1, <3>2 DEF VettedInv, Vetted
  <2> QED  BY <2>2, <2>3
<1> QED  BY <1>1, <1>2 DEF VettedInv

(* Every write of the current grant holds a slot of its budget.             *)
LEMMA WritesHoldSlots ==
  ASSUME Grants, VettedInv, RefundedNeverRan, NEW s \in Write
  PROVE  Writes(s) \subseteq HeldSlots(s)
<1> SUFFICES ASSUME NEW c \in Writes(s) PROVE SlotHeld(c)
  BY DEF Writes, HeldSlots
<1>1. c \in Claim /\ c[1] = s /\ Issued(c) /\ runs[c] > 0
  BY DEF Writes, CurrentClaims
<1>2. occ[c] \in Occurrence /\ snap[c].reserved /\ SlotOK(c)
  BY <1>1 DEF Grants, TypeInv, TypeOK, GrantInv, VettedInv
<1>3. occ[c].status \notin {"released", "abandoned"}
  BY <1>1 DEF RefundedNeverRan
<1> QED  BY <1>1, <1>2, <1>3 DEF SlotHeld, SlotOK, Issued, Occurrence

(* No grant is overrun, whatever crashes and store failures, as long as no  *)
(* evidence of a run is lost; a slot refunded into it from before a renewal *)
(* counts for one run more.                                                 *)
THEOREM BudgetIsKept ==
  ASSUME NoLostEvidence
  PROVE  Spec => []BudgetKept
<1>1. Init => Grants /\ Invariants /\ VettedInv
  <2>1. Init => VettedInv
    BY DEF Init, VettedInv, Vetted, Process
  <2> QED  BY <2>1, TypeInit, ClaimsInit, DuesInit, GrantInit, InvariantsInit DEF Grants
<1>2. Grants /\ Invariants /\ VettedInv /\ [Next]_vars
        => (Grants /\ Invariants /\ VettedInv)'
  BY TypeStep, ClaimsStep, DuesStep, GrantInvStep, InvariantsStep, VettedStep DEF Grants
<1>3. ASSUME Grants, Invariants, VettedInv, NEW s \in Write,
             sch[s].row = "live", sch[s].max > 0
      PROVE  Cardinality(Writes(s)) <= sch[s].max + Cardinality(ReturnedEarlier(s))
  <2>0. s \in Sched
    BY StoreAssumption
  <2>1. Writes(s) \subseteq HeldSlots(s)
    BY <1>3, WritesHoldSlots DEF Invariants, LedgerInv
  <2>2. Cardinality(Writes(s)) <= Cardinality(HeldSlots(s)) /\ Cardinality(Writes(s)) \in Nat
    BY <2>0, <2>1, Countable, FS_Subset, FS_CardinalityType
  <2>3. /\ Cardinality(HeldSlots(s)) <= sch[s].used + Cardinality(ReturnedEarlier(s))
        /\ sch[s].used <= sch[s].max
    BY <1>3, <2>0 DEF Grants, GrantInv, SlotsCounted
  <2>4. sch[s].used \in Nat /\ sch[s].max \in Nat
    BY <1>3, <2>0 DEF Grants, TypeInv, TypeOK, Row
  <2> QED  BY <2>0, <2>2, <2>3, <2>4, Countable
<1>4. Grants /\ Invariants /\ VettedInv => BudgetKept
  BY <1>3 DEF BudgetKept
<1> QED  BY <1>1, <1>2, <1>4, PTL DEF Spec

=============================================================================
