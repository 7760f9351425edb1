-------------------------- MODULE SchedulerProofs ---------------------------
(***************************************************************************)
(* Theorems about Scheduler for any number of schedules, processes, claims  *)
(* and any of the faults and operator requests it explores.  Every one      *)
(* follows from Spec by an invariant that each action is shown to keep.     *)
(***************************************************************************)
EXTENDS Scheduler, TLAPS

(* First, what the row operators of ScheduleStore return, for every row,    *)
(* every instant and every cadence.                                         *)

(* Whole cadences between two instants are counted, and every one of them   *)
(* moves the next due instant by at least one cadence.                      *)
LEMMA WholeCadences ==
  ASSUME NEW d \in Nat
  PROVE  /\ d \div Period \in Nat
         /\ (d \div Period + 1) * Period \in Nat
         /\ (d \div Period + 1) * Period > d
  BY StoreAssumption

(* catch_up never moves a due instant back, and past t when it was due.     *)
LEMMA CatchUpAdvances ==
  ASSUME NEW due \in Nat, NEW t \in Nat
  PROVE  /\ CatchUp(due, t).missed \in Nat
         /\ CatchUp(due, t).due \in Nat
         /\ due <= t => CatchUp(due, t).due > t
         /\ CatchUp(due, t).due >= due
<1>1. CASE t < due
  BY <1>1 DEF CatchUp
<1>2. CASE due <= t
  <2> DEFINE n == (t - due) \div Period + 1
  <2>1. /\ n - 1 \in Nat
        /\ n * Period \in Nat
        /\ n * Period > t - due
    BY <1>2, WholeCadences
  <2>2. CatchUp(due, t) = [missed |-> n - 1, due |-> due + n * Period]
    BY <1>2 DEF CatchUp
  <2> HIDE DEF n
  <2> QED  BY <2>1, <2>2, <1>2
<1> QED  BY <1>1, <1>2

(* Every transaction leaves a row with the columns of the schema.           *)
LEMMA NewGrantType ==
  ASSUME NEW s \in Sched, NEW t \in Nat, NEW max \in Nat
  PROVE  NewGrant(s, t, max) \in Row
  BY StoreAssumption DEF NewGrant, NextRun, Row

(* An absent or deleted row is a row.                                       *)
LEMMA NoRowType ==
  ASSUME NEW state \in {"absent", "live", "deleted"}
  PROVE  NoRow(state) \in Row
  BY DEF NoRow, Row

(* claim_due's UPDATE keeps a row a row, its revision, and moves due_at.    *)
LEMMA TakenType ==
  ASSUME NEW g \in Row, NEW t \in Nat
  PROVE  /\ Taken(g, t) \in Row
         /\ Taken(g, t).row = g.row
         /\ Taken(g, t).rev = g.rev
         /\ Taken(g, t).due = CatchUp(g.due, t).due
<1> DEFINE d == CatchUp(g.due, t).due
           m == g.missed + CatchUp(g.due, t).missed
           u == IF HasBudget(g) THEN g.used + 1 ELSE g.used
<1>1. d \in Nat /\ m \in Nat /\ u \in Nat
  BY CatchUpAdvances DEF Row
<1>2. Taken(g, t) = [g EXCEPT !.due = d, !.missed = m, !.used = u]
  BY DEF Taken
<1> HIDE DEF d, m, u
<1>3. /\ Taken(g, t) \in Row
      /\ Taken(g, t).row = g.row /\ Taken(g, t).rev = g.rev
      /\ Taken(g, t).due = d
  BY <1>1, <1>2 DEF Row
<1> QED  BY <1>3 DEF d

(* The claim handed to the runner remembers the instant it was due.         *)
LEMMA TakenSnapshotType ==
  ASSUME NEW g \in Row, NEW t \in Nat
  PROVE  TakenSnapshot(g, t) \in Snapshot /\ TakenSnapshot(g, t).due = g.due
<1>1. Taken(g, t).used \in Nat
  BY TakenType DEF Row
<1>2. HasBudget(g) \in BOOLEAN /\ (t >= g.expires) \in BOOLEAN
  BY DEF HasBudget
<1>3. g.rev \in Nat /\ g.max \in Nat /\ g.approved \in BOOLEAN /\ g.due \in Nat
  BY DEF Row
<1> QED  BY <1>1, <1>2, <1>3 DEF TakenSnapshot, Snapshot

(* Handing a slot back keeps a row a row.                                   *)
LEMMA RefundedType ==
  ASSUME NEW g \in Row
  PROVE  Refunded(g) \in Row
<1> DEFINE u == IF g.used > 0 THEN g.used - 1 ELSE 0
<1>1. u \in Nat
  BY DEF Row
<1>2. Refunded(g) = [g EXCEPT !.used = u]
  BY DEF Refunded
<1> HIDE DEF u
<1> QED  BY <1>1, <1>2 DEF Row

(* So do switching a schedule on and off, and pausing it as unknown.        *)
LEMMA SwitchedType ==
  ASSUME NEW g \in Row, NEW t \in Nat
  PROVE  /\ Paused(g) \in Row
         /\ Resumed(g, t) \in Row
         /\ PausedUnknown(g) \in Row
         /\ [g EXCEPT !.enabled = FALSE] \in Row
<1>1. NextRun(t) \in Nat
  BY StoreAssumption DEF NextRun
<1>2. g.rev + 1 \in Nat
  BY DEF Row
<1>3. [g EXCEPT !.enabled = FALSE, !.rev = g.rev + 1] \in Row
  BY <1>2 DEF Row
<1>4. [g EXCEPT !.enabled = TRUE, !.due = NextRun(t), !.rev = g.rev + 1] \in Row
  BY <1>1, <1>2 DEF Row
<1>5. [g EXCEPT !.enabled = FALSE] \in Row
  BY DEF Row
<1> QED  BY <1>3, <1>4, <1>5 DEF Paused, Resumed, PausedUnknown

(* So does renewing it.                                                     *)
LEMMA RenewedType ==
  ASSUME NEW s \in Sched, NEW g \in Row, NEW t \in Nat, NEW max \in Nat,
         NEW enable \in {"keep", "on", "off"}
  PROVE  Renewed(s, g, t, max, enable) \in Row
<1> DEFINE e == IF enable = "keep" THEN g.enabled ELSE enable = "on"
           d == IF enable = "on" THEN NextRun(t) ELSE g.due
           x == t + GrantTTL
           r == g.rev + 1
           p == s \in Write
<1>1. e \in BOOLEAN
  BY DEF Row
<1>2. d \in Nat /\ x \in Nat /\ r \in Nat
  BY StoreAssumption DEF NextRun, Row
<1>3. p \in BOOLEAN
  OBVIOUS
<1>4. Renewed(s, g, t, max, enable)
        = [g EXCEPT !.approved = p, !.expires = x, !.max = max, !.used = 0,
                    !.rev = r, !.enabled = e, !.due = d]
  BY Zenon DEF Renewed
<1> HIDE DEF e, d, x, r, p
<1>5. [g EXCEPT !.approved = p, !.expires = x, !.max = max, !.used = 0] \in Row
  BY <1>2, <1>3 DEF Row
<1>6. \A h \in Row : [h EXCEPT !.rev = r, !.enabled = e, !.due = d] \in Row
  BY <1>1, <1>2 DEF Row
<1>7. Renewed(s, g, t, max, enable)
        = [[g EXCEPT !.approved = p, !.expires = x, !.max = max, !.used = 0]
             EXCEPT !.rev = r, !.enabled = e, !.due = d]
  BY <1>4, Zenon
<1> QED  BY <1>5, <1>6, <1>7

-----------------------------------------------------------------------------
(* Types.                                                                   *)

(* The steps of _run_claim: a claim is in hand.                             *)
Executing == {"bind", "policy", "guard", "attempt", "gate", "tool", "receipt",
              "record", "release", "disable", "close"}

(* What the types of the jobs and audit tables rest on: a process that      *)
(* writes them has a claim in hand, no other process state has, and         *)
(* "permanent" is turned into "failed" before the job is closed.            *)
HandOK(p) ==
  /\ p.pc \in Executing \cup {"reconcile"} => p.cur \in Claim
  /\ p.pc \notin Executing \cup {"reconcile"} => p.cur = NoClaim
  /\ p.pc \in {"close", "reconcile"} => p.outcome # "permanent"

HandsOK == \A w \in Worker : HandOK(wk[w])

TypeInv == TypeOK /\ HandsOK

USE DEF Executing

-----------------------------------------------------------------------------
(* The store on disk has its shape.                                         *)
LEMMA TypeInit == Init => TypeInv
<1> SUFFICES ASSUME Init PROVE TypeInv
  OBVIOUS
<1> USE DEF Init
<1>1. sch \in [Sched -> Row]
  <2>1. PICK max \in [Legacy -> Budgets] :
          sch = [s \in Sched |-> IF s \in Legacy THEN NewGrant(s, 0, max[s])
                                                ELSE NoRow("absent")]
    OBVIOUS
  <2>2. \A s \in Legacy : max[s] \in Nat
    BY <2>1, StoreAssumption
  <2> QED  BY <2>1, <2>2, NewGrantType, NoRowType
<1>2. occ \in [Claim -> Occurrence] /\ snap \in [Claim -> Snapshot]
  BY DEF NoOccurrence, Occurrence, NoSnapshot, Snapshot
<1>3. wk \in [Worker -> ProcessState]
  BY DEF Process, ProcessState, Phase
<1>4. HandsOK
  BY DEF HandsOK, HandOK, Process
<1>5. lease \in [owner : Worker \cup {NoWorker}, until : Nat]
  OBVIOUS
<1>6. job \in [Claim -> JobStatus]
  BY DEF JobStatus
<1>7. noted \in [Claim -> Nat] /\ origin \in [Sched -> Int]
  BY StoreAssumption DEF NextRun
<1> QED  BY <1>1, <1>2, <1>3, <1>4, <1>5, <1>6, <1>7 DEF TypeInv, TypeOK

(* A step of one process disturbs no other.                                 *)
LEMMA OneProcess ==
  ASSUME TypeInv, NEW w \in Worker, NEW p \in ProcessState, HandOK(p),
         wk' = [wk EXCEPT ![w] = p]
  PROVE  wk' \in [Worker -> ProcessState] /\ HandsOK'
  BY DEF TypeInv, TypeOK, HandsOK

(* A step on one row of the schedules table disturbs no other.              *)
LEMMA RowStep ==
  ASSUME NEW f \in [Sched -> Row], NEW s \in Sched, NEW g \in Row
  PROVE  [f EXCEPT ![s] = g] \in [Sched -> Row]
  OBVIOUS

(* A refund keeps the schedules table typed.                                *)
LEMMA RefundStep ==
  ASSUME sch \in [Sched -> Row], NEW c, c[1] \in Sched
  PROVE  Refund(c) \in [Sched -> Row]
  BY RefundedType DEF Refund

(* So does pausing a schedule as unknown.                                   *)
LEMMA PausedUnknownStep ==
  ASSUME NEW f \in [Sched -> Row], NEW s \in Sched
  PROVE  [f EXCEPT ![s] = PausedUnknown(@)] \in [Sched -> Row]
<1>1. PausedUnknown(f[s]) \in Row
  BY SwitchedType DEF PausedUnknown, Row
<1> QED  BY <1>1

(* So does pausing it.                                                      *)
LEMMA PausedStep ==
  ASSUME NEW f \in [Sched -> Row], NEW s
  PROVE  [f EXCEPT ![s] = Paused(@)] \in [Sched -> Row]
<1>1. s \in Sched => Paused(f[s]) \in Row
  BY SwitchedType DEF Paused, Row
<1> QED  BY <1>1

(* Startup and recovery.                                                    *)
LEMMA TypeStartup ==
  ASSUME TypeInv, NEW w \in Worker, Startup(w)
  PROVE  TypeInv'
<1>0. /\ TypeOK /\ wk[w] \in ProcessState /\ HandOK(wk[w])
  BY DEF TypeInv, TypeOK, HandsOK
<1>1. CASE Start(w)
  <2>1. sch' \in [Sched -> Row]
    BY <1>0, <1>1, SwitchedType DEF Start, TypeOK
  <2>2. job' \in [Claim -> JobStatus]
    BY <1>0, <1>1 DEF Start, JobsOpened, JobStatus, TypeOK
  <2> DEFINE p == [Process("acquire") EXCEPT !.off = brake]
  <2>3. p \in ProcessState /\ HandOK(p)
    BY <1>0 DEF Process, ProcessState, Phase, HandOK, TypeOK
  <2>4. wk' = [wk EXCEPT ![w] = p]
    BY <1>1 DEF Start
  <2> HIDE DEF p
  <2>5. wk' \in [Worker -> ProcessState] /\ HandsOK'
    BY <2>3, <2>4, OneProcess
  <2> QED  BY <1>0, <1>1, <2>1, <2>2, <2>5 DEF Start, TypeInv, TypeOK
<1>2. CASE RecoverBegin(w)
  <2>1. lease' \in [owner : Worker \cup {NoWorker}, until : Nat]
    BY <1>0, <1>2, SchedulerAssumption DEF RecoverBegin, Acquired, TypeOK
  <2> DEFINE p == IF LeaseFree(w)
                    THEN [wk[w] EXCEPT !.pc = "recover", !.batch = ReservedOccurrences]
                    ELSE [wk[w] EXCEPT !.pc = "idle"]
  <2>2. p \in ProcessState /\ HandOK(p)
    BY <1>0, <1>2 DEF RecoverBegin, ReservedOccurrences, ProcessState, HandOK
  <2>3. wk' = [wk EXCEPT ![w] = p]
    BY <1>2 DEF RecoverBegin, Goto
  <2> HIDE DEF p
  <2>4. wk' \in [Worker -> ProcessState] /\ HandsOK'
    BY <2>2, <2>3, OneProcess
  <2> QED  BY <1>0, <1>2, <2>1, <2>4 DEF RecoverBegin, TypeInv, TypeOK
<1>3. CASE RecoverOne(w)
  <2>1. PICK c \in wk[w].batch : RecoverOne(w)!2!(c)
    BY <1>3 DEF RecoverOne
  <2>2. c \in Claim
    BY <1>0, <2>1 DEF ProcessState
  <2> DEFINE bound == Unresolved(occ[c]) /\ occ[c].job
             p == [wk[w] EXCEPT
                     !.batch = @ \ {c},
                     !.cur = IF bound THEN c ELSE NoClaim,
                     !.pc = IF bound THEN "reconcile" ELSE @,
                     !.outcome = IF bound
                                   THEN IF Evidence(c) = "executed" THEN "completed"
                                                                    ELSE "failed"
                                   ELSE @]
  <2>3. p \in ProcessState /\ HandOK(p)
    BY <1>0, <1>3, <2>2 DEF RecoverOne, ProcessState, HandOK
  <2>4. wk' = [wk EXCEPT ![w] = p]
    BY <2>1
  <2> HIDE DEF p
  <2>5. wk' \in [Worker -> ProcessState] /\ HandsOK'
    BY <2>3, <2>4, OneProcess
  <2>6. occ' \in [Claim -> Occurrence]
    BY <1>0, <2>1, <2>2 DEF Resolve, Evidence, Occurrence, TypeOK
  <2>7. sch' \in [Sched -> Row]
    <3>1. sch \in [Sched -> Row] /\ c[1] \in Sched
      BY <1>0, <2>2 DEF TypeOK, Claim
    <3>2. /\ Refund(c) \in [Sched -> Row]
          /\ [sch EXCEPT ![c[1]] = PausedUnknown(@)] \in [Sched -> Row]
      BY <3>1, RefundStep, PausedUnknownStep
    <3> QED  BY <2>1, <3>1, <3>2 DEF Evidence
  <2>8. noted' \in [Claim -> Nat]
    <3>1. c[1] \in Sched /\ noted \in [Claim -> Nat]
      BY <1>0, <2>2 DEF TypeOK, Claim
    <3>2. sch'[c[1]].rev \in Nat
      BY <2>7, <3>1 DEF Row
    <3>3. noted' = noted \/ noted' = [noted EXCEPT ![c] = sch'[c[1]].rev]
      BY <2>1
    <3> QED  BY <3>1, <3>2, <3>3
  <2> QED  BY <1>0, <1>3, <2>5, <2>6, <2>7, <2>8 DEF RecoverOne, TypeInv, TypeOK
<1>4. CASE Reconcile(w)
  <2>1. job' \in [Claim -> JobStatus]
    BY <1>0, <1>4 DEF Reconcile, JobUpdated, JobStatus, ProcessState, HandOK, TypeOK
  <2> DEFINE p == [wk[w] EXCEPT !.pc = "recover", !.cur = NoClaim, !.outcome = "none"]
  <2>2. p \in ProcessState /\ HandOK(p)
    BY <1>0 DEF ProcessState, HandOK
  <2>3. wk' = [wk EXCEPT ![w] = p]
    BY <1>4 DEF Reconcile
  <2> HIDE DEF p
  <2>4. wk' \in [Worker -> ProcessState] /\ HandsOK'
    BY <2>2, <2>3, OneProcess
  <2> QED  BY <1>0, <1>4, <2>1, <2>4 DEF Reconcile, TypeInv, TypeOK
<1>5. CASE RecoverDone(w)
  <2> DEFINE p == [wk[w] EXCEPT !.pc = "idle", !.recovered = TRUE]
  <2>1. p \in ProcessState /\ HandOK(p)
    BY <1>0, <1>5 DEF RecoverDone, ProcessState, HandOK
  <2>2. wk' = [wk EXCEPT ![w] = p]
    BY <1>5 DEF RecoverDone
  <2> HIDE DEF p
  <2>3. wk' \in [Worker -> ProcessState] /\ HandsOK'
    BY <2>1, <2>2, OneProcess
  <2> QED  BY <1>0, <1>5, <2>3 DEF RecoverDone, TypeInv, TypeOK, durable
<1> QED  BY <1>1, <1>2, <1>3, <1>4, <1>5 DEF Startup

(* The claim of a batch.                                                    *)
LEMMA TypeClaimDue ==
  ASSUME TypeInv, NEW w \in Worker, ClaimDue(w)
  PROVE  TypeInv'
<1> DEFINE t == wk[w].tickAt
<1>0. /\ TypeOK /\ wk[w] \in ProcessState /\ HandOK(wk[w]) /\ t \in Nat
  BY DEF TypeInv, TypeOK, HandsOK, ProcessState
<1>1. PICK B \in DueBatches(t) : ClaimBatch(w, B)
  BY DEF ClaimDue
<1> DEFINE good == B \ Malformed
           new == {<<s, issued[s] + 1>> : s \in good}
<1>2. B \subseteq {s \in Sched : issued[s] < MaxClaims}
  BY DEF DueBatches
<1>3. new \in SUBSET Claim
  BY <1>0, <1>2, StoreAssumption DEF Claim, TypeOK
<1>4. sch' \in [Sched -> Row]
  BY <1>0, <1>1, TakenType, SwitchedType DEF ClaimBatch, TypeOK
<1>5. issued' \in [Sched -> Nat]
  BY <1>0, <1>1 DEF ClaimBatch, TypeOK
<1>6. occ' \in [Claim -> Occurrence]
  BY <1>0, <1>1 DEF ClaimBatch, TypeOK, Occurrence
<1>7. snap' \in [Claim -> Snapshot]
  <2>1. \A c \in Claim : TakenSnapshot(sch[c[1]], t) \in Snapshot
    BY <1>0, TakenSnapshotType DEF TypeOK, Claim
  <2> QED  BY <1>0, <1>1, <2>1 DEF ClaimBatch, TypeOK
<1> DEFINE p == [wk[w] EXCEPT !.pc = "batch", !.batch = new]
<1>8. p \in ProcessState /\ HandOK(p)
  BY <1>0, <1>3 DEF ClaimDue, ProcessState, HandOK
<1>9. wk' = [wk EXCEPT ![w] = p]
  BY <1>1 DEF ClaimBatch
<1> HIDE DEF p
<1>10. wk' \in [Worker -> ProcessState] /\ HandsOK'
  BY <1>8, <1>9, OneProcess
<1> QED  BY <1>0, <1>4, <1>5, <1>6, <1>7, <1>10 DEF ClaimDue, TypeInv, TypeOK

(* One tick of the runner.                                                  *)
LEMMA TypeLoop ==
  ASSUME TypeInv, NEW w \in Worker, Loop(w)
  PROVE  TypeInv'
<1>0. /\ TypeOK /\ wk[w] \in ProcessState /\ HandOK(wk[w])
  BY DEF TypeInv, TypeOK, HandsOK
<1>1. CASE TickBegin(w)
  <2> DEFINE p == [wk[w] EXCEPT !.pc = "claim", !.tickAt = now]
  <2>1. p \in ProcessState /\ HandOK(p)
    BY <1>0, <1>1 DEF TickBegin, ProcessState, HandOK, TypeOK
  <2>2. wk' = [wk EXCEPT ![w] = p]
    BY <1>1 DEF TickBegin
  <2> HIDE DEF p
  <2>3. wk' \in [Worker -> ProcessState] /\ HandsOK'
    BY <2>1, <2>2, OneProcess
  <2>4. lease' \in [owner : Worker \cup {NoWorker}, until : Nat]
    BY <1>0, <1>1, SchedulerAssumption DEF TickBegin, Acquired, TypeOK
  <2> QED  BY <1>0, <1>1, <2>3, <2>4 DEF TickBegin, TypeInv, TypeOK, durable
<1>2. CASE ClaimDue(w)
  BY <1>2, TypeClaimDue
<1>3. CASE CreateJob(w)
  <2>1. PICK c \in wk[w].batch : CreateJob(w)!2!(c)
    BY <1>3 DEF CreateJob
  <2> DEFINE p == [wk[w] EXCEPT !.pc = "bind", !.cur = c, !.batch = @ \ {c}]
  <2>2. p \in ProcessState /\ HandOK(p)
    BY <1>0, <2>1 DEF ProcessState, HandOK
  <2>3. wk' = [wk EXCEPT ![w] = p]
    BY <2>1
  <2> HIDE DEF p
  <2>4. wk' \in [Worker -> ProcessState] /\ HandsOK'
    BY <2>2, <2>3, OneProcess
  <2>5. job' \in [Claim -> JobStatus]
    BY <1>0, <2>1 DEF JobStatus, TypeOK
  <2> QED  BY <1>0, <1>3, <2>4, <2>5 DEF CreateJob, TypeInv, TypeOK
<1>4. CASE TickEnd(w)
  <2> DEFINE p == [wk[w] EXCEPT !.pc = "idle", !.tickAt = 0]
  <2>1. p \in ProcessState /\ HandOK(p)
    BY <1>0, <1>4 DEF TickEnd, ProcessState, HandOK
  <2>2. wk' = [wk EXCEPT ![w] = p]
    BY <1>4 DEF TickEnd
  <2> HIDE DEF p
  <2>3. wk' \in [Worker -> ProcessState] /\ HandsOK'
    BY <2>1, <2>2, OneProcess
  <2> QED  BY <1>0, <1>4, <2>3 DEF TickEnd, TypeInv, TypeOK, durable
<1>5. CASE BindJob(w)
  <2> DEFINE p == [wk[w] EXCEPT !.pc = "policy"]
  <2>1. p \in ProcessState /\ HandOK(p)
    BY <1>0, <1>5 DEF BindJob, ProcessState, HandOK
  <2>2. wk' = [wk EXCEPT ![w] = p]
    BY <1>5 DEF BindJob, Goto
  <2> HIDE DEF p
  <2>3. wk' \in [Worker -> ProcessState] /\ HandsOK'
    BY <2>1, <2>2, OneProcess
  <2>4. occ' \in [Claim -> Occurrence]
    BY <1>0, <1>5 DEF BindJob, Occurrence, TypeOK
  <2> QED  BY <1>0, <1>5, <2>3, <2>4 DEF BindJob, TypeInv, TypeOK, durable
<1>6. CASE Policy(w)
  <2> DEFINE p == IF Refused(wk[w].cur[1], snap[wk[w].cur], Layer \notin wk[w].off,
                            wk[w].cur[1] \notin wk[w].off)
                    THEN [wk[w] EXCEPT !.pc = "release",
                                       !.outcome = IF Permanent(wk[w].cur[1], snap[wk[w].cur])
                                                     THEN "permanent" ELSE "cancelled"]
                    ELSE [wk[w] EXCEPT !.pc = "guard"]
  <2>1. p \in ProcessState /\ HandOK(p)
    BY <1>0, <1>6 DEF Policy, ProcessState, HandOK
  <2>2. wk' = [wk EXCEPT ![w] = p]
    BY <1>6 DEF Policy, Goto, Conclude
  <2> HIDE DEF p
  <2>3. wk' \in [Worker -> ProcessState] /\ HandsOK'
    BY <2>1, <2>2, OneProcess
  <2> QED  BY <1>0, <1>6, <2>3 DEF Policy, TypeInv, TypeOK, durable
<1>7. CASE Guard(w)
  <2> DEFINE p == IF GrantUnchanged(wk[w].cur)
                    THEN [wk[w] EXCEPT !.pc = "attempt"]
                    ELSE [wk[w] EXCEPT !.pc = "release", !.outcome = "cancelled"]
  <2>1. p \in ProcessState /\ HandOK(p)
    BY <1>0, <1>7 DEF Guard, ProcessState, HandOK
  <2>2. wk' = [wk EXCEPT ![w] = p]
    BY <1>7 DEF Guard, Goto, Conclude
  <2> HIDE DEF p
  <2>3. wk' \in [Worker -> ProcessState] /\ HandsOK'
    BY <2>1, <2>2, OneProcess
  <2> QED  BY <1>0, <1>7, <2>3 DEF Guard, TypeInv, TypeOK, durable
<1>8. CASE Attempt(w)
  <2> DEFINE p == [wk[w] EXCEPT !.pc = "gate"]
  <2>1. p \in ProcessState /\ HandOK(p)
    BY <1>0, <1>8 DEF Attempt, ProcessState, HandOK
  <2>2. wk' = [wk EXCEPT ![w] = p]
    BY <1>8 DEF Attempt, Goto
  <2> HIDE DEF p
  <2>3. wk' \in [Worker -> ProcessState] /\ HandsOK'
    BY <2>1, <2>2, OneProcess
  <2>4. attempted' \in SUBSET Claim
    BY <1>0, <1>8 DEF Attempt, HandOK, TypeOK
  <2> QED  BY <1>0, <1>8, <2>3, <2>4 DEF Attempt, TypeInv, TypeOK, durable
<1>9. CASE Propose(w)
  <2> DEFINE p == IF wk[w].off \cap {Layer, wk[w].cur[1]} # {}
                        \/ wk[w].cur[1] \in Write \ Schedulable
                    THEN [wk[w] EXCEPT !.pc = "release", !.outcome = "cancelled"]
                    ELSE [wk[w] EXCEPT !.pc = "tool"]
  <2>1. p \in ProcessState /\ HandOK(p)
    BY <1>0, <1>9 DEF Propose, ProcessState, HandOK
  <2>2. wk' = [wk EXCEPT ![w] = p]
    BY <1>9 DEF Propose, Goto, Conclude
  <2> HIDE DEF p
  <2>3. wk' \in [Worker -> ProcessState] /\ HandsOK'
    BY <2>1, <2>2, OneProcess
  <2> QED  BY <1>0, <1>9, <2>3 DEF Propose, TypeInv, TypeOK, durable
<1>10. CASE RunTool(w)
  <2>1. PICK p \in ProcessState : HandOK(p) /\ wk' = [wk EXCEPT ![w] = p]
    <3>1. /\ [wk[w] EXCEPT !.pc = "receipt"] \in ProcessState
          /\ HandOK([wk[w] EXCEPT !.pc = "receipt"])
      BY <1>0, <1>10 DEF RunTool, ProcessState, HandOK
    <3>2. \A o \in {"cancelled", "failed"} :
            /\ [wk[w] EXCEPT !.pc = "release", !.outcome = o] \in ProcessState
            /\ HandOK([wk[w] EXCEPT !.pc = "release", !.outcome = o])
      BY <1>0, <1>10 DEF RunTool, ProcessState, HandOK
    <3>3. \/ wk' = [wk EXCEPT ![w] = [wk[w] EXCEPT !.pc = "receipt"]]
          \/ \E o \in {"cancelled", "failed"} :
               wk' = [wk EXCEPT ![w] = [wk[w] EXCEPT !.pc = "release", !.outcome = o]]
      BY <1>10 DEF RunTool, Goto, Conclude
    <3> QED  BY <3>1, <3>2, <3>3
  <2>2. wk' \in [Worker -> ProcessState] /\ HandsOK'
    BY <2>1, OneProcess
  <2>3. runs' \in [Claim -> Nat]
    BY <1>0, <1>10 DEF RunTool, TypeOK
  <2> QED  BY <1>0, <1>10, <2>2, <2>3 DEF RunTool, TypeInv, TypeOK, durable
<1>11. CASE Receipt(w)
  <2>1. PICK p \in ProcessState : HandOK(p) /\ wk' = [wk EXCEPT ![w] = p]
    <3>1. /\ [wk[w] EXCEPT !.pc = "record"] \in ProcessState
          /\ HandOK([wk[w] EXCEPT !.pc = "record"])
      BY <1>0, <1>11 DEF Receipt, ProcessState, HandOK
    <3>2. /\ [wk[w] EXCEPT !.pc = "release", !.outcome = "failed"] \in ProcessState
          /\ HandOK([wk[w] EXCEPT !.pc = "release", !.outcome = "failed"])
      BY <1>0, <1>11 DEF Receipt, ProcessState, HandOK
    <3>3. \/ wk' = [wk EXCEPT ![w] = [wk[w] EXCEPT !.pc = "record"]]
          \/ wk' = [wk EXCEPT ![w] = [wk[w] EXCEPT !.pc = "release", !.outcome = "failed"]]
      BY <1>11 DEF Receipt, Goto, Conclude
    <3> QED  BY <3>1, <3>2, <3>3
  <2>2. wk' \in [Worker -> ProcessState] /\ HandsOK'
    BY <2>1, OneProcess
  <2>3. receipts' \in SUBSET Claim
    BY <1>0, <1>11 DEF Receipt, HandOK, TypeOK
  <2> QED  BY <1>0, <1>11, <2>2, <2>3 DEF Receipt, TypeInv, TypeOK
<1>12. CASE RecordExecuted(w)
  <2> DEFINE p == [wk[w] EXCEPT !.pc = "close", !.outcome = "completed"]
  <2>1. p \in ProcessState /\ HandOK(p)
    BY <1>0, <1>12 DEF RecordExecuted, ProcessState, HandOK
  <2>2. wk' = [wk EXCEPT ![w] = p]
    BY <1>12 DEF RecordExecuted, Conclude
  <2> HIDE DEF p
  <2>3. wk' \in [Worker -> ProcessState] /\ HandsOK'
    BY <2>1, <2>2, OneProcess
  <2>4. occ' \in [Claim -> Occurrence]
    BY <1>0, <1>12 DEF RecordExecuted, Resolve, Occurrence, TypeOK
  <2> QED  BY <1>0, <1>12, <2>3, <2>4 DEF RecordExecuted, TypeInv, TypeOK, durable
<1>13. CASE RecordReleased(w)
  <2> DEFINE p == [wk[w] EXCEPT !.pc = IF wk[w].outcome = "permanent" THEN "disable" ELSE "close"]
  <2>1. p \in ProcessState /\ HandOK(p)
    BY <1>0, <1>13 DEF RecordReleased, ProcessState, HandOK
  <2>2. wk' = [wk EXCEPT ![w] = p]
    BY <1>13 DEF RecordReleased, Goto
  <2> HIDE DEF p
  <2>3. wk' \in [Worker -> ProcessState] /\ HandsOK'
    BY <2>1, <2>2, OneProcess
  <2>4. occ' \in [Claim -> Occurrence]
    BY <1>0, <1>13 DEF RecordReleased, Resolve, Occurrence, TypeOK
  <2>5. wk[w].cur[1] \in Sched
    BY <1>0, <1>13 DEF RecordReleased, HandOK, Claim
  <2>6. sch' \in [Sched -> Row]
    BY <1>0, <1>13, <2>5, RefundStep DEF RecordReleased, TypeOK
  <2> QED  BY <1>0, <1>13, <2>3, <2>4, <2>6 DEF RecordReleased, TypeInv, TypeOK, durable
<1>14. CASE DisableGrant(w)
  <2> DEFINE p == [wk[w] EXCEPT !.pc = "close", !.outcome = "failed"]
  <2>1. p \in ProcessState /\ HandOK(p)
    BY <1>0, <1>14 DEF DisableGrant, ProcessState, HandOK
  <2>2. wk' = [wk EXCEPT ![w] = p]
    BY <1>14 DEF DisableGrant, Conclude
  <2> HIDE DEF p
  <2>3. wk' \in [Worker -> ProcessState] /\ HandsOK'
    BY <2>1, <2>2, OneProcess
  <2>4. sch' \in [Sched -> Row]
    BY <1>0, <1>14, SwitchedType DEF DisableGrant, TypeOK
  <2> QED  BY <1>0, <1>14, <2>3, <2>4 DEF DisableGrant, TypeInv, TypeOK, durable
<1>15. CASE CloseJob(w)
  <2> DEFINE p == [wk[w] EXCEPT !.pc = "batch", !.cur = NoClaim, !.outcome = "none"]
  <2>1. p \in ProcessState /\ HandOK(p)
    BY <1>0, <1>15 DEF CloseJob, ProcessState, HandOK
  <2>2. wk' = [wk EXCEPT ![w] = p]
    BY <1>15 DEF CloseJob
  <2> HIDE DEF p
  <2>3. wk' \in [Worker -> ProcessState] /\ HandsOK'
    BY <2>1, <2>2, OneProcess
  <2>4. job' \in [Claim -> JobStatus]
    BY <1>0, <1>15 DEF CloseJob, JobUpdated, JobStatus, ProcessState, HandOK, TypeOK
  <2> QED  BY <1>0, <1>15, <2>3, <2>4 DEF CloseJob, TypeInv, TypeOK, durable
<1> QED
  BY <1>1, <1>2, <1>3, <1>4, <1>5, <1>6, <1>7, <1>8,
     <1>9, <1>10, <1>11, <1>12, <1>13, <1>14, <1>15 DEF Loop

(* Crashes, store failures and stopping.                                    *)
LEMMA DeadType ==
  Process("dead") \in ProcessState /\ HandOK(Process("dead"))
  BY DEF Process, ProcessState, Phase, HandOK

(* Failures keep the shape.                                                 *)
LEMMA TypeFailure ==
  ASSUME TypeInv, NEW w \in Worker, Failure(w)
  PROVE  TypeInv'
<1>0. /\ TypeOK /\ wk[w] \in ProcessState /\ HandOK(wk[w])
  BY DEF TypeInv, TypeOK, HandsOK
<1>1. CASE Crash(w)
  <2>1. wk' \in [Worker -> ProcessState] /\ HandsOK'
    BY <1>1, DeadType, OneProcess DEF Crash
  <2> QED  BY <1>0, <1>1, <2>1 DEF Crash, TypeInv, TypeOK, durable
<1>2. CASE StoreErrorAborts(w)
  <2> DEFINE p == [wk[w] EXCEPT !.pc = "idle", !.batch = {}, !.cur = NoClaim,
                                !.tickAt = 0, !.outcome = "none"]
  <2>1. p \in ProcessState /\ HandOK(p)
    BY <1>0 DEF ProcessState, HandOK
  <2>2. \/ wk' = [wk EXCEPT ![w] = Process("dead")]
        \/ wk' = [wk EXCEPT ![w] = p]
    BY <1>2 DEF StoreErrorAborts
  <2> HIDE DEF p
  <2>3. wk' \in [Worker -> ProcessState] /\ HandsOK'
    BY <2>1, <2>2, DeadType, OneProcess
  <2>4. lease' \in [owner : Worker \cup {NoWorker}, until : Nat]
    BY <1>0, <1>2 DEF StoreErrorAborts, Released, TypeOK
  <2> QED  BY <1>0, <1>2, <2>3, <2>4 DEF StoreErrorAborts, TypeInv, TypeOK
<1>3. CASE StoreErrorAfterRun(w)
  <2> DEFINE p == [wk[w] EXCEPT !.pc = "close", !.outcome = "completed"]
             q == [wk[w] EXCEPT !.pc = "batch", !.cur = NoClaim, !.outcome = "none"]
  <2>1. p \in ProcessState /\ q \in ProcessState /\ HandOK(q)
    BY <1>0 DEF ProcessState, HandOK
  <2>2. \/ wk' = [wk EXCEPT ![w] = p] /\ HandOK(p)
        \/ wk' = [wk EXCEPT ![w] = q]
    BY <1>0, <1>3 DEF StoreErrorAfterRun, Conclude, HandOK, ProcessState
  <2> HIDE DEF p, q
  <2>3. wk' \in [Worker -> ProcessState] /\ HandsOK'
    BY <2>1, <2>2, OneProcess
  <2>4. [sch EXCEPT ![wk[w].cur[1]] = Paused(@)] \in [Sched -> Row]
    BY <1>0, PausedStep DEF TypeOK
  <2>5. sch' \in [Sched -> Row]
    BY <1>0, <1>3, <2>4 DEF StoreErrorAfterRun, TypeOK
  <2> QED  BY <1>0, <1>3, <2>3, <2>5 DEF StoreErrorAfterRun, TypeInv, TypeOK
<1> QED  BY <1>1, <1>2, <1>3 DEF Failure

(* Stops keep the shape.                                                    *)
LEMMA TypeStopping ==
  ASSUME TypeInv, NEW w \in Worker, Stopping(w)
  PROVE  TypeInv'
<1>0. /\ TypeOK /\ wk[w] \in ProcessState /\ HandOK(wk[w])
  BY DEF TypeInv, TypeOK, HandsOK
<1>1. \A f \in Phase : /\ [wk[w] EXCEPT !.phase = f] \in ProcessState
                       /\ HandOK([wk[w] EXCEPT !.phase = f])
  BY <1>0 DEF ProcessState, HandOK
<1>2. \/ wk' = [wk EXCEPT ![w] = Process("dead")]
      \/ wk' = [wk EXCEPT ![w] = [wk[w] EXCEPT !.phase = "draining"]]
      \/ wk' = [wk EXCEPT ![w] = [wk[w] EXCEPT !.phase = "abandoned"]]
  BY DEF Stopping, StopRequest, StopJoined, StopTimeout, ThreadEnds
<1>3. wk' \in [Worker -> ProcessState] /\ HandsOK'
  BY <1>1, <1>2, DeadType, OneProcess DEF Phase
<1>4. lease' \in [owner : Worker \cup {NoWorker}, until : Nat]
  BY <1>0 DEF Stopping, StopRequest, StopJoined, StopTimeout, ThreadEnds, durable,
              Released, TypeOK
<1>5. UNCHANGED <<now, sch, issued, occ, job, attempted, receipts, brake, snap, runs, base,
                  noted, origin>>
  BY DEF Stopping, StopRequest, StopJoined, StopTimeout, ThreadEnds, durable
<1> QED  BY <1>0, <1>3, <1>4, <1>5 DEF TypeInv, TypeOK

(* The clock, the heartbeat, the kill switch and the job store.             *)
LEMMA TypeSurroundings ==
  ASSUME TypeInv,
         \/ Tick
         \/ \E w \in Worker :
              \/ Heartbeat(w) \/ OpenJobStore(w)
              \/ \E x \in Sched \cup {Layer} : SetBrake(w, x)
  PROVE  TypeInv'
<1>0. TypeOK /\ HandsOK
  BY DEF TypeInv
<1>1. CASE Tick
  BY <1>0, <1>1 DEF Tick, TypeInv, TypeOK, HandsOK, durable
<1>2. ASSUME NEW w \in Worker, Heartbeat(w)
      PROVE  TypeInv'
  <2>1. lease' \in [owner : Worker \cup {NoWorker}, until : Nat]
    BY <1>0, <1>2, SchedulerAssumption DEF Heartbeat, Acquired, TypeOK
  <2> QED  BY <1>0, <1>2, <2>1 DEF Heartbeat, TypeInv, TypeOK, HandsOK
<1>3. ASSUME NEW w \in Worker, OpenJobStore(w)
      PROVE  TypeInv'
  <2> DEFINE p == [wk[w] EXCEPT !.lazy = TRUE]
  <2>0. wk[w] \in ProcessState /\ HandOK(wk[w])
    BY <1>0 DEF TypeOK, HandsOK
  <2>1. p \in ProcessState /\ HandOK(p)
    BY <2>0 DEF ProcessState, HandOK
  <2>2. wk' = [wk EXCEPT ![w] = p]
    BY <1>3 DEF OpenJobStore
  <2> HIDE DEF p
  <2>3. wk' \in [Worker -> ProcessState] /\ HandsOK'
    BY <2>1, <2>2, OneProcess
  <2>4. job' \in [Claim -> JobStatus]
    BY <1>0, <1>3 DEF OpenJobStore, JobsOpened, JobStatus, TypeOK
  <2> QED  BY <1>0, <1>3, <2>3, <2>4 DEF OpenJobStore, TypeInv, TypeOK
<1>4. ASSUME NEW w \in Worker, NEW x \in Sched \cup {Layer}, SetBrake(w, x)
      PROVE  TypeInv'
  <2>1. PICK off \in {wk[w].off \cup {x}, wk[w].off \ {x}} :
          wk' = [wk EXCEPT ![w].off = off] /\ brake' = off
    BY <1>4 DEF SetBrake
  <2> DEFINE p == [wk[w] EXCEPT !.off = off]
  <2>2. wk[w] \in ProcessState /\ HandOK(wk[w])
    BY <1>0 DEF TypeOK, HandsOK
  <2>3. off \in SUBSET (Sched \cup {Layer})
    BY <2>1, <2>2 DEF ProcessState
  <2>4. p \in ProcessState /\ HandOK(p)
    BY <2>2, <2>3 DEF ProcessState, HandOK
  <2>5. wk' = [wk EXCEPT ![w] = p]
    BY <2>1
  <2> HIDE DEF p
  <2>6. wk' \in [Worker -> ProcessState] /\ HandsOK'
    BY <2>4, <2>5, OneProcess
  <2> QED  BY <1>0, <1>4, <2>1, <2>3, <2>6 DEF SetBrake, TypeInv, TypeOK
<1> QED  BY <1>1, <1>2, <1>3, <1>4

(* The operator writes one row, of the right shape.                         *)
LEMMA TypeOperator ==
  ASSUME TypeInv, NEW s \in Sched, Operator(s)
  PROVE  TypeInv'
<1>0. TypeOK /\ HandsOK /\ sch[s] \in Row /\ now \in Nat
  BY DEF TypeInv, TypeOK
<1>1. PICK g \in Row : Edit(s, g)
  <2>1. CASE Create(s)
    <3>1. PICK max \in Budgets : Edit(s, NewGrant(s, now, max))
      BY <2>1 DEF Create
    <3> QED  BY <1>0, <3>1, NewGrantType, StoreAssumption
  <2>2. CASE PauseGrant(s)
    BY <1>0, <2>2, SwitchedType DEF PauseGrant
  <2>3. CASE ResumeGrant(s)
    BY <1>0, <2>3, SwitchedType DEF ResumeGrant
  <2>4. CASE RenewGrant(s)
    <3>1. PICK max \in Budgets, enable \in {"keep", "on", "off"} :
            Edit(s, Renewed(s, sch[s], now, max, enable))
      BY <2>4 DEF RenewGrant
    <3> QED  BY <1>0, <3>1, RenewedType, StoreAssumption
  <2>5. CASE DeleteGrant(s)
    BY <2>5, NoRowType DEF DeleteGrant
  <2> QED  BY <2>1, <2>2, <2>3, <2>4, <2>5 DEF Operator
<1>2. base' \in [Sched -> Nat]
  BY <1>0 DEF Operator, Create, PauseGrant, ResumeGrant, RenewGrant, DeleteGrant, TypeOK
<1>4. origin' \in [Sched -> Int]
  <2>1. \A u \in Sched : /\ NextRun(now) \in Int /\ Restarted(u) \in Int
                         /\ origin[u] \in Int
    BY <1>0, StoreAssumption DEF NextRun, Restarted, TypeOK, Row
  <2>2. \/ origin' = origin
        \/ \E i \in Int : origin' = [origin EXCEPT ![s] = i]
    BY <2>1 DEF Operator, Create, PauseGrant, ResumeGrant, RenewGrant, DeleteGrant
  <2> QED  BY <1>0, <2>2 DEF TypeOK
<1>3. sch' \in [Sched -> Row]
  BY <1>0, <1>1 DEF Edit, TypeOK
<1> QED  BY <1>0, <1>1, <1>2, <1>3, <1>4 DEF Edit, TypeInv, TypeOK, HandsOK

(* Every step keeps the shape.                                              *)
LEMMA TypeStep == TypeInv /\ [Next]_vars => TypeInv'
<1> SUFFICES ASSUME TypeInv, [Next]_vars PROVE TypeInv'
  OBVIOUS
<1>1. CASE UNCHANGED vars
  BY <1>1 DEF vars, durable, TypeInv, TypeOK, HandsOK
<1>2. CASE Next
  BY <1>2, TypeStartup, TypeLoop, TypeFailure, TypeStopping, TypeSurroundings,
     TypeOperator DEF Next
<1> QED  BY <1>1, <1>2

(* Type correctness, and with it that the jobs and audit tables only ever   *)
(* receive a claim that is in a process' hands.                             *)
THEOREM TypeCorrect == Spec => []TypeInv
<1>1. Init => TypeInv
  BY TypeInit
<1>2. TypeInv /\ [Next]_vars => TypeInv'
  BY TypeStep
<1> QED  BY <1>1, <1>2, PTL DEF Spec

(* Every table, snapshot and process keeps the shape the code gives it.     *)
THEOREM TypeSafe == Spec => []TypeOK
<1>1. TypeInv => TypeOK
  BY DEF TypeInv
<1> QED  BY <1>1, TypeCorrect, PTL

HIDE DEF Executing

-----------------------------------------------------------------------------
(***************************************************************************)
(* What the runner lease guarantees, whatever the number of processes.      *)
(*                                                                          *)
(* A process that has not been given up on holds the unexpired lease from   *)
(* the moment it acquires it for a tick or for recovery until it is idle    *)
(* again.  Nobody can acquire a lease another holds unexpired, so there is  *)
(* at most one such process.  The argument needs the clock to be kind: a    *)
(* heartbeat in time, that is "stall" \notin Faults.                        *)
(***************************************************************************)

(* In a tick, about to claim for it, or recovering.                         *)
Working(w) ==
  /\ wk[w].phase # "abandoned"
  /\ InTick(w) \/ Recovering(w) \/ wk[w].pc = "claim"

LeaseInv ==
  \A w \in Worker : Working(w) => lease.owner = w /\ lease.until > now

-----------------------------------------------------------------------------
(* A process moves alone; only stop() and its own end change its phase.     *)
LEMMA StartupLocal ==
  ASSUME TypeInv, NEW w \in Worker, Startup(w)
  PROVE  /\ wk'[w].phase \in {wk[w].phase, "up"}
         /\ wk'[w].tickAt \in {wk[w].tickAt, 0}
         /\ \A v \in Worker \ {w} : wk'[v] = wk[v]
<1>0. wk \in [Worker -> ProcessState] /\ wk[w] \in ProcessState
  BY DEF TypeInv, TypeOK
<1> USE <1>0 DEF Goto, ProcessState
<1>1. CASE Start(w)
  BY <1>1 DEF Start, Process
<1>2. CASE RecoverBegin(w)
  BY <1>2 DEF RecoverBegin
<1>3. CASE RecoverOne(w)
  BY <1>3 DEF RecoverOne
<1>4. CASE Reconcile(w)
  BY <1>4 DEF Reconcile
<1>5. CASE RecoverDone(w)
  BY <1>5 DEF RecoverDone
<1> QED  BY <1>1, <1>2, <1>3, <1>4, <1>5 DEF Startup

(* Nor does a failure touch another process.                                *)
LEMMA FailureLocal ==
  ASSUME TypeInv, NEW w \in Worker, Failure(w)
  PROVE  /\ wk'[w].tickAt \in {wk[w].tickAt, 0}
         /\ \A v \in Worker \ {w} : wk'[v] = wk[v]
<1>0. wk \in [Worker -> ProcessState] /\ wk[w] \in ProcessState
  BY DEF TypeInv, TypeOK
<1>1. \A v \in Worker \ {w} : wk'[v] = wk[v]
  BY <1>0 DEF Failure, Crash, StoreErrorAborts, StoreErrorAfterRun, Conclude
<1>2. wk'[w].tickAt \in {wk[w].tickAt, 0}
  BY <1>0 DEF Failure, Crash, StoreErrorAborts, StoreErrorAfterRun, Conclude, Process,
              ProcessState
<1> QED  BY <1>1, <1>2

(* Nor does a stop.                                                         *)
LEMMA StoppingLocal ==
  ASSUME TypeInv, NEW w \in Worker, Stopping(w)
  PROVE  /\ wk'[w].tickAt \in {wk[w].tickAt, 0}
         /\ \A v \in Worker \ {w} : wk'[v] = wk[v]
<1>0. wk \in [Worker -> ProcessState] /\ wk[w] \in ProcessState
  BY DEF TypeInv, TypeOK
<1>1. \A v \in Worker \ {w} : wk'[v] = wk[v]
  BY <1>0 DEF Stopping, StopRequest, StopJoined, StopTimeout, ThreadEnds
<1>2. wk'[w].tickAt \in {wk[w].tickAt, 0}
  BY <1>0 DEF Stopping, StopRequest, StopJoined, StopTimeout, ThreadEnds, Process,
              ProcessState
<1> QED  BY <1>1, <1>2

(* The loop neither stops nor gives up a process, and leaves the others be. *)
LEMMA LoopLocal ==
  ASSUME TypeInv, NEW w \in Worker, Loop(w)
  PROVE  /\ wk'[w].phase = wk[w].phase
         /\ wk'[w].tickAt \in {wk[w].tickAt, now, 0}
         /\ \A v \in Worker \ {w} : wk'[v] = wk[v]
<1>0. wk \in [Worker -> ProcessState] /\ wk[w] \in ProcessState
  BY DEF TypeInv, TypeOK
<1> USE <1>0 DEF Goto, Conclude, ProcessState
<1>1. CASE TickBegin(w)
  BY <1>1 DEF TickBegin
<1>2. CASE ClaimDue(w)
  BY <1>2 DEF ClaimDue, ClaimBatch
<1>3. CASE CreateJob(w)
  BY <1>3 DEF CreateJob
<1>4. CASE TickEnd(w)
  BY <1>4 DEF TickEnd
<1>5. CASE BindJob(w)
  BY <1>5 DEF BindJob
<1>6. CASE Policy(w)
  BY <1>6 DEF Policy
<1>7. CASE Guard(w)
  BY <1>7 DEF Guard
<1>8. CASE Attempt(w)
  BY <1>8 DEF Attempt
<1>9. CASE Propose(w)
  BY <1>9 DEF Propose
<1>10. CASE RunTool(w)
  BY <1>10 DEF RunTool
<1>11. CASE Receipt(w)
  BY <1>11 DEF Receipt
<1>12. CASE RecordExecuted(w)
  BY <1>12 DEF RecordExecuted
<1>13. CASE RecordReleased(w)
  BY <1>13 DEF RecordReleased
<1>14. CASE DisableGrant(w)
  BY <1>14 DEF DisableGrant
<1>15. CASE CloseJob(w)
  BY <1>15 DEF CloseJob
<1> QED
  BY <1>1, <1>2, <1>3, <1>4, <1>5, <1>6, <1>7, <1>8,
     <1>9, <1>10, <1>11, <1>12, <1>13, <1>14, <1>15 DEF Loop

-----------------------------------------------------------------------------
(* A step of process w keeps the invariant when it keeps the lease and does *)
(* not begin to work, or acquires it, or gives it up and stops working.     *)
LEMMA LeaseOfOne ==
  ASSUME TypeInv, LeaseInv, NEW w \in Worker,
         now' = now,
         \A v \in Worker \ {w} : wk'[v] = wk[v],
         \/ lease' = lease /\ (Working(w)' => Working(w))
         \/ LeaseFree(w) /\ lease' = Acquired(w)
         \/ lease' = Released(w) /\ ~Working(w)'
  PROVE  LeaseInv'
<1>1. /\ now \in Nat
      /\ lease \in [owner : Worker \cup {NoWorker}, until : Nat]
  BY DEF TypeInv, TypeOK
<1>2. \A v \in Worker \ {w} : Working(v)' => Working(v)
  BY DEF Working, InTick, Recovering
<1>3. CASE lease' = lease /\ (Working(w)' => Working(w))
  BY <1>2, <1>3 DEF LeaseInv
<1>4. CASE LeaseFree(w) /\ lease' = Acquired(w)
  <2>1. \A v \in Worker \ {w} : ~Working(v)
    BY <1>1, <1>4, SchedulerAssumption DEF LeaseInv, LeaseFree
  <2>2. lease'.owner = w /\ lease'.until > now
    BY <1>1, <1>4, SchedulerAssumption DEF Acquired
  <2> QED  BY <1>2, <2>1, <2>2 DEF LeaseInv
<1>5. CASE lease' = Released(w) /\ ~Working(w)'
  BY <1>1, <1>2, <1>5 DEF LeaseInv, Released
<1> QED  BY <1>3, <1>4, <1>5

(* No process works before it has started.                                  *)
LEMMA LeaseInit == Init => LeaseInv
  BY DEF Init, LeaseInv, Working, InTick, Recovering, Process

(* Recovery begins under the lease, or not at all.                          *)
LEMMA LeaseStartup ==
  ASSUME TypeInv, LeaseInv, NEW w \in Worker, Startup(w)
  PROVE  LeaseInv'
<1>0. wk \in [Worker -> ProcessState] /\ wk[w] \in ProcessState
  BY DEF TypeInv, TypeOK
<1> USE <1>0 DEF Working, InTick, Recovering
<1>1. CASE Start(w)
  <2>1. ~Working(w)'
    BY <1>1 DEF Start, Process
  <2> QED  BY <1>1, <2>1, LeaseOfOne DEF Start
<1>2. CASE RecoverBegin(w)
  <2>1. LeaseFree(w) => lease' = Acquired(w)
    BY <1>2 DEF RecoverBegin
  <2>2. ~LeaseFree(w) => lease' = lease /\ wk'[w].pc = "idle"
    BY <1>2 DEF RecoverBegin, Goto, ProcessState
  <2>3. now' = now /\ \A v \in Worker \ {w} : wk'[v] = wk[v]
    BY <1>2 DEF RecoverBegin, Goto
  <2>4. wk'[w].pc = "idle" => ~Working(w)'
    OBVIOUS
  <2> QED  BY <2>1, <2>2, <2>3, <2>4, LeaseOfOne
<1>3. CASE RecoverOne(w)
  <2>1. Working(w)' => Working(w)
    BY <1>3 DEF RecoverOne, ProcessState
  <2> QED  BY <1>3, <2>1, LeaseOfOne DEF RecoverOne
<1>4. CASE Reconcile(w)
  <2>1. Working(w)' => Working(w)
    BY <1>4 DEF Reconcile, ProcessState
  <2> QED  BY <1>4, <2>1, LeaseOfOne DEF Reconcile
<1>5. CASE RecoverDone(w)
  <2>1. ~Working(w)'
    BY <1>5 DEF RecoverDone, ProcessState
  <2> QED  BY <1>5, <2>1, LeaseOfOne DEF RecoverDone, durable
<1> QED  BY <1>1, <1>2, <1>3, <1>4, <1>5 DEF Startup

(* A tick begins under the lease and stays under it.                        *)
LEMMA LeaseLoop ==
  ASSUME TypeInv, LeaseInv, NEW w \in Worker, Loop(w)
  PROVE  LeaseInv'
<1>0. wk \in [Worker -> ProcessState] /\ wk[w] \in ProcessState
  BY DEF TypeInv, TypeOK
<1> USE <1>0
<1>a. \A v \in Worker \ {w} : wk'[v] = wk[v]
  BY LoopLocal
<1>1. CASE TickBegin(w)
  BY <1>1, LeaseOfOne DEF TickBegin
<1>2. CASE ClaimDue(w)
  <2>1. Working(w)' => Working(w)
    BY <1>2 DEF ClaimDue, ClaimBatch, Goto, Conclude, ProcessState, Working, InTick, Recovering
  <2> QED  BY <1>2, <1>a, <2>1, LeaseOfOne DEF ClaimDue, durable
<1>3. CASE CreateJob(w)
  <2>1. Working(w)' => Working(w)
    BY <1>3 DEF CreateJob, Goto, Conclude, ProcessState, Working, InTick, Recovering
  <2> QED  BY <1>3, <1>a, <2>1, LeaseOfOne DEF CreateJob, durable
<1>4. CASE TickEnd(w)
  <2>1. Working(w)' => Working(w)
    BY <1>4 DEF TickEnd, Goto, Conclude, ProcessState, Working, InTick, Recovering
  <2> QED  BY <1>4, <1>a, <2>1, LeaseOfOne DEF TickEnd, durable
<1>5. CASE BindJob(w)
  <2>1. Working(w)' => Working(w)
    BY <1>5 DEF BindJob, Goto, Conclude, ProcessState, Working, InTick, Recovering
  <2> QED  BY <1>5, <1>a, <2>1, LeaseOfOne DEF BindJob, durable
<1>6. CASE Policy(w)
  <2>1. Working(w)' => Working(w)
    BY <1>6 DEF Policy, Goto, Conclude, ProcessState, Working, InTick, Recovering
  <2> QED  BY <1>6, <1>a, <2>1, LeaseOfOne DEF Policy, durable
<1>7. CASE Guard(w)
  <2>1. Working(w)' => Working(w)
    BY <1>7 DEF Guard, Goto, Conclude, ProcessState, Working, InTick, Recovering
  <2> QED  BY <1>7, <1>a, <2>1, LeaseOfOne DEF Guard, durable
<1>8. CASE Attempt(w)
  <2>1. Working(w)' => Working(w)
    BY <1>8 DEF Attempt, Goto, Conclude, ProcessState, Working, InTick, Recovering
  <2> QED  BY <1>8, <1>a, <2>1, LeaseOfOne DEF Attempt, durable
<1>9. CASE Propose(w)
  <2>1. Working(w)' => Working(w)
    BY <1>9 DEF Propose, Goto, Conclude, ProcessState, Working, InTick, Recovering
  <2> QED  BY <1>9, <1>a, <2>1, LeaseOfOne DEF Propose, durable
<1>10. CASE RunTool(w)
  <2>1. Working(w)' => Working(w)
    BY <1>10 DEF RunTool, Goto, Conclude, ProcessState, Working, InTick, Recovering
  <2> QED  BY <1>10, <1>a, <2>1, LeaseOfOne DEF RunTool, durable
<1>11. CASE Receipt(w)
  <2>1. Working(w)' => Working(w)
    BY <1>11 DEF Receipt, Goto, Conclude, ProcessState, Working, InTick, Recovering
  <2> QED  BY <1>11, <1>a, <2>1, LeaseOfOne DEF Receipt, durable
<1>12. CASE RecordExecuted(w)
  <2>1. Working(w)' => Working(w)
    BY <1>12 DEF RecordExecuted, Goto, Conclude, ProcessState, Working, InTick, Recovering
  <2> QED  BY <1>12, <1>a, <2>1, LeaseOfOne DEF RecordExecuted, durable
<1>13. CASE RecordReleased(w)
  <2>1. Working(w)' => Working(w)
    BY <1>13 DEF RecordReleased, Goto, Conclude, ProcessState, Working, InTick, Recovering
  <2> QED  BY <1>13, <1>a, <2>1, LeaseOfOne DEF RecordReleased, durable
<1>14. CASE DisableGrant(w)
  <2>1. Working(w)' => Working(w)
    BY <1>14 DEF DisableGrant, Goto, Conclude, ProcessState, Working, InTick, Recovering
  <2> QED  BY <1>14, <1>a, <2>1, LeaseOfOne DEF DisableGrant, durable
<1>15. CASE CloseJob(w)
  <2>1. Working(w)' => Working(w)
    BY <1>15 DEF CloseJob, Goto, Conclude, ProcessState, Working, InTick, Recovering
  <2> QED  BY <1>15, <1>a, <2>1, LeaseOfOne DEF CloseJob, durable
<1> QED
  BY <1>1, <1>2, <1>3, <1>4, <1>5, <1>6, <1>7, <1>8,
     <1>9, <1>10, <1>11, <1>12, <1>13, <1>14, <1>15 DEF Loop

(* A process that dies or leaves its tick does not work any more.           *)
LEMMA LeaseFailure ==
  ASSUME TypeInv, LeaseInv, NEW w \in Worker, Failure(w)
  PROVE  LeaseInv'
<1>0. wk \in [Worker -> ProcessState] /\ wk[w] \in ProcessState
  BY DEF TypeInv, TypeOK
<1> USE <1>0
<1>1. \A v \in Worker \ {w} : wk'[v] = wk[v]
  BY FailureLocal
<1>2. now' = now
  BY DEF Failure, Crash, StoreErrorAborts, StoreErrorAfterRun
<1>3. CASE Crash(w)
  <2>1. ~Working(w)'
    BY <1>3 DEF Crash, Process, Working, InTick, Recovering
  <2> QED  BY <1>1, <1>3, <2>1, LeaseOfOne DEF Crash, durable
<1>4. CASE StoreErrorAborts(w)
  <2>1. ~Working(w)'
    BY <1>4 DEF StoreErrorAborts, Process, ProcessState, Working, InTick, Recovering
  <2> QED  BY <1>1, <1>2, <1>4, <2>1, LeaseOfOne DEF StoreErrorAborts
<1>5. CASE StoreErrorAfterRun(w)
  <2>1. Working(w)' => Working(w)
    BY <1>5 DEF StoreErrorAfterRun, Conclude, ProcessState, Working, InTick, Recovering
  <2> QED  BY <1>1, <1>2, <1>5, <2>1, LeaseOfOne DEF StoreErrorAfterRun
<1> QED  BY <1>3, <1>4, <1>5 DEF Failure

(* A stop releases the lease of an idle process only.                       *)
LEMMA LeaseStopping ==
  ASSUME TypeInv, LeaseInv, NEW w \in Worker, Stopping(w)
  PROVE  LeaseInv'
<1>0. wk \in [Worker -> ProcessState] /\ wk[w] \in ProcessState
  BY DEF TypeInv, TypeOK
<1> USE <1>0
<1>1. \A v \in Worker \ {w} : wk'[v] = wk[v]
  BY StoppingLocal
<1>2. now' = now
  BY DEF Stopping, StopRequest, StopJoined, StopTimeout, ThreadEnds
<1>3. CASE StopRequest(w)
  <2>1. Working(w)' => Working(w)
    BY <1>3 DEF StopRequest, ProcessState, Working, InTick, Recovering
  <2> QED  BY <1>1, <1>3, <2>1, LeaseOfOne DEF StopRequest, durable
<1>4. CASE StopJoined(w)
  <2>1. ~Working(w)'
    BY <1>4 DEF StopJoined, Process, Working, InTick, Recovering
  <2> QED  BY <1>1, <1>4, <2>1, LeaseOfOne DEF StopJoined
<1>5. CASE StopTimeout(w)
  <2>1. ~Working(w)'
    BY <1>5 DEF StopTimeout, ProcessState, Working
  <2> QED  BY <1>1, <1>5, <2>1, LeaseOfOne DEF StopTimeout, durable
<1>6. CASE ThreadEnds(w)
  <2>1. ~Working(w)'
    BY <1>6 DEF ThreadEnds, Process, Working, InTick, Recovering
  <2> QED  BY <1>1, <1>6, <2>1, LeaseOfOne DEF ThreadEnds, durable
<1> QED  BY <1>3, <1>4, <1>5, <1>6 DEF Stopping

(* The clock waits for the heartbeat of whoever holds the lease.            *)
LEMMA LeaseTick ==
  ASSUME TypeInv, LeaseInv, "stall" \notin Faults, Tick
  PROVE  LeaseInv'
<1>1. now \in Nat /\ wk' = wk /\ lease' = lease /\ now' = now + 1
  BY DEF Tick, TypeInv, TypeOK, durable
<1>2. Timely(now + 1)
  BY DEF Tick
<1>3. \A w \in Worker : Working(w)' => Working(w) /\ Running(w)
  BY <1>1 DEF Working, InTick, Recovering, Running
<1> QED  BY <1>1, <1>2, <1>3 DEF Timely, LeaseInv, Working

(* Every step keeps the lease with whoever works.                           *)
LEMMA LeaseStep ==
  ASSUME "stall" \notin Faults
  PROVE  TypeInv /\ LeaseInv /\ [Next]_vars => LeaseInv'
<1> SUFFICES ASSUME TypeInv, LeaseInv, [Next]_vars PROVE LeaseInv'
  OBVIOUS
<1>0. wk \in [Worker -> ProcessState]
  BY DEF TypeInv, TypeOK
<1>1. CASE UNCHANGED vars
  BY <1>1 DEF vars, durable, LeaseInv, Working, InTick, Recovering
<1>2. ASSUME NEW w \in Worker, Heartbeat(w)
      PROVE  LeaseInv'
  BY <1>2, LeaseOfOne DEF Heartbeat
<1>3. ASSUME NEW w \in Worker,
             OpenJobStore(w) \/ \E x \in Sched \cup {Layer} : SetBrake(w, x)
      PROVE  LeaseInv'
  <2>1. lease' = lease /\ now' = now
    BY <1>3 DEF OpenJobStore, SetBrake
  <2>4. \A v \in Worker \ {w} : wk'[v] = wk[v]
    BY <1>0, <1>3 DEF OpenJobStore, SetBrake
  <2>2. wk'[w].pc = wk[w].pc /\ wk'[w].phase = wk[w].phase
    BY <1>0, <1>3 DEF OpenJobStore, SetBrake, ProcessState
  <2>3. Working(w)' => Working(w)
    BY <2>2 DEF Working, InTick, Recovering
  <2> QED  BY <2>1, <2>3, <2>4, LeaseOfOne
<1>4. ASSUME NEW s \in Sched, Operator(s)
      PROVE  LeaseInv'
  <2>1. wk' = wk /\ lease' = lease /\ now' = now
    BY <1>4 DEF Operator, Create, PauseGrant, ResumeGrant, RenewGrant, DeleteGrant, Edit
  <2> QED  BY <2>1 DEF LeaseInv, Working, InTick, Recovering
<1> QED
  BY <1>1, <1>2, <1>3, <1>4, LeaseTick, LeaseStartup, LeaseLoop, LeaseFailure,
     LeaseStopping DEF Next

(* Mutual exclusion: of the processes not given up on, at most one is       *)
(* working through a batch or recovering; whatever crashes, stops, store    *)
(* failures and operator requests happen, as long as heartbeats are in time.*)
THEOREM OneOwner ==
  ASSUME "stall" \notin Faults
  PROVE  Spec => []OneOwnerAtWork
<1>1. Init => LeaseInv
  BY LeaseInit
<1>2. TypeInv /\ LeaseInv /\ [Next]_vars => LeaseInv'
  BY LeaseStep
<1>3. LeaseInv => OneOwnerAtWork
  BY DEF LeaseInv, Working, OneOwnerAtWork
<1> QED  BY <1>1, <1>2, <1>3, TypeCorrect, PTL DEF Spec

-----------------------------------------------------------------------------
(* Without "stop_timeout" nobody is given up on while it still works.       *)
NoneAbandoned == \A w \in Worker : wk[w].phase # "abandoned"

(* Only a stop that times out gives a process up.                           *)
LEMMA NoneAbandonedStep ==
  ASSUME "stop_timeout" \notin Faults
  PROVE  TypeInv /\ NoneAbandoned /\ [Next]_vars => NoneAbandoned'
<1> SUFFICES ASSUME TypeInv, NoneAbandoned, [Next]_vars,
                    NEW w \in Worker, wk'[w] # wk[w]
             PROVE  wk'[w].phase # "abandoned"
  BY DEF NoneAbandoned
<1>0. /\ wk \in [Worker -> ProcessState] /\ wk[w] \in ProcessState
      /\ wk[w].phase # "abandoned"
  BY DEF TypeInv, TypeOK, NoneAbandoned
<1>1. CASE \E v \in Worker : Startup(v)
  BY <1>0, <1>1, StartupLocal
<1>2. CASE \E v \in Worker : Loop(v)
  BY <1>0, <1>2, LoopLocal
<1>3. ASSUME NEW v \in Worker, Failure(v) \/ Stopping(v)
      PROVE  wk'[w].phase # "abandoned"
  <2>1. \A u \in Worker \ {v} : wk'[u] = wk[u]
    BY <1>3, FailureLocal, StoppingLocal
  <2>2. w = v
    BY <2>1
  <2>3. CASE Crash(v) \/ StoreErrorAborts(v) \/ StoreErrorAfterRun(v)
    BY <1>0, <2>2, <2>3 DEF Crash, StoreErrorAborts, StoreErrorAfterRun, Conclude,
                            Process, ProcessState
  <2>4. CASE Stopping(v)
    BY <1>0, <2>2, <2>4 DEF Stopping, StopRequest, StopJoined, StopTimeout, ThreadEnds,
                            Process, ProcessState
  <2> QED  BY <1>3, <2>3, <2>4 DEF Failure
<1>4. CASE \E v \in Worker : OpenJobStore(v) \/ \E x \in Sched \cup {Layer} : SetBrake(v, x)
  BY <1>0, <1>4 DEF OpenJobStore, SetBrake, ProcessState
<1>5. ~(Tick \/ \E v \in Worker : Heartbeat(v))
  BY DEF Tick, Heartbeat
<1>6. ~\E s \in Sched : Operator(s)
  BY DEF Operator, Create, PauseGrant, ResumeGrant, RenewGrant, DeleteGrant, Edit
<1>7. ~UNCHANGED vars
  BY DEF vars
<1> QED  BY <1>1, <1>2, <1>3, <1>4, <1>5, <1>6, <1>7 DEF Next

(* The steps that write the occurrences table.                              *)
LEMMA OccurrenceWriters ==
  ASSUME [Next]_vars, occ' # occ
  PROVE  \E v \in Worker : \/ RecoverOne(v) \/ ClaimDue(v) \/ BindJob(v)
                           \/ RecordExecuted(v) \/ RecordReleased(v)
<1>1. ~UNCHANGED vars /\ ~Tick
  BY DEF vars, durable, Tick
<1>2. ~\E s \in Sched : Operator(s)
  BY DEF Operator, Create, PauseGrant, ResumeGrant, RenewGrant, DeleteGrant, Edit
<1>3. ~\E v \in Worker : \/ Heartbeat(v) \/ OpenJobStore(v)
                         \/ \E x \in Sched \cup {Layer} : SetBrake(v, x)
  BY DEF Heartbeat, OpenJobStore, SetBrake
<1>4. ~\E v \in Worker : Failure(v) \/ Stopping(v)
  BY DEF Failure, Crash, StoreErrorAborts, StoreErrorAfterRun, Stopping, StopRequest,
         StopJoined, StopTimeout, ThreadEnds, durable
<1>5. ASSUME NEW v \in Worker, Startup(v)
      PROVE  RecoverOne(v)
  BY <1>5 DEF Startup, Start, RecoverBegin, Reconcile, RecoverDone, durable
<1>6. ASSUME NEW v \in Worker, Loop(v)
      PROVE  ClaimDue(v) \/ BindJob(v) \/ RecordExecuted(v) \/ RecordReleased(v)
  BY <1>6 DEF Loop, TickBegin, CreateJob, TickEnd, Policy, Guard, Attempt, Propose,
              RunTool, Receipt, DisableGrant, CloseJob, durable
<1> QED  BY <1>1, <1>2, <1>3, <1>4, <1>5, <1>6 DEF Next

(* A claim in the hands of a process at work is never settled by another's  *)
(* recovery: only a recovering process abandons, and it is then the one     *)
(* owner at work.                                                           *)
LEMMA KeepsClaimsStep ==
  ASSUME TypeInv, LeaseInv, NoneAbandoned, [Next]_vars,
         NEW w \in Worker, NEW c \in InHand(w), Unresolved(occ[c])
  PROVE  occ'[c].status \notin {"abandoned", "unknown"}
<1>0. /\ occ \in [Claim -> Occurrence] /\ wk \in [Worker -> ProcessState]
      /\ occ[c].status \notin {"abandoned", "unknown"}
  BY DEF TypeInv, TypeOK, Unresolved
<1>1. InTick(w) /\ c \in Claim
  BY <1>0 DEF InHand, InTick, ProcessState
<1> SUFFICES ASSUME occ' # occ PROVE occ'[c].status \notin {"abandoned", "unknown"}
  BY <1>0
<1>2. ASSUME NEW v \in Worker, RecoverOne(v)
      PROVE  FALSE
  <2>1. Recovering(v) /\ v # w
    BY <1>1, <1>2 DEF RecoverOne, Recovering, InTick
  <2> QED  BY <1>1, <2>1 DEF LeaseInv, Working, NoneAbandoned
<1>3. ASSUME NEW v \in Worker, ClaimDue(v)
      PROVE  occ'[c].status \notin {"abandoned", "unknown"}
  BY <1>0, <1>1, <1>3 DEF ClaimDue, ClaimBatch
<1>4. ASSUME NEW v \in Worker, BindJob(v)
      PROVE  occ'[c].status \notin {"abandoned", "unknown"}
  BY <1>0, <1>1, <1>4 DEF BindJob, Occurrence
<1>5. ASSUME NEW v \in Worker, RecordExecuted(v) \/ RecordReleased(v)
      PROVE  occ'[c].status \notin {"abandoned", "unknown"}
  BY <1>0, <1>1, <1>5 DEF RecordExecuted, RecordReleased, Resolve, Occurrence
<1>6. \E v \in Worker : \/ RecoverOne(v) \/ ClaimDue(v) \/ BindJob(v)
                        \/ RecordExecuted(v) \/ RecordReleased(v)
  BY OccurrenceWriters
<1> QED  BY <1>2, <1>3, <1>4, <1>5, <1>6

(* Mutual exclusion is what makes recovery safe: as long as heartbeats are  *)
(* in time and no stop times out, the claims of a living owner are never    *)
(* abandoned by another process.                                            *)
THEOREM OwnerKeepsClaims ==
  ASSUME "stall" \notin Faults, "stop_timeout" \notin Faults
  PROVE  Spec => LivingOwnerKeepsClaims
<1> DEFINE Inv == TypeInv /\ LeaseInv /\ NoneAbandoned
           Step == \A w \in Worker : \A c \in InHand(w) :
                     Unresolved(occ[c]) => occ'[c].status \notin {"abandoned", "unknown"}
<1>1. Init => Inv
  BY TypeInit, LeaseInit DEF Init, NoneAbandoned, Process
<1>2. Inv /\ [Next]_vars => Inv'
  BY TypeStep, LeaseStep, NoneAbandonedStep
<1>3. Inv /\ [Next]_vars => [Step]_vars
  BY KeepsClaimsStep
<1> QED  BY <1>1, <1>2, <1>3, PTL DEF Spec, LivingOwnerKeepsClaims

-----------------------------------------------------------------------------
(* Startup recovery leaves no orphans.  A process that has recovered keeps  *)
(* the lease as long as it lives, because its heartbeat comes in time and   *)
(* nobody can acquire the lease meanwhile: so nobody else takes claims, and *)
(* what is unresolved was either found by its recovery or claimed by itself *)
(* since, and stays in its hands until it is settled.                       *)
NoDroppedClaims == {"stall", "stop_timeout", "store_error"} \cap Faults = {}

Recovered(w) == Running(w) /\ wk[w].recovered

OrphanInv(w) ==
  /\ Recovered(w) \/ Recovering(w) => lease.owner = w /\ lease.until > now
  /\ Recovering(w) => ReservedOccurrences \subseteq wk[w].batch
  /\ Recovered(w) => ReservedOccurrences \subseteq InHand(w)
  /\ wk[w].pc \in {"off", "acquire", "recover", "reconcile"} => ~wk[w].recovered
  /\ wk[w].pc \in {"disable", "close"} => wk[w].cur \notin ReservedOccurrences

NoOrphans == \A w \in Worker : OrphanInv(w)

(* A step of process w, seen from the others: it keeps the lease, takes a   *)
(* free one or gives up its own, and only in a claim adds to what is        *)
(* unresolved.                                                              *)
AloneWith(w) ==
  /\ now' = now
  /\ \A v \in Worker \ {w} : wk'[v] = wk[v]
  /\ \/ lease' = lease
     \/ LeaseFree(w) /\ lease' = Acquired(w)
     \/ lease' = Released(w)
  /\ \/ ReservedOccurrences' \subseteq ReservedOccurrences
     \/ wk[w].pc = "claim"

(* The others keep what they have.                                          *)
LEMMA OrphanOthers ==
  ASSUME TypeInv, LeaseInv, NoneAbandoned, NoOrphans, NEW w \in Worker, AloneWith(w),
         NEW v \in Worker \ {w}
  PROVE  OrphanInv(v)'
<1>0. /\ now \in Nat /\ lease \in [owner : Worker \cup {NoWorker}, until : Nat]
      /\ v \in Worker /\ v # w /\ v # NoWorker /\ w # NoWorker
      /\ wk'[v] = wk[v] /\ now' = now /\ OrphanInv(v)
  BY SchedulerAssumption DEF TypeInv, TypeOK, AloneWith, NoOrphans
<1>1. /\ Recovered(v)' = Recovered(v) /\ Recovering(v)' = Recovering(v)
      /\ InHand(v)' = InHand(v) /\ InTick(v)' = InTick(v)
  BY <1>0 DEF Recovered, Recovering, Running, InHand, InTick
<1>2. lease.owner = v /\ lease.until > now => lease' = lease
  BY <1>0 DEF AloneWith, LeaseFree, Released
<1>3. Recovered(v) \/ Recovering(v) \/ InTick(v)
        => ReservedOccurrences' \subseteq ReservedOccurrences
  <2>1. Recovered(v) \/ Recovering(v) \/ InTick(v) => lease.owner = v
    BY <1>0 DEF OrphanInv, LeaseInv, Working, NoneAbandoned
  <2>2. wk[w].pc = "claim" => lease.owner = w
    BY DEF LeaseInv, Working, NoneAbandoned
  <2> QED  BY <1>0, <2>1, <2>2 DEF AloneWith
<1>4. Recovered(v)' \/ Recovering(v)' => lease'.owner = v /\ lease'.until > now'
  BY <1>0, <1>1, <1>2 DEF OrphanInv
<1>5. /\ Recovering(v)' => ReservedOccurrences' \subseteq wk'[v].batch
      /\ Recovered(v)' => ReservedOccurrences' \subseteq InHand(v)'
  BY <1>0, <1>1, <1>3 DEF OrphanInv
<1>6. /\ wk'[v].pc \in {"off", "acquire", "recover", "reconcile"} => ~wk'[v].recovered
      /\ wk'[v].pc \in {"disable", "close"} => wk'[v].cur \notin ReservedOccurrences'
  BY <1>0, <1>3 DEF OrphanInv, InTick
<1> QED  BY <1>4, <1>5, <1>6 DEF OrphanInv

(* A step that neither begins nor ends anything leaves the process' own     *)
(* claims in its hands.                                                     *)
LEMMA OrphanSteady ==
  ASSUME TypeInv, NoneAbandoned, NoOrphans, NEW w \in Worker, now' = now,
         lease' = lease \/ lease' = Acquired(w),
         ReservedOccurrences' \subseteq ReservedOccurrences,
         Recovered(w)' => Recovered(w),
         Recovering(w)' => Recovering(w) /\ wk'[w].batch = wk[w].batch,
         Recovered(w)' => InHand(w) \cap ReservedOccurrences' \subseteq InHand(w)',
         wk'[w].pc \in {"off", "acquire", "recover", "reconcile"} => ~wk'[w].recovered,
         wk'[w].pc \in {"disable", "close"} => wk'[w].cur \notin ReservedOccurrences'
  PROVE  OrphanInv(w)'
<1>0. now \in Nat /\ OrphanInv(w)
  BY DEF TypeInv, TypeOK, NoOrphans
<1>1. Recovered(w)' \/ Recovering(w)' => lease'.owner = w /\ lease'.until > now'
  <2>1. Acquired(w).owner = w /\ Acquired(w).until > now
    BY <1>0, SchedulerAssumption DEF Acquired
  <2> QED  BY <1>0, <2>1 DEF OrphanInv
<1>2. Recovering(w)' => ReservedOccurrences' \subseteq wk'[w].batch
  BY <1>0 DEF OrphanInv
<1>3. Recovered(w)' => ReservedOccurrences' \subseteq InHand(w)'
  BY <1>0 DEF OrphanInv
<1> QED  BY <1>1, <1>2, <1>3 DEF OrphanInv

(* Recovery itself: what is unresolved is on its list until it is settled.  *)
LEMMA OrphanStartup ==
  ASSUME TypeInv, LeaseInv, NoneAbandoned, NoOrphans, NEW w \in Worker, Startup(w)
  PROVE  AloneWith(w) /\ OrphanInv(w)'
<1>0. /\ wk \in [Worker -> ProcessState] /\ wk[w] \in ProcessState /\ OrphanInv(w)
      /\ occ \in [Claim -> Occurrence] /\ now \in Nat
  BY DEF TypeInv, TypeOK, NoOrphans
<1>1. \A v \in Worker \ {w} : wk'[v] = wk[v]
  BY StartupLocal
<1>2. CASE Start(w)
  <2>1. AloneWith(w)
    BY <1>1, <1>2 DEF Start, AloneWith, ReservedOccurrences
  <2>2. wk'[w].pc = "acquire" /\ ~wk'[w].recovered
    BY <1>0, <1>2 DEF Start, Process
  <2>3. ~Recovered(w)' /\ ~Recovering(w)'
    BY <2>2 DEF Recovered, Recovering
  <2> QED  BY <2>1, <2>2, <2>3 DEF OrphanInv
<1>3. CASE RecoverBegin(w)
  <2>1. /\ now' = now /\ ReservedOccurrences' = ReservedOccurrences
        /\ wk[w].pc = "acquire" /\ wk'[w].recovered = wk[w].recovered
        /\ \/ /\ LeaseFree(w) /\ lease' = Acquired(w) /\ wk'[w].pc = "recover"
              /\ wk'[w].batch = ReservedOccurrences
           \/ lease' = lease /\ wk'[w].pc = "idle"
    BY <1>0, <1>3 DEF RecoverBegin, Goto, ProcessState, ReservedOccurrences
  <2>2. AloneWith(w)
    BY <1>1, <2>1 DEF AloneWith
  <2>3. ~wk'[w].recovered
    BY <1>0, <2>1 DEF OrphanInv
  <2>4. ~Recovered(w)'
    BY <2>3 DEF Recovered
  <2>5. Recovering(w)' => /\ lease'.owner = w /\ lease'.until > now'
                          /\ ReservedOccurrences' \subseteq wk'[w].batch
    BY <1>0, <2>1, SchedulerAssumption DEF Recovering, Acquired
  <2>6. wk'[w].pc \notin {"disable", "close"}
    BY <2>1
  <2> QED  BY <2>2, <2>3, <2>4, <2>5, <2>6 DEF OrphanInv
<1>4. CASE RecoverOne(w)
  <2>1. PICK c \in wk[w].batch :
          /\ occ' = IF Unresolved(occ[c]) THEN Resolve(c, Evidence(c)) ELSE occ
          /\ wk'[w].batch = wk[w].batch \ {c}
          /\ wk'[w].pc \in {"recover", "reconcile"}
          /\ wk'[w].recovered = wk[w].recovered
    BY <1>0, <1>4 DEF RecoverOne, ProcessState
  <2>2. wk[w].pc = "recover" /\ now' = now /\ lease' = lease
    BY <1>4 DEF RecoverOne
  <2>3. Evidence(c) \notin {"reserved", "reserved_noslot"}
    BY DEF Evidence
  <2>4. ReservedOccurrences' \subseteq ReservedOccurrences \ {c}
    BY <1>0, <2>1, <2>3 DEF Resolve, ReservedOccurrences, Unresolved, ProcessState
  <2>5. AloneWith(w)
    BY <1>1, <2>2, <2>4 DEF AloneWith
  <2>6. ~wk'[w].recovered
    BY <1>0, <2>1, <2>2 DEF OrphanInv
  <2>7. /\ lease.owner = w /\ lease.until > now
        /\ ReservedOccurrences \subseteq wk[w].batch
    BY <1>0, <2>2 DEF OrphanInv, Recovering
  <2>8. ReservedOccurrences' \subseteq wk'[w].batch
    BY <2>1, <2>4, <2>7
  <2> QED  BY <2>1, <2>2, <2>5, <2>6, <2>7, <2>8 DEF OrphanInv, Recovered
<1>5. CASE Reconcile(w)
  <2>1. /\ wk[w].pc = "reconcile" /\ wk'[w].pc = "recover" /\ wk'[w].batch = wk[w].batch
        /\ wk'[w].recovered = wk[w].recovered
        /\ now' = now /\ lease' = lease /\ ReservedOccurrences' = ReservedOccurrences
    BY <1>0, <1>5 DEF Reconcile, ProcessState, ReservedOccurrences
  <2> QED  BY <1>0, <1>1, <2>1 DEF AloneWith, OrphanInv, Recovered, Recovering
<1>6. CASE RecoverDone(w)
  <2>1. /\ wk[w].pc = "recover" /\ wk'[w].pc = "idle" /\ wk[w].batch = {}
        /\ now' = now /\ lease' = lease /\ ReservedOccurrences' = ReservedOccurrences
    BY <1>0, <1>6 DEF RecoverDone, ProcessState, ReservedOccurrences, durable
  <2>2. ReservedOccurrences = {} /\ lease.owner = w /\ lease.until > now
    BY <1>0, <2>1 DEF OrphanInv, Recovering
  <2> QED  BY <1>1, <2>1, <2>2 DEF AloneWith, OrphanInv, Recovering
<1> QED  BY <1>2, <1>3, <1>4, <1>5, <1>6 DEF Startup

(* A tick claims with empty hands and puts no claim down unsettled.         *)
LEMMA OrphanLoop ==
  ASSUME TypeInv, LeaseInv, NoneAbandoned, NoOrphans, NEW w \in Worker, Loop(w)
  PROVE  AloneWith(w) /\ OrphanInv(w)'
<1>0. /\ wk \in [Worker -> ProcessState] /\ wk[w] \in ProcessState /\ OrphanInv(w)
      /\ occ \in [Claim -> Occurrence] /\ now \in Nat
      /\ wk[w].pc \in {"idle", "claim", "batch"} => wk[w].cur = NoClaim
      /\ wk[w].pc \in Executing => wk[w].cur \in Claim
      /\ NoClaim \notin Claim
  BY SchedulerAssumption DEF TypeInv, TypeOK, NoOrphans, HandsOK, HandOK, Executing
<1>1. \A v \in Worker \ {w} : wk'[v] = wk[v]
  BY LoopLocal
<1>2. ASSUME now' = now, \/ lease' = lease
                         \/ LeaseFree(w) /\ lease' = Acquired(w),
             ReservedOccurrences' \subseteq ReservedOccurrences,
             wk[w].pc \notin {"off", "dead"},
             wk'[w].recovered = wk[w].recovered,
             wk'[w].pc \notin {"off", "acquire", "recover", "reconcile"},
             InHand(w) \cap ReservedOccurrences' \subseteq InHand(w)',
             wk'[w].pc \in {"disable", "close"} => wk'[w].cur \notin ReservedOccurrences'
      PROVE  AloneWith(w) /\ OrphanInv(w)'
  <2>1. AloneWith(w)
    BY <1>1, <1>2 DEF AloneWith
  <2>2. /\ Recovered(w)' => Recovered(w)
        /\ ~Recovering(w)'
    BY <1>2 DEF Recovered, Recovering, Running
  <2> QED  BY <1>2, <2>1, <2>2, OrphanSteady
<1>3. ASSUME now' = now, lease' = lease, occ' = occ,
             wk'[w].recovered = wk[w].recovered,
             wk'[w].cur = wk[w].cur, wk'[w].batch = wk[w].batch,
             wk[w].pc \in Executing, wk'[w].pc \in Executing,
             wk'[w].pc \in {"disable", "close"} => wk[w].pc \in {"disable", "close"}
      PROVE  AloneWith(w) /\ OrphanInv(w)'
  <2>1. ReservedOccurrences' = ReservedOccurrences
    BY <1>3 DEF ReservedOccurrences
  <2>2. InHand(w)' = InHand(w)
    BY <1>3 DEF InHand, InTick, Executing
  <2>3. wk'[w].pc \in {"disable", "close"} => wk'[w].cur \notin ReservedOccurrences'
    BY <1>0, <1>3, <2>1 DEF OrphanInv
  <2> QED  BY <1>2, <1>3, <2>1, <2>2, <2>3 DEF Executing
<1> USE DEF Goto, Conclude, ProcessState
<1>4. CASE TickBegin(w)
  <2>1. /\ now' = now /\ LeaseFree(w) /\ lease' = Acquired(w) /\ occ' = occ
        /\ wk[w].pc = "idle" /\ wk'[w].pc = "claim" /\ wk'[w].recovered = wk[w].recovered
    BY <1>0, <1>4 DEF TickBegin
  <2>2. InHand(w) = {}
    BY <2>1 DEF InHand, InTick
  <2> QED  BY <1>2, <2>1, <2>2 DEF ReservedOccurrences
<1>5. CASE ClaimDue(w)
  <2>1. PICK B \in DueBatches(wk[w].tickAt) : ClaimBatch(w, B)
    BY <1>5 DEF ClaimDue
  <2> DEFINE new == {<<s, issued[s] + 1>> : s \in B \ Malformed}
  <2>2. /\ wk[w].pc = "claim" /\ wk'[w].pc = "batch" /\ wk'[w].batch = new
        /\ wk'[w].recovered = wk[w].recovered /\ now' = now /\ lease' = lease
    BY <1>0, <1>5, <2>1 DEF ClaimDue, ClaimBatch
  <2>3. \A c \in Claim \ new : occ'[c] = occ[c]
    BY <2>1 DEF ClaimBatch
  <2> HIDE DEF new
  <2>4. ReservedOccurrences' \subseteq ReservedOccurrences \cup new
    BY <2>3 DEF ReservedOccurrences
  <2>5. AloneWith(w)
    BY <1>1, <2>2 DEF AloneWith
  <2>6. Recovered(w)' => /\ Recovered(w)
                         /\ lease'.owner = w /\ lease'.until > now'
    BY <1>0, <2>2 DEF OrphanInv, Recovered, Running
  <2>7. InHand(w) = {} /\ new \subseteq InHand(w)'
    BY <2>2 DEF InHand, InTick
  <2>8. Recovered(w)' => ReservedOccurrences' \subseteq InHand(w)'
    BY <1>0, <2>4, <2>6, <2>7 DEF OrphanInv
  <2> QED  BY <2>2, <2>5, <2>6, <2>8 DEF OrphanInv, Recovering
<1>6. CASE CreateJob(w)
  <2>1. PICK c \in wk[w].batch :
          /\ wk'[w].pc = "bind" /\ wk'[w].cur = c /\ wk'[w].batch = wk[w].batch \ {c}
          /\ wk'[w].recovered = wk[w].recovered
    BY <1>0, <1>6 DEF CreateJob
  <2>2. wk[w].pc = "batch" /\ now' = now /\ lease' = lease /\ occ' = occ
    BY <1>6 DEF CreateJob
  <2>3. InHand(w) \subseteq InHand(w)'
    BY <1>0, <2>1, <2>2 DEF InHand, InTick
  <2> QED  BY <1>2, <2>1, <2>2, <2>3 DEF ReservedOccurrences
<1>7. CASE TickEnd(w)
  <2>1. /\ wk[w].pc = "batch" /\ wk[w].batch = {} /\ wk'[w].pc = "idle"
        /\ wk'[w].recovered = wk[w].recovered
        /\ now' = now /\ lease' = lease /\ occ' = occ
    BY <1>0, <1>7 DEF TickEnd, durable
  <2>2. InHand(w) = {}
    BY <1>0, <2>1 DEF InHand
  <2> QED  BY <1>2, <2>1, <2>2 DEF ReservedOccurrences
<1>8. CASE BindJob(w)
  <2>1. /\ wk[w].pc = "bind" /\ wk'[w].pc = "policy" /\ now' = now /\ lease' = lease
        /\ wk'[w].recovered = wk[w].recovered
        /\ wk'[w].cur = wk[w].cur /\ wk'[w].batch = wk[w].batch
    BY <1>0, <1>8 DEF BindJob
  <2>2. \A c \in Claim : occ'[c].status = occ[c].status
    BY <1>0, <1>8 DEF BindJob, Occurrence
  <2>3. ReservedOccurrences' = ReservedOccurrences
    BY <2>2 DEF ReservedOccurrences, Unresolved
  <2>4. InHand(w)' = InHand(w)
    BY <2>1 DEF InHand, InTick
  <2> QED  BY <1>2, <2>1, <2>3, <2>4
<1>9. CASE Policy(w) \/ Guard(w) \/ Attempt(w) \/ Propose(w)
  <2>1. /\ now' = now /\ lease' = lease /\ occ' = occ
        /\ wk'[w].recovered = wk[w].recovered
        /\ wk'[w].cur = wk[w].cur /\ wk'[w].batch = wk[w].batch
    BY <1>0, <1>9 DEF Policy, Guard, Attempt, Propose, durable
  <2>2. /\ wk[w].pc \in {"policy", "guard", "attempt", "gate"}
        /\ wk'[w].pc \in {"guard", "attempt", "gate", "tool", "release"}
    BY <1>0, <1>9 DEF Policy, Guard, Attempt, Propose
  <2> QED  BY <1>3, <2>1, <2>2 DEF Executing
<1>10. CASE RunTool(w) \/ Receipt(w)
  <2>1. /\ now' = now /\ lease' = lease /\ occ' = occ
        /\ wk'[w].recovered = wk[w].recovered
        /\ wk'[w].cur = wk[w].cur /\ wk'[w].batch = wk[w].batch
    BY <1>0, <1>10 DEF RunTool, Receipt, durable
  <2>2. /\ wk[w].pc \in {"tool", "receipt"}
        /\ wk'[w].pc \in {"receipt", "record", "release"}
    BY <1>0, <1>10 DEF RunTool, Receipt
  <2> QED  BY <1>3, <2>1, <2>2 DEF Executing
<1>11. CASE RecordExecuted(w) \/ RecordReleased(w)
  <2>1. /\ now' = now /\ lease' = lease
        /\ wk'[w].recovered = wk[w].recovered
        /\ wk'[w].cur = wk[w].cur /\ wk'[w].batch = wk[w].batch
        /\ wk[w].pc \in {"record", "release"} /\ wk'[w].pc \in {"disable", "close"}
    BY <1>0, <1>11 DEF RecordExecuted, RecordReleased
  <2>2. PICK status \in {"executed", "released"} :
          occ' = IF Unresolved(occ[wk[w].cur]) THEN Resolve(wk[w].cur, status) ELSE occ
    BY <1>11 DEF RecordExecuted, RecordReleased
  <2>3. wk[w].cur \in Claim
    BY <1>0, <2>1 DEF Executing
  <2>4. ReservedOccurrences' \subseteq ReservedOccurrences \ {wk[w].cur}
    BY <1>0, <2>2, <2>3 DEF Resolve, ReservedOccurrences, Unresolved
  <2>5. InHand(w)' = InHand(w)
    BY <2>1 DEF InHand, InTick
  <2> QED  BY <1>2, <2>1, <2>4, <2>5
<1>12. CASE DisableGrant(w)
  <2>1. /\ now' = now /\ lease' = lease /\ occ' = occ
        /\ wk'[w].recovered = wk[w].recovered
        /\ wk'[w].cur = wk[w].cur /\ wk'[w].batch = wk[w].batch
        /\ wk[w].pc = "disable" /\ wk'[w].pc = "close"
    BY <1>0, <1>12 DEF DisableGrant
  <2> QED  BY <1>3, <2>1 DEF Executing
<1>13. CASE CloseJob(w)
  <2>1. /\ now' = now /\ lease' = lease /\ occ' = occ
        /\ wk'[w].recovered = wk[w].recovered
        /\ wk'[w].batch = wk[w].batch
        /\ wk[w].pc = "close" /\ wk'[w].pc = "batch"
    BY <1>0, <1>13 DEF CloseJob
  <2>2. ReservedOccurrences' = ReservedOccurrences
    BY <2>1 DEF ReservedOccurrences
  <2>3. wk[w].cur \notin ReservedOccurrences
    BY <1>0, <2>1 DEF OrphanInv
  <2>4. InHand(w) \cap ReservedOccurrences \subseteq InHand(w)'
    BY <1>0, <2>1, <2>3 DEF InHand, InTick
  <2> QED  BY <1>2, <2>1, <2>2, <2>4
<1> QED
  BY <1>4, <1>5, <1>6, <1>7, <1>8, <1>9, <1>10, <1>11, <1>12, <1>13 DEF Loop

(* Crashes and stops end a process; the rest does not concern its claims.   *)
LEMMA OrphanOther ==
  ASSUME NoDroppedClaims, TypeInv, LeaseInv, NoneAbandoned, NoOrphans, NEW w \in Worker,
         \/ Failure(w) \/ Stopping(w) \/ Heartbeat(w) \/ OpenJobStore(w)
         \/ \E x \in Sched \cup {Layer} : SetBrake(w, x)
  PROVE  AloneWith(w) /\ OrphanInv(w)'
<1>0. /\ wk \in [Worker -> ProcessState] /\ wk[w] \in ProcessState /\ OrphanInv(w)
      /\ now \in Nat
  BY DEF TypeInv, TypeOK, NoOrphans
<1>1. /\ now' = now /\ ReservedOccurrences' = ReservedOccurrences
      /\ \A v \in Worker \ {w} : wk'[v] = wk[v]
      /\ \/ lease' = lease
         \/ LeaseFree(w) /\ lease' = Acquired(w)
         \/ lease' = Released(w)
  <2>1. now' = now /\ occ' = occ
    BY DEF Failure, Crash, StoreErrorAborts, StoreErrorAfterRun, Stopping, StopRequest,
           StopJoined, StopTimeout, ThreadEnds, Heartbeat, OpenJobStore, SetBrake, durable
  <2>2. \A v \in Worker \ {w} : wk'[v] = wk[v]
    BY <1>0, FailureLocal, StoppingLocal DEF Heartbeat, OpenJobStore, SetBrake
  <2>3. \/ lease' = lease
        \/ LeaseFree(w) /\ lease' = Acquired(w)
        \/ lease' = Released(w)
    BY DEF Failure, Crash, StoreErrorAborts, StoreErrorAfterRun, Stopping, StopRequest,
           StopJoined, StopTimeout, ThreadEnds, Heartbeat, OpenJobStore, SetBrake, durable
  <2> QED  BY <2>1, <2>2, <2>3 DEF ReservedOccurrences
<1>2. AloneWith(w)
  BY <1>1 DEF AloneWith
<1>3. CASE Crash(w) \/ StopJoined(w) \/ ThreadEnds(w)
  <2>1. wk'[w] = Process("dead")
    BY <1>0, <1>3 DEF Crash, StopJoined, ThreadEnds
  <2>2. wk'[w].pc = "dead" /\ ~wk'[w].recovered
    BY <2>1 DEF Process
  <2> QED  BY <1>2, <2>2 DEF OrphanInv, Recovered, Running, Recovering
<1>4. CASE \/ StopRequest(w) \/ Heartbeat(w) \/ OpenJobStore(w)
           \/ \E x \in Sched \cup {Layer} : SetBrake(w, x)
  <2>1. /\ wk'[w].pc = wk[w].pc /\ wk'[w].cur = wk[w].cur
        /\ wk'[w].batch = wk[w].batch /\ wk'[w].recovered = wk[w].recovered
    BY <1>0, <1>4 DEF StopRequest, Heartbeat, OpenJobStore, SetBrake, ProcessState
  <2>2. lease' = lease \/ lease' = Acquired(w)
    BY <1>4 DEF StopRequest, Heartbeat, OpenJobStore, SetBrake, durable
  <2>3. /\ Recovered(w)' = Recovered(w) /\ Recovering(w)' = Recovering(w)
        /\ InHand(w)' = InHand(w)
    BY <2>1 DEF Recovered, Recovering, Running, InHand, InTick
  <2>4. /\ wk'[w].pc \in {"off", "acquire", "recover", "reconcile"} => ~wk'[w].recovered
        /\ wk'[w].pc \in {"disable", "close"} => wk'[w].cur \notin ReservedOccurrences'
    BY <1>0, <1>1, <2>1 DEF OrphanInv
  <2>5. OrphanInv(w)'
    BY <1>1, <2>1, <2>2, <2>3, <2>4, OrphanSteady
  <2> QED  BY <1>2, <2>5
<1>5. ~StoreErrorAborts(w) /\ ~StoreErrorAfterRun(w) /\ ~StopTimeout(w)
  BY DEF NoDroppedClaims, StoreErrorAborts, StoreErrorAfterRun, StopTimeout
<1> QED  BY <1>3, <1>4, <1>5 DEF Failure, Stopping

(* The clock waits for the heartbeat of whoever recovered, too.             *)
LEMMA OrphanTick ==
  ASSUME NoDroppedClaims, TypeInv, NoneAbandoned, NoOrphans, Tick
  PROVE  NoOrphans'
<1>1. now \in Nat /\ wk' = wk /\ lease' = lease /\ now' = now + 1 /\ occ' = occ
  BY DEF Tick, TypeInv, TypeOK, durable
<1>2. Timely(now + 1)
  BY DEF Tick, NoDroppedClaims
<1>3. ASSUME NEW w \in Worker PROVE OrphanInv(w)'
  <2>1. /\ Recovered(w)' = Recovered(w) /\ Recovering(w)' = Recovering(w)
        /\ InHand(w)' = InHand(w) /\ ReservedOccurrences' = ReservedOccurrences
    BY <1>1 DEF Recovered, Recovering, Running, InHand, InTick, ReservedOccurrences
  <2>2. OrphanInv(w)
    BY DEF NoOrphans
  <2>3. Recovered(w) \/ Recovering(w) => lease'.owner = w /\ lease'.until > now'
    <3>1. Recovered(w) \/ Recovering(w) => Running(w)
      BY DEF Recovered, Recovering, Running
    <3> QED  BY <1>1, <1>2, <2>2, <3>1 DEF Timely, NoneAbandoned, OrphanInv
  <2> QED  BY <1>1, <2>1, <2>2, <2>3 DEF OrphanInv
<1> QED  BY <1>3 DEF NoOrphans

(* Every step keeps what is unresolved in somebody's hands.                 *)
LEMMA OrphanStep ==
  ASSUME NoDroppedClaims
  PROVE  TypeInv /\ LeaseInv /\ NoneAbandoned /\ NoOrphans /\ [Next]_vars => NoOrphans'
<1> SUFFICES ASSUME TypeInv, LeaseInv, NoneAbandoned, NoOrphans, [Next]_vars
             PROVE  NoOrphans'
  OBVIOUS
<1>1. ASSUME NEW w \in Worker, AloneWith(w), OrphanInv(w)'
      PROVE  NoOrphans'
  BY <1>1, OrphanOthers DEF NoOrphans
<1>2. ASSUME NEW w \in Worker,
             \/ Startup(w) \/ Loop(w) \/ Heartbeat(w) \/ Failure(w) \/ Stopping(w)
             \/ OpenJobStore(w)
             \/ \E x \in Sched \cup {Layer} : SetBrake(w, x)
      PROVE  NoOrphans'
  BY <1>1, <1>2, OrphanStartup, OrphanLoop, OrphanOther
<1>3. ASSUME wk' = wk, lease' = lease, now' = now, occ' = occ
      PROVE  NoOrphans'
  BY <1>3 DEF NoOrphans, OrphanInv, Recovered, Recovering, Running, InHand, InTick,
              ReservedOccurrences
<1>4. (\E s \in Sched : Operator(s)) \/ UNCHANGED vars
        => wk' = wk /\ lease' = lease /\ now' = now /\ occ' = occ
  BY DEF Operator, Create, PauseGrant, ResumeGrant, RenewGrant, DeleteGrant, Edit, vars,
         durable
<1> QED  BY <1>2, <1>3, <1>4, OrphanTick DEF Next

(* Once a start has recovered under the lease, nothing unresolved is        *)
(* outside its hands, whatever crashed before: as long as heartbeats are in *)
(* time, no stop times out and the schedule store does not fail.            *)
THEOREM RecoveryIsComplete ==
  ASSUME NoDroppedClaims
  PROVE  Spec => []RecoveryLeavesNoOrphans
<1> DEFINE Inv == TypeInv /\ LeaseInv /\ NoneAbandoned /\ NoOrphans
<1>1. Init => Inv
  <2>1. Init => NoneAbandoned /\ NoOrphans
    BY DEF Init, NoneAbandoned, NoOrphans, OrphanInv, Process, Recovered, Recovering,
           Running
  <2> QED  BY <2>1, TypeInit, LeaseInit
<1>2. Inv /\ [Next]_vars => Inv'
  <2>1. "stall" \notin Faults /\ "stop_timeout" \notin Faults
    BY DEF NoDroppedClaims
  <2> QED  BY <2>1, TypeStep, LeaseStep, NoneAbandonedStep, OrphanStep
<1>3. Inv => RecoveryLeavesNoOrphans
  BY DEF NoOrphans, OrphanInv, Recovered, RecoveryLeavesNoOrphans, ReservedOccurrences
<1> QED  BY <1>1, <1>2, <1>3, PTL DEF Spec

=============================================================================
