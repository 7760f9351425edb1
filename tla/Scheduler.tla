----------------------------- MODULE Scheduler -----------------------------
(***************************************************************************)
(* The scheduled-task subsystem of the worker: the schedule store, the job  *)
(* store and the audit log on disk; any number of worker processes, each    *)
(* running SchedulerService's startup, tick loop and lease heartbeat over   *)
(* one SchedulerRunner; the operator's schedule administration; and the     *)
(* crashes, stops and store failures between any two steps.                 *)
(*                                                                          *)
(* A process is one element of Worker: it starts once, under an owner id    *)
(* never used before, and a restart is another element.  One action is one  *)
(* database transaction, one audit row or one decision on data read         *)
(* earlier, so that every window the code leaves open is a state here.      *)
(***************************************************************************)
EXTENDS ScheduleStore

CONSTANTS
  Worker,     \* worker processes, in no particular order of starting
  NoWorker,   \* nobody holds the lease
  NoClaim,    \* no claim in hand
  Layer,      \* the whole tool layer, as one more thing the brake can hold
  Legacy,     \* schedules already on disk when the story begins
  LeaseTTL,   \* lease_ttl_seconds
  Limit,      \* run_once's batch limit
  Admin,      \* which operator requests a run explores
  Faults,     \* which failures a run explores
  MaxNow,     \* bound: the clock
  CrashUntil, \* bound: no process crashes or outlives its stop later than this
  MaxRev      \* bound: operator changes per schedule

ASSUME SchedulerAssumption ==
  /\ NoWorker \notin Worker
  /\ NoClaim \notin Claim
  /\ Layer \notin Sched
  /\ Legacy \subseteq Sched
  /\ LeaseTTL \in Nat \ {0}
  /\ Limit \in Nat \ {0}
  /\ MaxNow \in Nat
  /\ CrashUntil \in Nat
  /\ MaxRev \in Nat

VARIABLES
  now,        \* the wall clock
  sch,        \* schedules table
  issued,     \* claim ids issued per schedule
  occ,        \* occurrences table
  lease,      \* runner_lease row
  job,        \* jobs table: the status of each claim's job
  attempted,  \* audit rows outcome='attempt'
  receipts,   \* audit rows outcome='executed'
  brake,      \* tool state file: what is switched off
  snap,       \* the ScheduleClaim objects handed to the runners
  wk,         \* the worker processes
  runs,       \* history: how often each claim's tool really ran
  base,       \* history: claims issued before the grant was last renewed
  noted,      \* history: the revision a claim's unknown outcome left its row at
  origin      \* history: where a schedule's instants count from (Restarted)

durable == <<sch, issued, occ, lease, job, attempted, receipts, brake>>
vars == <<now, durable, snap, wk, runs, base, noted, origin>>

-----------------------------------------------------------------------------
JobStatus == {"none", "running", "completed", "failed", "cancelled", "interrupted"}

Phase == {"up", "draining", "abandoned"}

ProcessState ==
  [pc : {"off", "acquire", "recover", "reconcile", "idle", "claim", "batch",
         "bind", "policy", "guard", "attempt", "gate", "tool", "receipt",
         "record", "release", "disable", "close", "dead"},
   phase : Phase,            \* "draining": stop() called; "abandoned": it timed out
   batch : SUBSET Claim,     \* claims (or rows to recover) not begun yet
   cur : Claim \cup {NoClaim},
   tickAt : Nat,
   off : SUBSET (Sched \cup {Layer}),
   outcome : {"none", "completed", "failed", "cancelled", "permanent"},
   recovered : BOOLEAN,      \* startup recovery ran under the lease
   lazy : BOOLEAN]           \* tools._get_jobstore() already opened its store

Process(pc) ==
  [pc |-> pc, phase |-> "up", batch |-> {}, cur |-> NoClaim, tickAt |-> 0,
   off |-> {}, outcome |-> "none", recovered |-> FALSE, lazy |-> FALSE]

TypeOK ==
  /\ now \in Nat
  /\ sch \in [Sched -> Row]
  /\ issued \in [Sched -> Nat]
  /\ occ \in [Claim -> Occurrence]
  /\ lease \in [owner : Worker \cup {NoWorker}, until : Nat]
  /\ job \in [Claim -> JobStatus]
  /\ attempted \in SUBSET Claim
  /\ receipts \in SUBSET Claim
  /\ brake \in SUBSET (Sched \cup {Layer})
  /\ snap \in [Claim -> Snapshot]
  /\ wk \in [Worker -> ProcessState]
  /\ runs \in [Claim -> Nat]
  /\ base \in [Sched -> Nat]
  /\ noted \in [Claim -> Nat]
  /\ origin \in [Sched -> Int]

Init ==
  /\ now = 0
  /\ \E max \in [Legacy -> Budgets] :
       sch = [s \in Sched |-> IF s \in Legacy THEN NewGrant(s, 0, max[s])
                                             ELSE NoRow("absent")]
  /\ issued = [s \in Sched |-> 0]
  /\ occ = [c \in Claim |-> NoOccurrence]
  /\ lease = [owner |-> NoWorker, until |-> 0]
  /\ job = [c \in Claim |-> "none"]
  /\ attempted = {}
  /\ receipts = {}
  /\ brake = {}
  /\ snap = [c \in Claim |-> NoSnapshot]
  /\ wk = [w \in Worker |-> Process("off")]
  /\ runs = [c \in Claim |-> 0]
  /\ base = [s \in Sched |-> 0]
  /\ noted = [c \in Claim |-> 0]
  /\ origin = [s \in Sched |-> NextRun(0)]

-----------------------------------------------------------------------------
(* Helpers.                                                                 *)

Running(w) == wk[w].pc \notin {"off", "dead"}

Goto(w, pc) == wk' = [wk EXCEPT ![w].pc = pc]

Conclude(w, pc, outcome) == wk' = [wk EXCEPT ![w].pc = pc, ![w].outcome = outcome]

(* Mutants of acquire_lease: no exclusion; one unit too early; a dead       *)
(* owner's lease never passes on.                                           *)
LeaseIgnored(w) == TRUE

LeaseFreeEarly(w) == lease.owner \in {w, NoWorker} \/ lease.until <= now + 1

LeaseNeverExpires(w) == lease.owner \in {w, NoWorker}

(* acquire_lease: granted when free, expired or already one's own.          *)
LeaseFree(w) == lease.owner \in {w, NoWorker} \/ lease.until <= now

Acquired(w) == [owner |-> w, until |-> now + LeaseTTL]

Released(w) == IF lease.owner = w THEN [owner |-> NoWorker, until |-> 0] ELSE lease

(* Mutant: the update does not ask whether the job is terminal.             *)
JobOverwritten(c, status) == [job EXCEPT ![c] = status]

(* JobStore.update: a terminal job is immutable.                            *)
JobUpdated(c, status) == IF job[c] = "running" THEN [job EXCEPT ![c] = status] ELSE job

(* JobStore.__init__: whatever is not terminal is marked interrupted.       *)
JobsOpened == [c \in Claim |-> IF job[c] = "running" THEN "interrupted" ELSE job[c]]

(* Mutant: every unresolved row refunds, slot or none.                      *)
RefundAny(c) ==
  IF Unresolved(occ[c]) THEN [sch EXCEPT ![c[1]] = Refunded(@)] ELSE sch

(* A refund is due only while the row is still 'reserved'.                  *)
Refund(c) ==
  IF occ[c].status = "reserved"
    THEN [sch EXCEPT ![c[1]] = Refunded(@)]
    ELSE sch

Resolve(c, status) == [occ EXCEPT ![c].status = status]

-----------------------------------------------------------------------------
(* Time.  The heartbeat renews at a third of the TTL, a drain is given five *)
(* seconds of ninety, and startup recovery is a few row updates: so the     *)
(* lease of a process that is alive and not given up on does not expire,    *)
(* unless "stall" is explored.                                              *)

Timely(t) ==
  \A w \in Worker :
    Running(w) /\ wk[w].phase # "abandoned" /\ lease.owner = w => lease.until > t

Tick ==
  /\ now < MaxNow
  /\ "stall" \in Faults \/ Timely(now + 1)
  /\ now' = now + 1
  /\ UNCHANGED <<durable, snap, wk, runs, base, noted, origin>>

Heartbeat(w) ==
  /\ Running(w) /\ wk[w].phase = "up"
  /\ wk[w].pc \notin {"acquire", "recover", "reconcile"}
  /\ LeaseFree(w)
  /\ lease' = Acquired(w)
  /\ UNCHANGED <<now, sch, issued, occ, job, attempted, receipts, brake, snap,
                 wk, runs, base, noted, origin>>

-----------------------------------------------------------------------------
(* Startup: SchedulerRuntime.start and SchedulerService.start.              *)

(* Open the stores and disable what may no longer run unattended.           *)
Start(w) ==
  /\ wk[w].pc = "off"
  /\ wk' = [wk EXCEPT ![w] = [Process("acquire") EXCEPT !.off = brake]]
  /\ job' = JobsOpened
  /\ sch' = [s \in Sched |-> IF s \in Schedulable THEN sch[s] ELSE Paused(sch[s])]
  /\ UNCHANGED <<now, issued, occ, lease, attempted, receipts, brake, snap,
                 runs, base, noted, origin>>

(* Mutant: recovery finds its work through the jobs.                        *)
BoundOccurrences == {c \in Claim : Unresolved(occ[c]) /\ occ[c].job}

ReservedOccurrences == {c \in Claim : Unresolved(occ[c])}

(* recover_interrupted needs the lease, and reads its work list once.       *)
RecoverBegin(w) ==
  /\ wk[w].pc = "acquire"
  /\ IF LeaseFree(w)
       THEN /\ lease' = Acquired(w)
            /\ wk' = [wk EXCEPT ![w].pc = "recover",
                                ![w].batch = ReservedOccurrences]
       ELSE /\ Goto(w, "idle")
            /\ UNCHANGED lease
  /\ UNCHANGED <<now, sch, issued, occ, job, attempted, receipts, brake, snap,
                 runs, base, noted, origin>>

(* Mutants: recovery from before the attempt marker; recovery without the   *)
(* audit at all.                                                            *)
EvidenceOfReceipt(c) == IF c \in receipts THEN "executed" ELSE "abandoned"

NoEvidence(c) == "abandoned"

(* What the evidence says of an interrupted claim.                          *)
Evidence(c) ==
  IF c \in receipts THEN "executed"
  ELSE IF c \in attempted /\ ~(sch[c[1]].row = "live" /\ c[1] \in Read) THEN "unknown"
  ELSE "abandoned"

RecoverOne(w) ==
  /\ wk[w].pc = "recover"
  /\ \E c \in wk[w].batch :
       /\ wk' = [wk EXCEPT
            ![w].batch = @ \ {c},
            ![w].cur = IF Unresolved(occ[c]) /\ occ[c].job THEN c ELSE NoClaim,
            ![w].pc = IF Unresolved(occ[c]) /\ occ[c].job THEN "reconcile" ELSE @,
            ![w].outcome = IF Unresolved(occ[c]) /\ occ[c].job
                             THEN IF Evidence(c) = "executed" THEN "completed" ELSE "failed"
                             ELSE @]
       /\ IF Unresolved(occ[c])
            THEN /\ occ' = Resolve(c, Evidence(c))
                 /\ sch' = CASE Evidence(c) = "abandoned" -> Refund(c)
                             [] Evidence(c) = "unknown" ->
                                  [sch EXCEPT ![c[1]] = PausedUnknown(@)]
                             [] OTHER -> sch
                 /\ noted' = IF Evidence(c) = "unknown"
                               THEN [noted EXCEPT ![c] = sch'[c[1]].rev] ELSE noted
            ELSE UNCHANGED <<occ, sch, noted>>
  /\ UNCHANGED <<now, issued, lease, job, attempted, receipts, brake, snap,
                 runs, base, origin>>

Reconcile(w) ==
  /\ wk[w].pc = "reconcile"
  /\ job' = JobUpdated(wk[w].cur, wk[w].outcome)
  /\ wk' = [wk EXCEPT ![w].pc = "recover", ![w].cur = NoClaim, ![w].outcome = "none"]
  /\ UNCHANGED <<now, sch, issued, occ, lease, attempted, receipts, brake, snap,
                 runs, base, noted, origin>>

RecoverDone(w) ==
  /\ wk[w].pc = "recover" /\ wk[w].batch = {}
  /\ wk' = [wk EXCEPT ![w].pc = "idle", ![w].recovered = TRUE]
  /\ UNCHANGED <<now, durable, snap, runs, base, noted, origin>>

-----------------------------------------------------------------------------
(* One tick: SchedulerRunner.run_once.                                      *)

(* The kill switch pauses before anything is claimed; no lease, no claim.   *)
TickBegin(w) ==
  /\ wk[w].pc = "idle" /\ wk[w].phase = "up"
  /\ Layer \notin wk[w].off
  /\ LeaseFree(w)
  /\ lease' = Acquired(w)
  /\ wk' = [wk EXCEPT ![w].pc = "claim", ![w].tickAt = now]
  /\ UNCHANGED <<now, sch, issued, occ, job, attempted, receipts, brake, snap,
                 runs, base, noted, origin>>

(* The due schedules a claimer takes: the Limit earliest.                   *)
DueBatches(t) ==
  LET Due == {s \in Sched : sch[s].enabled /\ sch[s].due <= t /\ issued[s] < MaxClaims}
  IN  {B \in SUBSET Due :
         /\ Cardinality(B) = IF Cardinality(Due) < Limit THEN Cardinality(Due) ELSE Limit
         /\ \A s \in B, u \in Due \ B : sch[s].due <= sch[u].due}

ClaimBatch(w, B) ==
  LET t == wk[w].tickAt
      good == B \ Malformed
      new == {<<s, issued[s] + 1>> : s \in good}
  IN  /\ sch' = [s \in Sched |->
                   IF s \in good THEN Taken(sch[s], t)
                   ELSE IF s \in B THEN [sch[s] EXCEPT !.enabled = FALSE]
                   ELSE sch[s]]
      /\ issued' = [s \in Sched |-> IF s \in good THEN issued[s] + 1 ELSE issued[s]]
      /\ occ' = [c \in Claim |->
                   IF c \in new
                     THEN [status |-> IF HasBudget(sch[c[1]]) THEN "reserved"
                                                              ELSE "reserved_noslot",
                           job |-> FALSE]
                     ELSE occ[c]]
      /\ snap' = [c \in Claim |->
                    IF c \in new THEN TakenSnapshot(sch[c[1]], t) ELSE snap[c]]
      /\ wk' = [wk EXCEPT ![w].pc = "batch", ![w].batch = new]

(* claim_due: one immediate transaction for the whole batch.                *)
ClaimDue(w) ==
  /\ wk[w].pc = "claim"
  /\ \E B \in DueBatches(wk[w].tickAt) : ClaimBatch(w, B)
  /\ UNCHANGED <<now, lease, job, attempted, receipts, brake, runs, base, noted,
                 origin>>

(* Mutant: a claim stays on the list it is executed from.                   *)
CreateJobKeepsClaim(w) ==
  /\ wk[w].pc = "batch"
  /\ \E c \in wk[w].batch :
       /\ job' = [job EXCEPT ![c] = "running"]
       /\ wk' = [wk EXCEPT ![w].pc = "bind", ![w].cur = c]
  /\ UNCHANGED <<now, sch, issued, occ, lease, attempted, receipts, brake, snap,
                 runs, base, noted, origin>>

(* Claims are executed one at a time, earliest due first.                   *)
CreateJob(w) ==
  /\ wk[w].pc = "batch"
  /\ \E c \in wk[w].batch :
       /\ \A d \in wk[w].batch : snap[c].due <= snap[d].due
       /\ job' = [job EXCEPT ![c] = "running"]
       /\ wk' = [wk EXCEPT ![w].pc = "bind", ![w].cur = c, ![w].batch = @ \ {c}]
  /\ UNCHANGED <<now, sch, issued, occ, lease, attempted, receipts, brake, snap,
                 runs, base, noted, origin>>

TickEnd(w) ==
  /\ wk[w].pc = "batch" /\ wk[w].batch = {}
  /\ wk' = [wk EXCEPT ![w].pc = "idle", ![w].tickAt = 0]
  /\ UNCHANGED <<now, durable, snap, runs, base, noted, origin>>

BindJob(w) ==
  LET c == wk[w].cur IN
  /\ wk[w].pc = "bind"
  /\ occ' = IF Unresolved(occ[c]) THEN [occ EXCEPT ![c].job = TRUE] ELSE occ
  /\ Goto(w, "policy")
  /\ UNCHANGED <<now, sch, issued, lease, job, attempted, receipts, brake, snap,
                 runs, base, noted, origin>>

(* refusal() over the snapshot and the live kill switch.                    *)
Policy(w) ==
  LET c == wk[w].cur
      s == c[1]
  IN  /\ wk[w].pc = "policy"
      /\ IF Refused(s, snap[c], Layer \notin wk[w].off, s \notin wk[w].off)
           THEN Conclude(w, "release",
                         IF Permanent(s, snap[c]) THEN "permanent" ELSE "cancelled")
           ELSE Goto(w, "guard")
      /\ UNCHANGED <<now, durable, snap, runs, base, noted, origin>>

(* current_guard(): is the grant still the one the claim was taken under?   *)
GrantUnchanged(c) ==
  /\ sch[c[1]].row = "live"
  /\ sch[c[1]].enabled
  /\ sch[c[1]].rev = snap[c].rev
  /\ sch[c[1]].approved = snap[c].approved

Guard(w) ==
  /\ wk[w].pc = "guard"
  /\ IF GrantUnchanged(wk[w].cur)
       THEN Goto(w, "attempt")
       ELSE Conclude(w, "release", "cancelled")
  /\ UNCHANGED <<now, durable, snap, runs, base, noted, origin>>

Attempt(w) ==
  /\ wk[w].pc = "attempt"
  /\ attempted' = attempted \cup {wk[w].cur}
  /\ Goto(w, "gate")
  /\ UNCHANGED <<now, sch, issued, occ, lease, job, receipts, brake, snap, runs,
                 base, noted, origin>>

(* ToolGate.propose: the gate re-reads its own switch, and refuses a        *)
(* pre-approved write the registry does not allow unattended.               *)
Propose(w) ==
  LET s == wk[w].cur[1] IN
  /\ wk[w].pc = "gate"
  /\ IF \/ wk[w].off \cap {Layer, s} # {}
        \/ s \in Write \ Schedulable
       THEN Conclude(w, "release", "cancelled")
       ELSE Goto(w, "tool")
  /\ UNCHANGED <<now, durable, snap, runs, base, noted, origin>>

(* Mutant: what the tool raises ends the job and leaves the claim.          *)
RunToolUnsettled(w) ==
  /\ wk[w].pc = "tool"
  /\ \/ /\ runs' = [runs EXCEPT ![wk[w].cur] = @ + 1]
        /\ Goto(w, "receipt")
     \/ /\ \E o \in {"cancelled", "failed"} : Conclude(w, "close", o)
        /\ UNCHANGED runs
  /\ UNCHANGED <<now, durable, snap, base, noted, origin>>

(* ToolGate._execute: the tool runs, or raises having done nothing; under   *)
(* "late_error" it may raise with its effect already made.                  *)
RunTool(w) ==
  LET c == wk[w].cur IN
  /\ wk[w].pc = "tool"
  /\ \/ /\ runs' = [runs EXCEPT ![c] = @ + 1]
        /\ Goto(w, "receipt")
     \/ /\ \E o \in {"cancelled", "failed"} : Conclude(w, "release", o)
        /\ UNCHANGED runs
     \/ /\ "late_error" \in Faults
        /\ runs' = [runs EXCEPT ![c] = @ + 1]
        /\ Conclude(w, "release", "failed")
  /\ UNCHANGED <<now, durable, snap, base, noted, origin>>

(* The 'executed' audit row; under "audit_error" writing it raises, and the *)
(* runner sees an exception like any other.                                 *)
Receipt(w) ==
  /\ wk[w].pc = "receipt"
  /\ \/ /\ receipts' = receipts \cup {wk[w].cur}
        /\ Goto(w, "record")
     \/ /\ "audit_error" \in Faults
        /\ Conclude(w, "release", "failed")
        /\ UNCHANGED receipts
  /\ UNCHANGED <<now, sch, issued, occ, lease, job, attempted, brake, snap, runs,
                 base, noted, origin>>

(* record_claim_result(ran=True).                                           *)
RecordExecuted(w) ==
  LET c == wk[w].cur IN
  /\ wk[w].pc = "record"
  /\ occ' = IF Unresolved(occ[c]) THEN Resolve(c, "executed") ELSE occ
  /\ Conclude(w, "close", "completed")
  /\ UNCHANGED <<now, sch, issued, lease, job, attempted, receipts, brake, snap,
                 runs, base, noted, origin>>

(* record_claim_result(ran=False): the slot goes back, once.                *)
RecordReleased(w) ==
  LET c == wk[w].cur IN
  /\ wk[w].pc = "release"
  /\ occ' = IF Unresolved(occ[c]) THEN Resolve(c, "released") ELSE occ
  /\ sch' = Refund(c)
  /\ Goto(w, IF wk[w].outcome = "permanent" THEN "disable" ELSE "close")
  /\ UNCHANGED <<now, issued, lease, job, attempted, receipts, brake, snap, runs,
                 base, noted, origin>>

DisableGrant(w) ==
  /\ wk[w].pc = "disable"
  /\ sch' = [sch EXCEPT ![wk[w].cur[1]] = Paused(@)]
  /\ Conclude(w, "close", "failed")
  /\ UNCHANGED <<now, issued, occ, lease, job, attempted, receipts, brake, snap,
                 runs, base, noted, origin>>

CloseJob(w) ==
  /\ wk[w].pc = "close"
  /\ job' = JobUpdated(wk[w].cur, wk[w].outcome)
  /\ wk' = [wk EXCEPT ![w].pc = "batch", ![w].cur = NoClaim, ![w].outcome = "none"]
  /\ UNCHANGED <<now, sch, issued, occ, lease, attempted, receipts, brake, snap,
                 runs, base, noted, origin>>

-----------------------------------------------------------------------------
(* Failures.                                                                *)

(* The process dies: everything it held in memory is gone.                  *)
Crash(w) ==
  /\ "crash" \in Faults /\ now <= CrashUntil
  /\ Running(w)
  /\ wk' = [wk EXCEPT ![w] = Process("dead")]
  /\ UNCHANGED <<now, durable, snap, runs, base, noted, origin>>

(* A store raises.  During startup the runtime gives up and cleans up; in a *)
(* tick the exception leaves run_once and drops the rest of the batch.      *)
StoreErrorAborts(w) ==
  /\ "store_error" \in Faults
  /\ \/ /\ wk[w].pc \in {"acquire", "recover"}
        /\ wk' = [wk EXCEPT ![w] = Process("dead")]
        /\ lease' = Released(w)
     \/ /\ \/ wk[w].pc \in {"claim", "batch", "bind", "guard", "attempt", "release", "disable"}
           \/ wk[w].pc = "close" /\ wk[w].outcome # "completed"
        /\ wk' = [wk EXCEPT ![w].pc = "idle", ![w].batch = {}, ![w].cur = NoClaim,
                            ![w].tickAt = 0, ![w].outcome = "none"]
        /\ UNCHANGED lease
  /\ UNCHANGED <<now, sch, issued, occ, job, attempted, receipts, brake, snap,
                 runs, base, noted, origin>>

(* Mutant: a bookkeeping failure after the run reads as a failed run.       *)
StoreErrorReadsAsFailure(w) ==
  /\ "store_error" \in Faults
  /\ wk[w].pc = "record"
  /\ Conclude(w, "release", "failed")
  /\ UNCHANGED <<now, durable, snap, runs, base, noted, origin>>

(* After the tool ran, bookkeeping failures are swallowed: _finish_executed *)
(* switches the grant off if it can, and a JobStore failure is ignored.     *)
StoreErrorAfterRun(w) ==
  /\ "store_error" \in Faults
  /\ \/ /\ wk[w].pc = "record"
        /\ sch' \in {sch, [sch EXCEPT ![wk[w].cur[1]] = Paused(@)]}
        /\ Conclude(w, "close", "completed")
     \/ /\ wk[w].pc = "close" /\ wk[w].outcome = "completed"
        /\ wk' = [wk EXCEPT ![w].pc = "batch", ![w].cur = NoClaim, ![w].outcome = "none"]
        /\ UNCHANGED sch
  /\ UNCHANGED <<now, issued, occ, lease, job, attempted, receipts, brake, snap,
                 runs, base, noted, origin>>

-----------------------------------------------------------------------------
(* Stopping: SchedulerService.stop drains first, releases the lease after.  *)

StopRequest(w) ==
  /\ "stop" \in Admin
  /\ Running(w) /\ wk[w].phase = "up"
  /\ wk[w].pc \notin {"acquire", "recover", "reconcile"}
  /\ wk' = [wk EXCEPT ![w].phase = "draining"]
  /\ UNCHANGED <<now, durable, snap, runs, base, noted, origin>>

StopJoined(w) ==
  /\ wk[w].phase = "draining" /\ wk[w].pc = "idle"
  /\ wk' = [wk EXCEPT ![w] = Process("dead")]
  /\ lease' = Released(w)
  /\ UNCHANGED <<now, sch, issued, occ, job, attempted, receipts, brake, snap,
                 runs, base, noted, origin>>

(* The join times out: the heartbeat has stopped, the lease is kept.        *)
StopTimeout(w) ==
  /\ "stop_timeout" \in Faults /\ now <= CrashUntil
  /\ wk[w].phase = "draining" /\ wk[w].pc # "idle"
  /\ wk' = [wk EXCEPT ![w].phase = "abandoned"]
  /\ UNCHANGED <<now, durable, snap, runs, base, noted, origin>>

ThreadEnds(w) ==
  /\ wk[w].phase = "abandoned" /\ wk[w].pc = "idle"
  /\ wk' = [wk EXCEPT ![w] = Process("dead")]
  /\ UNCHANGED <<now, durable, snap, runs, base, noted, origin>>

-----------------------------------------------------------------------------
(* The operator, through ScheduleAdmin and ToolGate.                        *)

Edit(s, row) ==
  /\ sch' = [sch EXCEPT ![s] = row]
  /\ UNCHANGED <<now, issued, occ, lease, job, attempted, receipts, brake, snap,
                 wk, runs, noted>>

(* due, less what has been claimed or missed before: the origin an operator *)
(* gives a schedule's instants by switching it on now.                      *)
Restarted(s) == NextRun(now) - Period * (issued[s] + sch[s].missed)

Create(s) ==
  /\ "create" \in Admin
  /\ sch[s].row = "absent" /\ s \in Schedulable \ Malformed
  /\ \E max \in Budgets : Edit(s, NewGrant(s, now, max))
  /\ origin' = [origin EXCEPT ![s] = NextRun(now)]
  /\ UNCHANGED base

PauseGrant(s) ==
  /\ "pause" \in Admin
  /\ sch[s].enabled /\ sch[s].rev < MaxRev
  /\ Edit(s, Paused(sch[s]))
  /\ UNCHANGED <<base, origin>>

ResumeGrant(s) ==
  /\ "resume" \in Admin
  /\ sch[s].row = "live" /\ ~sch[s].enabled /\ sch[s].rev < MaxRev
  /\ ~BlockedReason(s, sch[s], now) /\ s \notin Malformed
  /\ Edit(s, Resumed(sch[s], now))
  /\ origin' = [origin EXCEPT ![s] = Restarted(s)]
  /\ UNCHANGED base

RenewGrant(s) ==
  /\ "renew" \in Admin
  /\ sch[s].row = "live" /\ sch[s].rev < MaxRev
  /\ s \in Schedulable \ Malformed
  /\ \E max \in Budgets, enable \in {"keep", "on", "off"} :
       /\ Edit(s, Renewed(s, sch[s], now, max, enable))
       /\ origin' = [origin EXCEPT ![s] = IF enable = "on" THEN Restarted(s) ELSE @]
  /\ base' = [base EXCEPT ![s] = issued[s]]

DeleteGrant(s) ==
  /\ "delete" \in Admin
  /\ sch[s].row = "live"
  /\ Edit(s, NoRow("deleted"))
  /\ UNCHANGED <<base, origin>>

(* The kill switch, for the layer or one tool, saved to the state file.     *)
SetBrake(w, x) ==
  /\ "brake" \in Admin
  /\ Running(w)
  /\ \E off \in {wk[w].off \cup {x}, wk[w].off \ {x}} :
       /\ wk' = [wk EXCEPT ![w].off = off]
       /\ brake' = off
  /\ UNCHANGED <<now, sch, issued, occ, lease, job, attempted, receipts, snap,
                 runs, base, noted, origin>>

(* The first tool or request that needs a job opens a second JobStore.      *)
OpenJobStore(w) ==
  /\ "jobs" \in Admin
  /\ Running(w) /\ ~wk[w].lazy
  /\ wk' = [wk EXCEPT ![w].lazy = TRUE]
  /\ job' = JobsOpened
  /\ UNCHANGED <<now, sch, issued, occ, lease, attempted, receipts, brake, snap,
                 runs, base, noted, origin>>

-----------------------------------------------------------------------------
Startup(w) == Start(w) \/ RecoverBegin(w) \/ RecoverOne(w) \/ Reconcile(w) \/ RecoverDone(w)

Loop(w) ==
  \/ TickBegin(w) \/ ClaimDue(w) \/ CreateJob(w) \/ TickEnd(w) \/ BindJob(w)
  \/ Policy(w) \/ Guard(w) \/ Attempt(w) \/ Propose(w) \/ RunTool(w) \/ Receipt(w)
  \/ RecordExecuted(w) \/ RecordReleased(w) \/ DisableGrant(w) \/ CloseJob(w)

Failure(w) == Crash(w) \/ StoreErrorAborts(w) \/ StoreErrorAfterRun(w)

Stopping(w) == StopRequest(w) \/ StopJoined(w) \/ StopTimeout(w) \/ ThreadEnds(w)

Operator(s) ==
  \/ Create(s) \/ PauseGrant(s) \/ ResumeGrant(s) \/ RenewGrant(s) \/ DeleteGrant(s)

Next ==
  \/ Tick
  \/ \E w \in Worker :
       \/ Startup(w) \/ Loop(w) \/ Heartbeat(w) \/ Failure(w) \/ Stopping(w)
       \/ OpenJobStore(w)
       \/ \E x \in Sched \cup {Layer} : SetBrake(w, x)
  \/ \E s \in Sched : Operator(s)

Spec == Init /\ [][Next]_vars

(* The service threads keep running while the process lives, and time       *)
(* passes.  Nobody owes the system a crash, a stop or an operator.          *)
Fairness ==
  /\ WF_vars(Tick)
  /\ \A w \in Worker :
       /\ WF_vars(Startup(w))
       /\ WF_vars(Loop(w))
       /\ WF_vars(Heartbeat(w))
       /\ WF_vars(StopJoined(w))

FairSpec == Spec /\ Fairness

-----------------------------------------------------------------------------
(* What a process has in hand in its tick.                                  *)
InTick(w) ==
  wk[w].pc \in {"batch", "bind", "policy", "guard", "attempt", "gate", "tool",
                "receipt", "record", "release", "disable", "close"}

InHand(w) == IF InTick(w) THEN wk[w].batch \cup ({wk[w].cur} \ {NoClaim}) ELSE {}

Recovering(w) == wk[w].pc \in {"recover", "reconcile"}

Issued(c) == occ[c].status # "none"

(* Claims of the current grant that hold a slot of its budget.              *)
SlotHeld(c) == snap[c].reserved /\ occ[c].status \in {"reserved", "executed", "unknown"}

CurrentClaims(s) == {c \in Claim : c[1] = s /\ c[2] > base[s] /\ Issued(c)}

-----------------------------------------------------------------------------
(* Safety.                                                                  *)

(* Duplicate writes are worse than a visible miss: no occurrence (schedule  *)
(* and due instant) is ever claimed twice, by whatever processes, and no    *)
(* claim runs its tool twice, through crashes, restarts and store failures. *)
OncePerOccurrence ==
  /\ \A c \in Claim : runs[c] <= 1
  /\ \A c, d \in Claim :
       c[1] = d[1] /\ c # d /\ Issued(c) /\ Issued(d) => snap[c].due # snap[d].due

(* A slot handed back, by the runner or by recovery, belongs to a write     *)
(* that never happened.  The docstring of recover_interrupted still admits  *)
(* one that did; the attempt marker has closed that window since.           *)
RefundedNeverRan ==
  \A c \in Claim :
    c[1] \in Write /\ occ[c].status \in {"released", "abandoned"} => runs[c] = 0

(* Claims taken under an earlier grant whose slot was handed back.  Those    *)
(* refunded after the renewal came out of the new grant's count; those      *)
(* refunded before it are counted too, as nothing stored tells them apart.  *)
ReturnedEarlier(s) ==
  {c \in Claim : /\ c[1] = s /\ c[2] <= base[s]
                 /\ occ[c].status \in {"released", "abandoned"}}

Writes(s) == {c \in CurrentClaims(s) : runs[c] > 0}

(* A grant produces no more writes than the max_runs it was approved with,  *)
(* counting the claims taken since, but for at most one for each claim from *)
(* before the renewal whose slot came back, before it or after.             *)
BudgetKept ==
  \A s \in Write :
    sch[s].row = "live" /\ sch[s].max > 0
      => Cardinality(Writes(s)) <= sch[s].max + Cardinality(ReturnedEarlier(s))

(* What SECURITY.md says: max_runs holds, across crashes and restarts.  It   *)
(* does not once a grant is renewed between a claim and its recovery.       *)
MaxRunsHold ==
  \A s \in Write :
    sch[s].row = "live" /\ sch[s].max > 0 => Cardinality(Writes(s)) <= sch[s].max

(* runs_used is exactly the number of claims holding a slot; after a        *)
(* renewal the refund of an older claim may make it smaller.                *)
SlotsAccounted ==
  \A s \in Sched :
    LET held == Cardinality({c \in CurrentClaims(s) : SlotHeld(c)})
    IN  sch[s].row = "live" =>
          /\ sch[s].used <= held
          /\ held <= sch[s].used + Cardinality(ReturnedEarlier(s))

(* An outcome nobody can determine stops its grant until a human has acted: *)
(* once recovery has noted it, the grant is on again only at a revision     *)
(* later than the one recovery left, whatever an operator paused, resumed   *)
(* or renewed between the claim and its recovery.                           *)
UnknownNeedsHuman ==
  \A c \in Claim :
    occ[c].status = "unknown" /\ sch[c[1]].enabled => sch[c[1]].rev > noted[c]

(* At most one process that has not been given up on is between its claim   *)
(* and the end of its batch, or recovering.                                 *)
OneOwnerAtWork ==
  \A v, w \in Worker :
    /\ v # w
    /\ wk[v].phase # "abandoned" /\ wk[w].phase # "abandoned"
    => ~((InTick(v) \/ Recovering(v)) /\ (InTick(w) \/ Recovering(w)))

(* Once a start has recovered under the lease, whatever is unresolved is in *)
(* that very process' hands: no crash leaves an invisible skip behind it.   *)
RecoveryLeavesNoOrphans ==
  \A w \in Worker :
    Running(w) /\ wk[w].recovered /\ wk[w].phase # "abandoned"
      => \A c \in Claim : Unresolved(occ[c]) => c \in InHand(w)

(* Through pauses, resumes, renewals and late ticks, every due instant      *)
(* since an operator last switched a schedule on is a claim or counted in   *)
(* missed, none of them twice.                                              *)
NothingSkippedSilently ==
  \A s \in Sched :
    sch[s].row = "live"
      => sch[s].due = origin[s] + Period * (issued[s] + sch[s].missed)

-----------------------------------------------------------------------------
(* Steps.                                                                   *)

(* A living owner's claims are never settled by another process' recovery.  *)
LivingOwnerKeepsClaims ==
  [][\A w \in Worker : \A c \in InHand(w) :
       Unresolved(occ[c]) => occ'[c].status \notin {"abandoned", "unknown"}]_vars

(* Terminal job states never change again, whoever reports late.            *)
TerminalJobsStay ==
  [][\A c \in Claim : job[c] \notin {"none", "running"} => job'[c] = job[c]]_vars

-----------------------------------------------------------------------------
(* The scheduler implements OccurrenceLedger.  Only writes count: a read    *)
(* interrupted half-way is refunded on purpose.                             *)

entryOf == [c \in Claim |->
  CASE occ[c].status = "none" -> "free"
    [] Unresolved(occ[c]) -> "held"
    [] occ[c].status \in {"executed", "unknown"} -> "spent"
    [] OTHER -> "returned"]

writtenOf == [c \in Claim |-> IF c[1] \in Write THEN runs[c] ELSE 0]

Ledger == INSTANCE OccurrenceLedger WITH
            Entry <- Claim, entry <- entryOf, written <- writtenOf

(* Every occurrence keeps the promise of the ledger.                        *)
ImplementsLedger == Ledger!Spec

-----------------------------------------------------------------------------
(* Liveness.                                                                *)

(* Every path through the runner settles the claim it took, unless the      *)
(* process dies first.                                                      *)
ClaimsSettle ==
  \A c \in Claim :
    (Unresolved(occ[c]) /\ \E w \in Worker : c \in InHand(w))
      ~> (\/ ~Unresolved(occ[c])
          \/ /\ \E w \in Worker : wk[w].pc = "dead"
             /\ \A w \in Worker : c \notin InHand(w))

(* As long as some process stays up and the tools stay on, a due occurrence *)
(* is taken, even when the process that held the lease has crashed.         *)
DueIsTaken ==
  (/\ <>[](\E w \in Worker : Running(w) /\ wk[w].phase = "up")
   /\ <>[](\A w \in Worker : Layer \notin wk[w].off))
    => \A s \in Sched :
         (sch[s].enabled /\ sch[s].due <= now /\ issued[s] < MaxClaims)
           ~> ~(sch[s].enabled /\ sch[s].due <= now /\ issued[s] < MaxClaims)

=============================================================================
