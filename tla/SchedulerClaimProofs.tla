------------------------ MODULE SchedulerClaimProofs ------------------------
(***************************************************************************)
(* No occurrence is claimed twice and no claim runs its tool twice, under   *)
(* every fault the model explores and however many processes run.           *)
(*                                                                          *)
(* This does not rest on the lease.  A claim id is issued by one atomic     *)
(* transaction to one process, is consumed from its batch before it is      *)
(* acted on, and is never handed out again: that gives at most one run.     *)
(* Every claim takes a due instant the row then leaves behind for good,     *)
(* even through pauses, renewals and deletions: that gives one claim per    *)
(* due instant.                                                             *)
(***************************************************************************)
EXTENDS SchedulerProofs

(* The claim in hand has not run yet.                                       *)
Pending == {"bind", "policy", "guard", "attempt", "gate", "tool"}

HandInv(w) ==
  InTick(w) => /\ wk[w].cur \notin wk[w].batch
               /\ \A c \in wk[w].batch : runs[c] = 0
               /\ wk[w].pc \in Pending => runs[wk[w].cur] = 0

(* Nobody knows of a claim that was not issued; no two processes hold the   *)
(* same one; what is still to be executed has not run.                      *)
ClaimsInv ==
  /\ \A c \in Claim :
       c[2] > issued[c[1]] =>
         /\ ~Issued(c)
         /\ runs[c] = 0
         /\ \A w \in Worker : c \notin InHand(w)
  /\ \A v, w \in Worker : v # w => InHand(v) \cap InHand(w) = {}
  /\ \A w \in Worker : HandInv(w)
  /\ \A c \in Claim : runs[c] <= 1

-----------------------------------------------------------------------------
(* Who writes the history of runs and the claim ids.                        *)
LEMMA HistoryWriters ==
  ASSUME [Next]_vars
  PROVE  /\ runs' # runs => \E v \in Worker : RunTool(v)
         /\ <<issued, snap>>' # <<issued, snap>> => \E v \in Worker : ClaimDue(v)
<1>1. UNCHANGED vars \/ Tick => UNCHANGED <<runs, issued, snap>>
  BY DEF vars, durable, Tick
<1>2. (\E s \in Sched : Operator(s)) => UNCHANGED <<runs, issued, snap>>
  BY DEF Operator, Create, PauseGrant, ResumeGrant, RenewGrant, DeleteGrant, Edit
<1>3. (\E v \in Worker : \/ Heartbeat(v) \/ OpenJobStore(v)
                         \/ \E x \in Sched \cup {Layer} : SetBrake(v, x))
        => UNCHANGED <<runs, issued, snap>>
  BY DEF Heartbeat, OpenJobStore, SetBrake
<1>4. (\E v \in Worker : Failure(v) \/ Stopping(v)) => UNCHANGED <<runs, issued, snap>>
  BY DEF Failure, Crash, StoreErrorAborts, StoreErrorAfterRun, Stopping, StopRequest,
         StopJoined, StopTimeout, ThreadEnds, durable
<1>5. (\E v \in Worker : Startup(v)) => UNCHANGED <<runs, issued, snap>>
  BY DEF Startup, Start, RecoverBegin, RecoverOne, Reconcile, RecoverDone, durable
<1>6. ASSUME NEW v \in Worker, Loop(v)
      PROVE  \/ UNCHANGED <<runs, issued, snap>>
             \/ ClaimDue(v) /\ UNCHANGED runs
             \/ RunTool(v) /\ UNCHANGED <<issued, snap>>
  BY <1>6 DEF Loop, TickBegin, ClaimDue, CreateJob, TickEnd, BindJob, Policy, Guard,
              Attempt, Propose, RunTool, Receipt, RecordExecuted, RecordReleased,
              DisableGrant, CloseJob, durable
<1> QED  BY <1>1, <1>2, <1>3, <1>4, <1>5, <1>6 DEF Next

(* Only claim_due brings an occurrence into existence.                      *)
LEMMA IssuedByClaimDue ==
  ASSUME TypeInv, [Next]_vars, NEW c \in Claim, ~Issued(c), Issued(c)'
  PROVE  \E v \in Worker : ClaimDue(v)
<1>0. occ \in [Claim -> Occurrence]
  BY DEF TypeInv, TypeOK
<1>1. \A v \in Worker : ~RecoverOne(v)
  BY <1>0 DEF RecoverOne, Issued, Unresolved, Resolve
<1>2. \A v \in Worker : ~BindJob(v)
  BY <1>0 DEF BindJob, Issued, Occurrence
<1>3. \A v \in Worker : ~RecordExecuted(v) /\ ~RecordReleased(v)
  BY <1>0 DEF RecordExecuted, RecordReleased, Issued, Unresolved, Resolve
<1> QED  BY <1>1, <1>2, <1>3, OccurrenceWriters DEF Issued

-----------------------------------------------------------------------------
(* A step of process w, neither a claim nor a run, that takes nothing into  *)
(* its hands and never moves a claim back to before its run.                *)
HandKept(w) ==
  InTick(w)' => /\ InTick(w)
                /\ wk'[w].batch \subseteq wk[w].batch
                /\ wk'[w].cur \in InHand(w) \cup {NoClaim}
                /\ wk'[w].cur \notin wk'[w].batch
                /\ wk'[w].pc \in Pending => runs[wk'[w].cur] = 0

(* The same when it leaves its hands alone.                                 *)
HandSame(w) ==
  InTick(w)' => /\ InTick(w)
                /\ wk'[w].batch = wk[w].batch
                /\ wk'[w].cur = wk[w].cur
                /\ wk'[w].pc \in Pending => wk[w].pc \in Pending

(* A process that did not move keeps what it has in hand.                   *)
LEMMA SameIsKept ==
  ASSUME TypeInv, ClaimsInv, NEW w \in Worker, HandSame(w)
  PROVE  HandKept(w)
  BY DEF ClaimsInv, HandInv, HandSame, HandKept, InHand

(* It is enough to look at what a process has in hand after its step.       *)
LEMMA HandStep ==
  ASSUME TypeInv, ClaimsInv, NEW w \in Worker, HandKept(w),
         \A v \in Worker \ {w} : wk'[v] = wk[v],
         runs' = runs, issued' = issued,
         \A c \in Claim : ~Issued(c) => ~Issued(c)'
  PROVE  ClaimsInv'
<1>1. InHand(w)' \subseteq InHand(w)
  BY DEF HandKept, InHand
<1>2. \A v \in Worker \ {w} : InHand(v)' = InHand(v) /\ HandInv(v)'
  BY DEF ClaimsInv, InHand, HandInv, InTick
<1>3. HandInv(w)'
  BY DEF ClaimsInv, HandInv, HandKept
<1> QED  BY <1>1, <1>2, <1>3 DEF ClaimsInv

(* Nothing is issued, held or run at the beginning.                         *)
LEMMA ClaimsInit == Init => ClaimsInv
  BY DEF Init, ClaimsInv, HandInv, InHand, InTick, Process, Issued, NoOccurrence

-----------------------------------------------------------------------------
(* What the loop does with its hands, but for claiming and running.         *)
LEMMA LoopHands ==
  ASSUME TypeInv, ClaimsInv, NEW w \in Worker, Loop(w), ~ClaimDue(w), ~RunTool(w)
  PROVE  HandKept(w)
<1>0. /\ wk \in [Worker -> ProcessState] /\ wk[w] \in ProcessState
      /\ NoClaim \notin Claim
  BY SchedulerAssumption DEF TypeInv, TypeOK
<1> USE DEF Goto, Conclude, HandSame, InTick, Pending
<1>1. CASE TickBegin(w)
  <2>1. HandSame(w)
    BY <1>0, <1>1 DEF TickBegin, ProcessState
  <2> QED  BY <2>1, SameIsKept
<1>2. CASE TickEnd(w)
  <2>1. HandSame(w)
    BY <1>0, <1>2 DEF TickEnd, ProcessState
  <2> QED  BY <2>1, SameIsKept
<1>3. CASE BindJob(w)
  <2>1. HandSame(w)
    BY <1>0, <1>3 DEF BindJob, ProcessState
  <2> QED  BY <2>1, SameIsKept
<1>4. CASE Policy(w)
  <2>1. HandSame(w)
    BY <1>0, <1>4 DEF Policy, ProcessState
  <2> QED  BY <2>1, SameIsKept
<1>5. CASE Guard(w)
  <2>1. HandSame(w)
    BY <1>0, <1>5 DEF Guard, ProcessState
  <2> QED  BY <2>1, SameIsKept
<1>6. CASE Attempt(w)
  <2>1. HandSame(w)
    BY <1>0, <1>6 DEF Attempt, ProcessState
  <2> QED  BY <2>1, SameIsKept
<1>7. CASE Propose(w)
  <2>1. HandSame(w)
    BY <1>0, <1>7 DEF Propose, ProcessState
  <2> QED  BY <2>1, SameIsKept
<1>8. CASE Receipt(w)
  <2>1. HandSame(w)
    BY <1>0, <1>8 DEF Receipt, ProcessState
  <2> QED  BY <2>1, SameIsKept
<1>9. CASE RecordExecuted(w)
  <2>1. HandSame(w)
    BY <1>0, <1>9 DEF RecordExecuted, ProcessState
  <2> QED  BY <2>1, SameIsKept
<1>10. CASE RecordReleased(w)
  <2>1. HandSame(w)
    BY <1>0, <1>10 DEF RecordReleased, ProcessState
  <2> QED  BY <2>1, SameIsKept
<1>11. CASE DisableGrant(w)
  <2>1. HandSame(w)
    BY <1>0, <1>11 DEF DisableGrant, ProcessState
  <2> QED  BY <2>1, SameIsKept
<1>12. CASE CreateJob(w)
  <2>1. PICK c \in wk[w].batch :
          wk' = [wk EXCEPT ![w].pc = "bind", ![w].cur = c, ![w].batch = @ \ {c}]
    BY <1>12 DEF CreateJob
  <2>2. /\ wk'[w].cur = c /\ wk'[w].batch = wk[w].batch \ {c}
        /\ wk[w].pc = "batch"
    BY <1>0, <1>12, <2>1 DEF CreateJob, ProcessState
  <2>3. c \in InHand(w) /\ runs[c] = 0
    BY <2>1, <2>2 DEF InHand, ClaimsInv, HandInv
  <2> QED  BY <2>2, <2>3 DEF HandKept
<1>13. CASE CloseJob(w)
  <2>1. /\ wk'[w].cur = NoClaim /\ wk'[w].batch = wk[w].batch
        /\ wk'[w].pc = "batch" /\ wk[w].pc = "close"
    BY <1>0, <1>13 DEF CloseJob, ProcessState
  <2>2. NoClaim \notin wk[w].batch
    BY <1>0 DEF ProcessState
  <2> QED  BY <2>1, <2>2 DEF HandKept
<1> QED
  BY <1>1, <1>2, <1>3, <1>4, <1>5, <1>6, <1>7,
     <1>8, <1>9, <1>10, <1>11, <1>12, <1>13 DEF Loop

(* Outside its loop a process gets nothing new in hand.                     *)
LEMMA OtherHands ==
  ASSUME TypeInv, ClaimsInv, NEW w \in Worker,
         \/ Startup(w) \/ Failure(w) \/ Stopping(w) \/ OpenJobStore(w)
         \/ \E x \in Sched \cup {Layer} : SetBrake(w, x)
  PROVE  HandKept(w) /\ \A v \in Worker \ {w} : wk'[v] = wk[v]
<1>0. /\ wk \in [Worker -> ProcessState] /\ wk[w] \in ProcessState
      /\ NoClaim \notin Claim
  BY SchedulerAssumption DEF TypeInv, TypeOK
<1>1. CASE Startup(w)
  <2>1. ~InTick(w)'
    <3>1. CASE Start(w)
      BY <1>0, <3>1 DEF Start, Process, InTick
    <3>2. CASE RecoverBegin(w)
      BY <1>0, <3>2 DEF RecoverBegin, Goto, ProcessState, InTick
    <3>3. CASE RecoverOne(w)
      BY <1>0, <3>3 DEF RecoverOne, ProcessState, InTick
    <3>4. CASE Reconcile(w)
      BY <1>0, <3>4 DEF Reconcile, ProcessState, InTick
    <3>5. CASE RecoverDone(w)
      BY <1>0, <3>5 DEF RecoverDone, ProcessState, InTick
    <3> QED  BY <1>1, <3>1, <3>2, <3>3, <3>4, <3>5 DEF Startup
  <2> QED  BY <1>1, <2>1, StartupLocal DEF HandKept
<1>2. CASE Failure(w)
  <2>1. CASE Crash(w)
    BY <1>0, <1>2, <2>1, FailureLocal DEF Crash, Process, InTick, HandKept
  <2>2. CASE StoreErrorAborts(w)
    <3>1. ~InTick(w)'
      BY <1>0, <2>2 DEF StoreErrorAborts, Process, ProcessState, InTick
    <3> QED  BY <1>2, <3>1, FailureLocal DEF HandKept
  <2>3. CASE StoreErrorAfterRun(w)
    <3>1. CASE wk[w].pc = "record"
      <4>1. HandSame(w)
        BY <1>0, <2>3, <3>1 DEF StoreErrorAfterRun, Conclude, ProcessState, InTick,
                                Pending, HandSame
      <4> QED  BY <1>2, <4>1, FailureLocal, SameIsKept
    <3>2. CASE wk[w].pc # "record"
      <4>1. /\ wk'[w].cur = NoClaim /\ wk'[w].batch = wk[w].batch
            /\ wk'[w].pc = "batch" /\ wk[w].pc = "close"
        BY <1>0, <2>3, <3>2 DEF StoreErrorAfterRun, ProcessState
      <4>2. NoClaim \notin wk[w].batch
        BY <1>0 DEF ProcessState
      <4> QED  BY <1>2, <4>1, <4>2, FailureLocal DEF HandKept, InTick, Pending
    <3> QED  BY <3>1, <3>2
  <2> QED  BY <1>2, <2>1, <2>2, <2>3 DEF Failure
<1>3. CASE Stopping(w)
  <2>1. HandSame(w)
    BY <1>0, <1>3 DEF Stopping, StopRequest, StopJoined, StopTimeout, ThreadEnds,
                      Process, ProcessState, InTick, Pending, HandSame
  <2> QED  BY <1>3, <2>1, StoppingLocal, SameIsKept
<1>4. CASE OpenJobStore(w)
  <2>1. HandSame(w)
    BY <1>0, <1>4 DEF OpenJobStore, ProcessState, InTick, HandSame
  <2>2. \A v \in Worker \ {w} : wk'[v] = wk[v]
    BY <1>0, <1>4 DEF OpenJobStore
  <2> QED  BY <2>1, <2>2, SameIsKept
<1>5. ASSUME NEW x \in Sched \cup {Layer}, SetBrake(w, x)
      PROVE  HandKept(w) /\ \A v \in Worker \ {w} : wk'[v] = wk[v]
  <2>1. HandSame(w)
    BY <1>0, <1>5 DEF SetBrake, ProcessState, InTick, HandSame
  <2>2. \A v \in Worker \ {w} : wk'[v] = wk[v]
    BY <1>0, <1>5 DEF SetBrake
  <2> QED  BY <2>1, <2>2, SameIsKept
<1> QED  BY <1>1, <1>2, <1>3, <1>4, <1>5

(* The claims of one transaction were nobody's before.                      *)
LEMMA ClaimsClaimDue ==
  ASSUME TypeInv, ClaimsInv, NEW w \in Worker, ClaimDue(w)
  PROVE  ClaimsInv'
<1>0. /\ wk \in [Worker -> ProcessState] /\ wk[w] \in ProcessState
      /\ issued \in [Sched -> Nat] /\ NoClaim \notin Claim
      /\ occ \in [Claim -> Occurrence] /\ runs \in [Claim -> Nat]
  BY SchedulerAssumption DEF TypeInv, TypeOK
<1>1. PICK B \in DueBatches(wk[w].tickAt) : ClaimBatch(w, B)
  BY DEF ClaimDue
<1> DEFINE new == {<<s, issued[s] + 1>> : s \in B \ Malformed}
<1>2. B \subseteq Sched /\ runs' = runs
  BY DEF DueBatches, ClaimDue
<1>3. /\ wk'[w].pc = "batch" /\ wk'[w].batch = new /\ wk'[w].cur = wk[w].cur
      /\ \A v \in Worker \ {w} : wk'[v] = wk[v]
  BY <1>0, <1>1 DEF ClaimBatch, ProcessState
<1>4. \A c \in new : c[2] = issued[c[1]] + 1 /\ c[1] \in Sched
  BY <1>2
<1>5. new \in SUBSET Claim
  BY <1>0, <1>2, StoreAssumption DEF DueBatches, Claim
<1>6. \A c \in Claim : c[2] > issued'[c[1]] => c[2] > issued[c[1]] /\ c \notin new
  BY <1>0, <1>1, <1>2 DEF ClaimBatch, Claim
<1>7. \A c \in Claim \ new : occ'[c] = occ[c]
  BY <1>1 DEF ClaimBatch
<1> HIDE DEF new
<1>8. \A c \in new : runs[c] = 0 /\ \A v \in Worker : c \notin InHand(v)
  <2>1. \A c \in new : c \in Claim /\ c[2] > issued[c[1]]
    BY <1>0, <1>4, <1>5
  <2> QED  BY <2>1 DEF ClaimsInv
<1>9. wk[w].cur = NoClaim
  BY DEF ClaimDue, TypeInv, HandsOK, HandOK, Executing
<1>10. InHand(w)' = new
  BY <1>3, <1>9 DEF InHand, InTick
<1>11. \A v \in Worker \ {w} : InHand(v)' = InHand(v) /\ HandInv(v)'
  BY <1>2, <1>3 DEF ClaimsInv, InHand, HandInv, InTick
<1>12. HandInv(w)'
  BY <1>0, <1>2, <1>3, <1>5, <1>8, <1>9 DEF HandInv, Pending
<1>13. \A c \in Claim : c[2] > issued'[c[1]] =>
         ~Issued(c)' /\ runs'[c] = 0 /\ \A v \in Worker : c \notin InHand(v)'
  BY <1>2, <1>6, <1>7, <1>10, <1>11 DEF ClaimsInv, Issued
<1> QED  BY <1>2, <1>8, <1>10, <1>11, <1>12, <1>13 DEF ClaimsInv

(* The tool runs for the one claim in hand, which had not run.              *)
LEMMA ClaimsRunTool ==
  ASSUME TypeInv, ClaimsInv, NEW w \in Worker, RunTool(w)
  PROVE  ClaimsInv'
<1> DEFINE c == wk[w].cur
<1>0. /\ wk \in [Worker -> ProcessState] /\ wk[w] \in ProcessState
      /\ runs \in [Claim -> Nat] /\ c \in Claim
      /\ wk[w].pc = "tool" /\ InTick(w)
  BY DEF TypeInv, TypeOK, HandsOK, HandOK, Executing, RunTool, InTick
<1>1. /\ runs' \in {runs, [runs EXCEPT ![c] = @ + 1]}
      /\ issued' = issued /\ occ' = occ
  BY DEF RunTool, durable
<1>2. /\ wk'[w].pc \in {"receipt", "release"}
      /\ wk'[w].cur = c /\ wk'[w].batch = wk[w].batch
  BY <1>0 DEF RunTool, Goto, Conclude, ProcessState
<1>3. \A v \in Worker \ {w} : wk'[v] = wk[v]
  BY <1>0, LoopLocal DEF Loop
<1>4. runs[c] = 0 /\ c \notin wk[w].batch /\ c \in InHand(w)
  BY <1>0, SchedulerAssumption DEF ClaimsInv, HandInv, InHand, Pending
<1>5. InHand(w)' = InHand(w)
  BY <1>0, <1>2 DEF InHand, InTick
<1>6. \A v \in Worker \ {w} : InHand(v)' = InHand(v)
  BY <1>3 DEF InHand, InTick
<1> HIDE DEF c
<1>7. \A d \in Claim : d # c => runs'[d] = runs[d]
  BY <1>0, <1>1
<1>8. HandInv(w)'
  <2>1. \A d \in wk[w].batch : d \in Claim /\ d # c /\ runs[d] = 0
    BY <1>0, <1>4 DEF ProcessState, ClaimsInv, HandInv
  <2> QED  BY <1>0, <1>2, <1>4, <1>7, <2>1 DEF HandInv, Pending
<1>9. ASSUME NEW v \in Worker \ {w} PROVE HandInv(v)'
  <2>1. wk'[v] = wk[v] /\ c \notin InHand(v) /\ HandInv(v)
    BY <1>3, <1>4 DEF ClaimsInv
  <2>2. CASE InTick(v)
    <3>1. c \notin wk[v].batch /\ wk[v].cur # c
      BY <1>0, <2>1, <2>2, SchedulerAssumption DEF InHand
    <3>2. wk[v].pc \in Pending => wk[v].cur \in Claim
      BY DEF TypeInv, HandsOK, HandOK, Executing, Pending
    <3>3. wk[v].batch \subseteq Claim
      BY DEF TypeInv, TypeOK, ProcessState
    <3> QED  BY <1>7, <2>1, <2>2, <3>1, <3>2, <3>3 DEF HandInv, InTick
  <2>3. CASE ~InTick(v)
    BY <2>1, <2>3 DEF HandInv, InTick
  <2> QED  BY <2>2, <2>3
<1>10. \A d \in Claim : runs'[d] <= 1
  BY <1>0, <1>1, <1>4 DEF ClaimsInv
<1>11. \A d \in Claim : d[2] > issued[d[1]] => d # c
  BY <1>4 DEF ClaimsInv
<1> QED
  BY <1>1, <1>5, <1>6, <1>7, <1>8, <1>9, <1>10, <1>11 DEF ClaimsInv, Issued

(* Every step keeps claims unique and unexecuted until they run.            *)
LEMMA ClaimsStep == TypeInv /\ ClaimsInv /\ [Next]_vars => ClaimsInv'
<1> SUFFICES ASSUME TypeInv, ClaimsInv, [Next]_vars PROVE ClaimsInv'
  OBVIOUS
<1>1. ASSUME NEW w \in Worker, ClaimDue(w) PROVE ClaimsInv'
  BY <1>1, ClaimsClaimDue
<1>2. ASSUME NEW w \in Worker, RunTool(w) PROVE ClaimsInv'
  BY <1>2, ClaimsRunTool
<1>3. ASSUME \A w \in Worker : ~ClaimDue(w) /\ ~RunTool(w) PROVE ClaimsInv'
  <2>1. /\ runs' = runs /\ issued' = issued
        /\ \A c \in Claim : ~Issued(c) => ~Issued(c)'
    BY <1>3, HistoryWriters, IssuedByClaimDue
  <2>2. ASSUME NEW w \in Worker,
               HandKept(w) /\ \A v \in Worker \ {w} : wk'[v] = wk[v]
        PROVE  ClaimsInv'
    BY <2>1, <2>2, HandStep
  <2>3. CASE wk' = wk
    BY <2>1, <2>3 DEF ClaimsInv, HandInv, InHand, InTick
  <2>4. ASSUME NEW w \in Worker, Loop(w) PROVE ClaimsInv'
    BY <1>3, <2>2, <2>4, LoopHands, LoopLocal
  <2>5. ASSUME NEW w \in Worker,
               \/ Startup(w) \/ Failure(w) \/ Stopping(w) \/ OpenJobStore(w)
               \/ \E x \in Sched \cup {Layer} : SetBrake(w, x)
        PROVE  ClaimsInv'
    BY <2>2, <2>5, OtherHands
  <2>6. Tick \/ (\E w \in Worker : Heartbeat(w)) \/ (\E s \in Sched : Operator(s)) => wk' = wk
    BY DEF Tick, Heartbeat, Operator, Create, PauseGrant, ResumeGrant, RenewGrant,
           DeleteGrant, Edit
  <2>7. UNCHANGED vars => wk' = wk
    BY DEF vars
  <2> QED  BY <2>3, <2>4, <2>5, <2>6, <2>7 DEF Next
<1> QED  BY <1>1, <1>2, <1>3

-----------------------------------------------------------------------------
(* Due instants only move on.  A tick looks at an instant no later than     *)
(* now; what it claims it takes at the row's due instant and leaves behind; *)
(* whatever an operator does puts the next due instant later still.         *)
DuesInv ==
  /\ \A w \in Worker : wk[w].tickAt <= now
  /\ \A s \in Sched : sch[s].enabled => sch[s].row = "live"
  /\ \A s \in Sched : sch[s].row = "absent" => issued[s] = 0
  /\ \A c \in Claim :
       Issued(c) => /\ snap[c].due <= now
                    /\ sch[c[1]].row = "live" => snap[c].due < sch[c[1]].due
  /\ \A c, d \in Claim :
       c[1] = d[1] /\ c # d /\ Issued(c) /\ Issued(d) => snap[c].due # snap[d].due

(* Row g became row h no later than t.                                      *)
RowKept(g, h, t) ==
  /\ h.enabled => h.row = "live"
  /\ h.row = "absent" => g.row = "absent"
  /\ h.row = "live" /\ g.row # "absent"
       => g.row = "live" /\ (h.due >= g.due \/ h.due > t)

(* No operation on a row makes an instant due that lies behind it.          *)
LEMMA RowsKept ==
  ASSUME NEW s \in Sched, NEW g \in Row, g.enabled => g.row = "live", NEW t \in Nat
  PROVE  /\ RowKept(g, g, t)
         /\ RowKept(g, Refunded(g), t)
         /\ RowKept(g, Paused(g), t)
         /\ RowKept(g, PausedUnknown(g), t)
         /\ RowKept(g, NoRow("deleted"), t)
         /\ g.row = "live" => RowKept(g, Resumed(g, t), t)
         /\ g.row = "live" =>
              \A max \in Nat, enable \in {"keep", "on", "off"} :
                RowKept(g, Renewed(s, g, t, max, enable), t)
         /\ g.row = "absent" =>
              \A max \in Nat : RowKept(g, NewGrant(s, t, max), t)
<1>0. g.due \in Nat /\ NextRun(t) \in Nat /\ NextRun(t) > t
  BY StoreAssumption DEF Row, NextRun
<1> USE <1>0 DEF RowKept
<1>1. RowKept(g, g, t)
  OBVIOUS
<1>2. RowKept(g, Refunded(g), t)
  BY DEF Refunded, Row
<1>3. RowKept(g, Paused(g), t)
  BY DEF Paused, Row
<1>4. RowKept(g, PausedUnknown(g), t)
  BY DEF PausedUnknown, Row
<1>5. RowKept(g, NoRow("deleted"), t)
  BY DEF NoRow
<1>6. g.row = "live" => RowKept(g, Resumed(g, t), t)
  BY DEF Resumed, Row
<1>7. ASSUME g.row = "live", NEW max \in Nat, NEW enable \in {"keep", "on", "off"}
      PROVE  RowKept(g, Renewed(s, g, t, max, enable), t)
  <2>1. /\ Renewed(s, g, t, max, enable).row = g.row
        /\ Renewed(s, g, t, max, enable).due = IF enable = "on" THEN NextRun(t) ELSE g.due
    BY DEF Renewed, Row
  <2> QED  BY <1>7, <2>1
<1>8. g.row = "absent" => \A max \in Nat : RowKept(g, NewGrant(s, t, max), t)
  BY DEF NewGrant
<1> QED  BY <1>1, <1>2, <1>3, <1>4, <1>5, <1>6, <1>7, <1>8

(* Every step but a claim keeps every row.                                  *)
LEMMA RowsStep ==
  ASSUME TypeInv, DuesInv, [Next]_vars, \A v \in Worker : ~ClaimDue(v),
         NEW s \in Sched
  PROVE  RowKept(sch[s], sch'[s], now)
<1>0. /\ sch \in [Sched -> Row] /\ now \in Nat /\ sch[s] \in Row
      /\ sch[s].enabled => sch[s].row = "live"
  BY DEF TypeInv, TypeOK, DuesInv
<1>1. /\ RowKept(sch[s], sch[s], now)
      /\ RowKept(sch[s], Refunded(sch[s]), now)
      /\ RowKept(sch[s], Paused(sch[s]), now)
      /\ RowKept(sch[s], PausedUnknown(sch[s]), now)
  BY <1>0, RowsKept
<1>2. CASE UNCHANGED vars \/ Tick
  BY <1>1, <1>2 DEF vars, durable, Tick
<1>3. ASSUME NEW v \in Worker, Startup(v)
      PROVE  RowKept(sch[s], sch'[s], now)
  <2>1. CASE Start(v)
    BY <1>0, <1>1, <2>1 DEF Start
  <2>2. CASE RecoverOne(v)
    <3>1. sch'[s] \in {sch[s], Refunded(sch[s]), PausedUnknown(sch[s])}
      BY <1>0, <2>2 DEF RecoverOne, Refund, Evidence
    <3> QED  BY <1>1, <3>1
  <2>3. CASE RecoverBegin(v) \/ Reconcile(v) \/ RecoverDone(v)
    BY <1>1, <2>3 DEF RecoverBegin, Reconcile, RecoverDone, durable
  <2> QED  BY <1>3, <2>1, <2>2, <2>3 DEF Startup
<1>4. ASSUME NEW v \in Worker, Loop(v)
      PROVE  RowKept(sch[s], sch'[s], now)
  <2>1. sch'[s] \in {sch[s], Refunded(sch[s]), Paused(sch[s])}
    <3>1. CASE RecordReleased(v)
      BY <1>0, <3>1 DEF RecordReleased, Refund
    <3>2. CASE DisableGrant(v)
      BY <1>0, <3>2 DEF DisableGrant
    <3>3. CASE ~RecordReleased(v) /\ ~DisableGrant(v)
      BY <1>4, <3>3 DEF Loop, TickBegin, CreateJob, TickEnd, BindJob, Policy, Guard,
           Attempt, Propose, RunTool, Receipt, RecordExecuted, CloseJob, durable
    <3> QED  BY <3>1, <3>2, <3>3
  <2> QED  BY <1>1, <2>1
<1>5. ASSUME NEW v \in Worker,
             \/ Failure(v) \/ Stopping(v) \/ Heartbeat(v) \/ OpenJobStore(v)
             \/ \E x \in Sched \cup {Layer} : SetBrake(v, x)
      PROVE  RowKept(sch[s], sch'[s], now)
  <2>1. CASE StoreErrorAfterRun(v)
    <3>1. sch'[s] \in {sch[s], Paused(sch[s])}
      BY <1>0, <2>1 DEF StoreErrorAfterRun
    <3> QED  BY <1>1, <3>1
  <2>2. CASE ~StoreErrorAfterRun(v)
    BY <1>1, <1>5, <2>2 DEF Failure, Crash, StoreErrorAborts, Stopping, StopRequest,
         StopJoined, StopTimeout, ThreadEnds, Heartbeat, OpenJobStore, SetBrake, durable
  <2> QED  BY <2>1, <2>2
<1>6. ASSUME NEW u \in Sched, Operator(u)
      PROVE  RowKept(sch[s], sch'[s], now)
  <2>1. CASE u # s
    <3>1. \E g : Edit(u, g)
      BY <1>6 DEF Operator, Create, PauseGrant, ResumeGrant, RenewGrant, DeleteGrant
    <3> QED  BY <1>0, <1>1, <2>1, <3>1 DEF Edit
  <2>2. CASE u = s
    <3>1. PICK h : Edit(s, h) /\ RowKept(sch[s], h, now)
      BY <1>0, <1>6, <2>2, RowsKept, StoreAssumption
         DEF Operator, Create, PauseGrant, ResumeGrant, RenewGrant, DeleteGrant
    <3> QED  BY <1>0, <3>1 DEF Edit
  <2> QED  BY <2>1, <2>2
<1> QED  BY <1>2, <1>3, <1>4, <1>5, <1>6 DEF Next

(* Time only moves forward, and a tick remembers an instant of the past.    *)
LEMMA TimeStep ==
  ASSUME TypeInv, DuesInv, [Next]_vars
  PROVE  now' >= now /\ \A w \in Worker : wk'[w].tickAt <= now'
<1>0. /\ now \in Nat /\ \A w \in Worker : wk[w].tickAt <= now
      /\ wk \in [Worker -> ProcessState]
  BY DEF TypeInv, TypeOK, DuesInv
<1>1. CASE UNCHANGED vars \/ Tick
  BY <1>0, <1>1, TypeStep DEF vars, durable, Tick, TypeInv, TypeOK, ProcessState
<1>2. ASSUME NEW v \in Worker,
             /\ wk'[v].tickAt \in {wk[v].tickAt, now, 0}
             /\ \A w \in Worker \ {v} : wk'[w] = wk[w]
      PROVE  \A w \in Worker : wk'[w].tickAt <= now
  BY <1>0, <1>2
<1>3. ASSUME NEW v \in Worker, Startup(v) \/ Loop(v) \/ Failure(v) \/ Stopping(v)
      PROVE  \A w \in Worker : wk'[w].tickAt <= now
  BY <1>2, <1>3, StartupLocal, LoopLocal, FailureLocal, StoppingLocal
<1>4. ASSUME NEW v \in Worker,
             OpenJobStore(v) \/ \E x \in Sched \cup {Layer} : SetBrake(v, x)
      PROVE  \A w \in Worker : wk'[w].tickAt <= now
  <2>1. \A w \in Worker : wk'[w].tickAt = wk[w].tickAt
    BY <1>0, <1>4 DEF OpenJobStore, SetBrake, ProcessState
  <2> QED  BY <1>0, <2>1
<1>5. (\E v \in Worker : Heartbeat(v)) \/ (\E s \in Sched : Operator(s)) => wk' = wk
  BY DEF Heartbeat, Operator, Create, PauseGrant, ResumeGrant, RenewGrant, DeleteGrant, Edit
<1>6. ~Tick => now' = now
  <2>1. ASSUME NEW v \in Worker, Startup(v) PROVE now' = now
    BY <2>1 DEF Startup, Start, RecoverBegin, RecoverOne, Reconcile, RecoverDone
  <2>2. ASSUME NEW v \in Worker, Loop(v) PROVE now' = now
    BY <2>2 DEF Loop, TickBegin, ClaimDue, CreateJob, TickEnd, BindJob, Policy, Guard,
         Attempt, Propose, RunTool, Receipt, RecordExecuted, RecordReleased,
         DisableGrant, CloseJob
  <2>3. ASSUME NEW v \in Worker,
               \/ Failure(v) \/ Stopping(v) \/ Heartbeat(v) \/ OpenJobStore(v)
               \/ \E x \in Sched \cup {Layer} : SetBrake(v, x)
        PROVE now' = now
    BY <2>3 DEF Failure, Crash, StoreErrorAborts, StoreErrorAfterRun, Stopping,
         StopRequest, StopJoined, StopTimeout, ThreadEnds, Heartbeat, OpenJobStore, SetBrake
  <2>4. ASSUME NEW s \in Sched, Operator(s) PROVE now' = now
    BY <2>4 DEF Operator, Create, PauseGrant, ResumeGrant, RenewGrant, DeleteGrant, Edit
  <2>5. UNCHANGED vars => now' = now
    BY DEF vars
  <2> QED  BY <2>1, <2>2, <2>3, <2>4, <2>5 DEF Next
<1>7. CASE ~Tick /\ ~UNCHANGED vars
  <2>1. \A w \in Worker : wk'[w].tickAt <= now
    BY <1>0, <1>3, <1>4, <1>5, <1>7 DEF Next
  <2> QED  BY <1>0, <1>6, <1>7, <2>1
<1> QED  BY <1>1, <1>7

(* A claim takes the row's due instant and puts the next one after it.      *)
LEMMA DuesClaimDue ==
  ASSUME TypeInv, TypeInv', ClaimsInv, DuesInv, NEW w \in Worker, ClaimDue(w)
  PROVE  DuesInv'
<1> DEFINE t == wk[w].tickAt
<1>0. /\ sch \in [Sched -> Row] /\ now \in Nat /\ t \in Nat /\ t <= now
      /\ issued \in [Sched -> Nat] /\ snap \in [Claim -> Snapshot]
      /\ occ \in [Claim -> Occurrence] /\ wk \in [Worker -> ProcessState]
  BY DEF TypeInv, TypeOK, ProcessState, DuesInv
<1>1. PICK B \in DueBatches(t) : ClaimBatch(w, B)
  BY DEF ClaimDue
<1> DEFINE good == B \ Malformed
           new == {<<s, issued[s] + 1>> : s \in good}
<1>2. /\ \A s \in B : s \in Sched /\ sch[s].enabled /\ sch[s].due <= t
      /\ now' = now
  BY DEF DueBatches, ClaimDue
<1>3. \A s \in good : sch'[s] = Taken(sch[s], t)
  BY <1>1, <1>2 DEF ClaimBatch
<1>4. \A s \in good : /\ sch'[s].row = "live" /\ sch[s].row = "live"
                      /\ sch'[s].due > t /\ sch'[s].due > sch[s].due
  <2> TAKE s \in good
  <2>1. /\ s \in Sched /\ sch[s] \in Row /\ sch[s].due \in Nat /\ sch[s].due <= t
        /\ sch[s].row = "live"
    BY <1>0, <1>2 DEF DuesInv, Row
  <2>2. /\ Taken(sch[s], t).row = "live"
        /\ Taken(sch[s], t).due = CatchUp(sch[s].due, t).due
    BY <1>0, <2>1, TakenType
  <2>3. CatchUp(sch[s].due, t).due > t /\ CatchUp(sch[s].due, t).due \in Nat
    BY <1>0, <2>1, CatchUpAdvances
  <2> QED  BY <1>0, <1>3, <2>1, <2>2, <2>3
<1>5. \A s \in Sched \ good : /\ sch'[s].row = sch[s].row /\ sch'[s].due = sch[s].due
                              /\ issued'[s] = issued[s]
                              /\ sch'[s].enabled => sch[s].enabled
  BY <1>0, <1>1 DEF ClaimBatch, Row
<1>6. \A c \in new : /\ c[1] \in good /\ c[2] = issued[c[1]] + 1
                     /\ c \in Claim => snap'[c].due = sch[c[1]].due
  <2>1. \A c \in new : c[1] \in good /\ c[2] = issued[c[1]] + 1
    OBVIOUS
  <2>2. \A c \in new : c \in Claim => snap'[c] = TakenSnapshot(sch[c[1]], t)
    BY <1>1 DEF ClaimBatch
  <2> QED  BY <1>0, <1>2, <2>1, <2>2, TakenSnapshotType
<1>7. \A c \in Claim \ new : snap'[c] = snap[c] /\ occ'[c] = occ[c]
  BY <1>0, <1>1 DEF ClaimBatch
<1>8. \A c, d \in new : c[1] = d[1] => c = d
  OBVIOUS
<1>9. \A w2 \in Worker : wk'[w2].tickAt <= now
  <2>1. \A w2 \in Worker : wk'[w2].tickAt = wk[w2].tickAt
    BY <1>0, <1>1 DEF ClaimBatch, ProcessState
  <2> QED  BY <2>1 DEF DuesInv
<1>10. \A c \in Claim : c[1] \in Sched
  BY DEF Claim
<1> HIDE DEF new, good, t
<1>11. \A c \in Claim : Issued(c) => /\ snap[c].due <= now
                                     /\ sch[c[1]].row = "live" => snap[c].due < sch[c[1]].due
  BY DEF DuesInv
<1>12. \A s \in Sched : sch[s].due \in Nat /\ sch'[s].due \in Nat
  BY <1>0 DEF Row, TypeInv, TypeOK
<1>13. \A c \in Claim : snap[c].due \in Nat /\ snap'[c].due \in Nat
  BY DEF Snapshot, TypeInv, TypeOK
<1>14. \A c \in Claim \ new : Issued(c)' => Issued(c)
  BY <1>7 DEF Issued
<1>15. ASSUME NEW c \in Claim, Issued(c)'
       PROVE  /\ snap'[c].due <= now
              /\ sch'[c[1]].row = "live" => snap'[c].due < sch'[c[1]].due
  <2>1. CASE c \in new
    BY <1>0, <1>2, <1>4, <1>6, <1>10, <1>12, <2>1 DEF good
  <2>2. CASE c \notin new
    <3>1. Issued(c) /\ snap'[c] = snap[c]
      BY <1>7, <1>14, <1>15, <2>2
    <3>2. CASE c[1] \in good
      BY <1>4, <1>10, <1>11, <1>12, <1>13, <3>1, <3>2
    <3>3. CASE c[1] \notin good
      BY <1>5, <1>10, <1>11, <3>1, <3>3
    <3> QED  BY <3>2, <3>3
  <2> QED  BY <2>1, <2>2
<1>16. ASSUME NEW c \in Claim, NEW d \in Claim, c[1] = d[1], c # d,
              Issued(c)', Issued(d)'
       PROVE  snap'[c].due # snap'[d].due
  <2>1. CASE c \in new
    <3>1. d \notin new
      BY <1>8, <1>16, <2>1
    <3>2. Issued(d) /\ snap'[d] = snap[d]
      BY <1>7, <1>14, <1>16, <3>1
    <3> QED  BY <1>4, <1>6, <1>11, <1>12, <1>13, <1>16, <2>1, <3>2
  <2>2. CASE d \in new
    <3>1. c \notin new
      BY <1>8, <1>16, <2>2
    <3>2. Issued(c) /\ snap'[c] = snap[c]
      BY <1>7, <1>14, <1>16, <3>1
    <3> QED  BY <1>4, <1>6, <1>11, <1>12, <1>13, <1>16, <2>2, <3>2
  <2>3. CASE c \notin new /\ d \notin new
    <3>1. Issued(c) /\ Issued(d) /\ snap'[c] = snap[c] /\ snap'[d] = snap[d]
      BY <1>7, <1>14, <1>16, <2>3
    <3> QED  BY <1>16, <3>1 DEF DuesInv
  <2> QED  BY <2>1, <2>2, <2>3
<1>17. \A s \in Sched : /\ sch'[s].enabled => sch'[s].row = "live"
                        /\ sch'[s].row = "absent" => issued'[s] = 0
  BY <1>4, <1>5 DEF DuesInv
<1> QED  BY <1>2, <1>9, <1>15, <1>16, <1>17 DEF DuesInv

(* No due instant is claimed at the beginning.                              *)
LEMMA DuesInit == Init => DuesInv
<1> SUFFICES ASSUME Init PROVE DuesInv
  OBVIOUS
<1>1. \A c \in Claim : ~Issued(c)
  BY DEF Init, Issued, NoOccurrence
<1>2. \A w \in Worker : wk[w].tickAt = 0 /\ now = 0
  BY DEF Init, Process
<1>3. \A s \in Sched : issued[s] = 0 /\ (sch[s].enabled => sch[s].row = "live")
  BY DEF Init, NewGrant, NoRow
<1> QED  BY <1>1, <1>2, <1>3 DEF DuesInv

(* Every step keeps claimed instants behind the schedule's next one.        *)
LEMMA DuesStep == TypeInv /\ ClaimsInv /\ DuesInv /\ [Next]_vars => DuesInv'
<1> SUFFICES ASSUME TypeInv, ClaimsInv, DuesInv, [Next]_vars PROVE DuesInv'
  OBVIOUS
<1>0. TypeInv'
  BY TypeStep
<1>1. ASSUME NEW w \in Worker, ClaimDue(w) PROVE DuesInv'
  BY <1>0, <1>1, DuesClaimDue
<1>2. ASSUME \A w \in Worker : ~ClaimDue(w) PROVE DuesInv'
  <2>1. issued' = issued /\ snap' = snap
    BY <1>2, HistoryWriters
  <2>2. \A c \in Claim : Issued(c)' => Issued(c)
    BY <1>2, IssuedByClaimDue
  <2>3. \A s \in Sched : RowKept(sch[s], sch'[s], now)
    BY <1>2, RowsStep
  <2>4. now' >= now /\ \A w \in Worker : wk'[w].tickAt <= now'
    BY TimeStep
  <2>5. \A c \in Claim : c[1] \in Sched /\ c[2] > 0 /\ snap[c].due \in Nat
    BY StoreAssumption DEF Claim, TypeInv, TypeOK, Snapshot
  <2>6. \A s \in Sched : sch[s].due \in Nat /\ sch'[s].due \in Nat
    BY <1>0 DEF TypeInv, TypeOK, Row
  <2>7. now \in Nat /\ now' \in Nat
    BY <1>0 DEF TypeInv, TypeOK
  <2>8. ASSUME NEW c \in Claim, Issued(c)'
        PROVE  /\ snap'[c].due <= now'
               /\ sch'[c[1]].row = "live" => snap'[c].due < sch'[c[1]].due
    <3>1. /\ snap[c].due <= now
          /\ sch[c[1]].row = "live" => snap[c].due < sch[c[1]].due
      BY <2>2, <2>8 DEF DuesInv
    <3>2. sch[c[1]].row # "absent"
      BY <2>2, <2>5, <2>8 DEF DuesInv, ClaimsInv
    <3> QED  BY <2>1, <2>3, <2>4, <2>5, <2>6, <2>7, <3>1, <3>2 DEF RowKept
  <2>9. \A s \in Sched : /\ sch'[s].enabled => sch'[s].row = "live"
                         /\ sch'[s].row = "absent" => issued'[s] = 0
    BY <2>1, <2>3 DEF RowKept, DuesInv
  <2> QED  BY <2>1, <2>2, <2>4, <2>8, <2>9 DEF DuesInv
<1> QED  BY <1>1, <1>2

(* At most one claim per schedule and due instant, at most one run per      *)
(* claim: through any crashes, stalls, stops that time out, store failures, *)
(* audit failures and operator requests, with or without a sound lease.     *)
THEOREM Once == Spec => []OncePerOccurrence
<1> DEFINE Inv == TypeInv /\ ClaimsInv /\ DuesInv
<1>1. Init => Inv
  BY TypeInit, ClaimsInit, DuesInit
<1>2. Inv /\ [Next]_vars => Inv'
  BY TypeStep, ClaimsStep, DuesStep
<1>3. Inv => OncePerOccurrence
  BY DEF ClaimsInv, DuesInv, OncePerOccurrence
<1> QED  BY <1>1, <1>2, <1>3, PTL DEF Spec

-----------------------------------------------------------------------------
(* A job is created once, for a claim that never had one, and every other   *)
(* write to the jobs table asks whether the job is still running: so a      *)
(* status once terminal is final, whatever is opened, recovered or reported *)
(* late by whichever process.                                               *)
JobsInv ==
  /\ \A c \in Claim : c[2] > issued[c[1]] => job[c] = "none"
  /\ \A w \in Worker : InTick(w) => \A c \in wk[w].batch : job[c] = "none"

(* Who creates a job, and what the others may do to one.                    *)
LEMMA JobWriters ==
  ASSUME TypeInv, [Next]_vars
  PROVE  \/ \E v \in Worker : CreateJob(v)
         \/ \A c \in Claim : job[c] # "running" => job'[c] = job[c]
<1>0. job \in [Claim -> JobStatus]
  BY DEF TypeInv, TypeOK
<1>1. job' \in {job, JobsOpened}
        => \A c \in Claim : job[c] # "running" => job'[c] = job[c]
  BY DEF JobsOpened
<1>2. UNCHANGED vars \/ Tick \/ (\E s \in Sched : Operator(s)) => job' = job
  BY DEF vars, durable, Tick, Operator, Create, PauseGrant, ResumeGrant, RenewGrant,
         DeleteGrant, Edit
<1>3. ASSUME NEW v \in Worker,
             \/ Heartbeat(v) \/ OpenJobStore(v) \/ Failure(v) \/ Stopping(v)
             \/ \E x \in Sched \cup {Layer} : SetBrake(v, x)
      PROVE  job' \in {job, JobsOpened}
  BY <1>3 DEF Heartbeat, OpenJobStore, SetBrake, Failure, Crash, StoreErrorAborts,
              StoreErrorAfterRun, Stopping, StopRequest, StopJoined, StopTimeout,
              ThreadEnds, durable
<1>4. ASSUME NEW v \in Worker, Reconcile(v) \/ CloseJob(v)
      PROVE  \A c \in Claim : job[c] # "running" => job'[c] = job[c]
  BY <1>0, <1>4 DEF Reconcile, CloseJob, JobUpdated
<1>5. ASSUME NEW v \in Worker, Startup(v), ~Reconcile(v)
      PROVE  job' \in {job, JobsOpened}
  BY <1>5 DEF Startup, Start, RecoverBegin, RecoverOne, RecoverDone, durable
<1>6. ASSUME NEW v \in Worker, Loop(v), ~CloseJob(v), ~CreateJob(v)
      PROVE  job' = job
  BY <1>6 DEF Loop, TickBegin, ClaimDue, TickEnd, BindJob, Policy, Guard, Attempt,
              Propose, RunTool, Receipt, RecordExecuted, RecordReleased, DisableGrant,
              durable
<1> QED  BY <1>1, <1>2, <1>3, <1>4, <1>5, <1>6 DEF Next

(* Where nothing is claimed, nobody gets anything new in hand; running the  *)
(* tool leaves what is in hand there.                                       *)
LEMMA HandsKept ==
  ASSUME TypeInv, ClaimsInv, [Next]_vars, NEW u \in Worker,
         \A w \in Worker : ~ClaimDue(w)
  PROVE  HandKept(u) \/ wk'[u] = wk[u]
<1>1. ASSUME NEW w \in Worker, Loop(w), ~RunTool(w)
      PROVE  HandKept(u) \/ wk'[u] = wk[u]
  BY <1>1, LoopHands, LoopLocal
<1>2. ASSUME NEW w \in Worker, RunTool(w)
      PROVE  HandKept(u) \/ wk'[u] = wk[u]
  <2>1. wk \in [Worker -> ProcessState] /\ wk[w] \in ProcessState
    BY DEF TypeInv, TypeOK
  <2>2. HandSame(w)
    BY <1>2, <2>1 DEF RunTool, Goto, Conclude, ProcessState, InTick, Pending, HandSame
  <2> QED  BY <1>2, <2>2, SameIsKept, LoopLocal DEF Loop
<1>3. ASSUME NEW w \in Worker,
             \/ Startup(w) \/ Failure(w) \/ Stopping(w) \/ OpenJobStore(w)
             \/ \E x \in Sched \cup {Layer} : SetBrake(w, x)
      PROVE  HandKept(u) \/ wk'[u] = wk[u]
  BY <1>3, OtherHands
<1>4. Tick \/ (\E w \in Worker : Heartbeat(w)) \/ (\E s \in Sched : Operator(s)) => wk' = wk
  BY DEF Tick, Heartbeat, Operator, Create, PauseGrant, ResumeGrant, RenewGrant,
         DeleteGrant, Edit
<1>5. UNCHANGED vars => wk' = wk
  BY DEF vars
<1> QED  BY <1>1, <1>2, <1>3, <1>4, <1>5 DEF Next

(* A step that creates no job and takes nothing into hand.                  *)
LEMMA JobsKept ==
  ASSUME JobsInv, ClaimsInv, issued' = issued,
         \A c \in Claim : job[c] = "none" => job'[c] = "none",
         TypeInv,
         \A v \in Worker : HandKept(v) \/ wk'[v] = wk[v]
  PROVE  JobsInv'
<1>1. \A v \in Worker : InTick(v)' => InTick(v) /\ wk'[v].batch \subseteq wk[v].batch
  BY DEF HandKept, InTick
<1>2. \A v \in Worker : wk[v].batch \subseteq Claim
  BY DEF TypeInv, TypeOK, ProcessState
<1> QED  BY <1>1, <1>2 DEF JobsInv

(* The job created is that of a claim in hand, and of nobody else's.        *)
LEMMA JobsCreateJob ==
  ASSUME TypeInv, ClaimsInv, JobsInv, NEW w \in Worker, CreateJob(w)
  PROVE  /\ JobsInv'
         /\ \A c \in Claim : job[c] # "none" => job'[c] = job[c]
<1>0. /\ wk \in [Worker -> ProcessState] /\ wk[w] \in ProcessState
      /\ job \in [Claim -> JobStatus]
  BY DEF TypeInv, TypeOK
<1>1. PICK c \in wk[w].batch :
        /\ job' = [job EXCEPT ![c] = "running"]
        /\ wk' = [wk EXCEPT ![w].pc = "bind", ![w].cur = c, ![w].batch = @ \ {c}]
  BY DEF CreateJob
<1>2. c \in Claim /\ InTick(w) /\ c \in InHand(w)
  BY <1>0 DEF CreateJob, InTick, InHand, ProcessState
<1>3. job[c] = "none" /\ ~(c[2] > issued[c[1]])
  BY <1>2 DEF JobsInv, ClaimsInv
<1>4. issued' = issued
  BY DEF CreateJob
<1>5. /\ wk'[w].batch = wk[w].batch \ {c}
      /\ \A v \in Worker \ {w} : wk'[v] = wk[v]
  BY <1>0, <1>1 DEF ProcessState
<1>6. \A d \in Claim : d # c => job'[d] = job[d]
  BY <1>0, <1>1
<1>7. ASSUME NEW v \in Worker, InTick(v)', NEW d \in wk'[v].batch
      PROVE  job'[d] = "none"
  <2>1. InTick(v) /\ d \in wk[v].batch /\ d \in Claim
    BY <1>0, <1>2, <1>5, <1>7 DEF InTick, TypeInv, TypeOK, ProcessState
  <2>2. d # c
    <3>1. CASE v = w
      BY <1>5, <1>7, <3>1
    <3>2. CASE v # w
      BY <1>2, <2>1, <3>2 DEF ClaimsInv, InHand
    <3> QED  BY <3>1, <3>2
  <2> QED  BY <1>6, <2>1, <2>2 DEF JobsInv
<1>8. \A d \in Claim : d[2] > issued'[d[1]] => job'[d] = "none"
  BY <1>3, <1>4, <1>6 DEF JobsInv
<1> QED  BY <1>3, <1>6, <1>7, <1>8 DEF JobsInv

(* A new claim has no job.                                                  *)
LEMMA JobsClaimDue ==
  ASSUME TypeInv, ClaimsInv, JobsInv, NEW w \in Worker, ClaimDue(w)
  PROVE  JobsInv'
<1>0. /\ wk \in [Worker -> ProcessState] /\ wk[w] \in ProcessState
      /\ issued \in [Sched -> Nat]
  BY DEF TypeInv, TypeOK
<1>1. PICK B \in DueBatches(wk[w].tickAt) : ClaimBatch(w, B)
  BY DEF ClaimDue
<1> DEFINE new == {<<s, issued[s] + 1>> : s \in B \ Malformed}
<1>2. /\ wk'[w].batch = new
      /\ \A v \in Worker \ {w} : wk'[v] = wk[v]
      /\ job' = job
  BY <1>0, <1>1 DEF ClaimDue, ClaimBatch, ProcessState
<1>3. \A c \in new : c \in Claim /\ c[2] > issued[c[1]]
  BY <1>0, StoreAssumption DEF DueBatches, Claim
<1>4. \A c \in Claim : c[2] > issued'[c[1]] => c[2] > issued[c[1]]
  <2>1. \A s \in Sched : issued'[s] \in {issued[s], issued[s] + 1}
    BY <1>1 DEF ClaimBatch
  <2> QED  BY <1>0, <2>1, StoreAssumption DEF Claim
<1> HIDE DEF new
<1> QED  BY <1>2, <1>3, <1>4 DEF JobsInv, InTick

(* So every step leaves a terminal job alone, and the next one will too.    *)
LEMMA JobsStep ==
  ASSUME TypeInv, ClaimsInv, JobsInv, [Next]_vars
  PROVE  /\ JobsInv'
         /\ \A c \in Claim : job[c] \notin {"none", "running"} => job'[c] = job[c]
<1>1. ASSUME NEW w \in Worker, CreateJob(w)
      PROVE  /\ JobsInv'
             /\ \A c \in Claim : job[c] \notin {"none", "running"} => job'[c] = job[c]
  BY <1>1, JobsCreateJob
<1>2. ASSUME NEW w \in Worker, ClaimDue(w)
      PROVE  JobsInv' /\ job' = job
  <2>1. job' = job
    BY <1>2 DEF ClaimDue
  <2> QED  BY <1>2, <2>1, JobsClaimDue
<1>3. ASSUME \A w \in Worker : ~CreateJob(w) /\ ~ClaimDue(w)
      PROVE  /\ JobsInv'
             /\ \A c \in Claim : job[c] \notin {"none", "running"} => job'[c] = job[c]
  <2>1. \A c \in Claim : job[c] # "running" => job'[c] = job[c]
    BY <1>3, JobWriters
  <2>2. issued' = issued
    BY <1>3, HistoryWriters
  <2>3. \A v \in Worker : HandKept(v) \/ wk'[v] = wk[v]
    BY <1>3, HandsKept
  <2> QED  BY <2>1, <2>2, <2>3, JobsKept
<1> QED  BY <1>1, <1>2, <1>3

(* Terminal job states never change again.                                  *)
THEOREM TerminalIsFinal == Spec => TerminalJobsStay
<1> DEFINE Inv == TypeInv /\ ClaimsInv /\ JobsInv
           Step == \A c \in Claim : job[c] \notin {"none", "running"} => job'[c] = job[c]
<1>1. Init => Inv
  <2>1. Init => JobsInv
    BY DEF Init, JobsInv, InTick, Process
  <2> QED  BY <2>1, TypeInit, ClaimsInit
<1>2. Inv /\ [Next]_vars => Inv'
  BY TypeStep, ClaimsStep, JobsStep
<1>3. Inv /\ [Next]_vars => [Step]_vars
  BY JobsStep
<1> QED  BY <1>1, <1>2, <1>3, PTL DEF Spec, TerminalJobsStay

-----------------------------------------------------------------------------
(***************************************************************************)
(* The scheduler implements OccurrenceLedger: every claim is taken once,    *)
(* its write happens at most once while it is held, and it is settled once, *)
(* and given back only if the write did not and will not happen.            *)
(*                                                                          *)
(* Four faults can break this: a stalled heartbeat, a stop that times out,  *)
(* a tool that fails after its effect and an audit log that fails after it  *)
(* has run.  Crashes at any point and failures of the schedule store do     *)
(* not.  The argument: mutual exclusion protects what is in hand from       *)
(* recovery, and the attempt marker, written before the tool can run,       *)
(* protects what no hand holds any more.                                    *)
(***************************************************************************)

NoLostEvidence == {"stall", "stop_timeout", "late_error", "audit_error"} \cap Faults = {}

(* The claim in hand is not settled yet; its attempt marker is written.     *)
Held == {"bind", "policy", "guard", "attempt", "gate", "tool", "receipt", "record",
         "release"}

Marked == {"gate", "tool", "receipt", "record"}

EvidenceInv(w) ==
  InTick(w) => /\ \A c \in wk[w].batch : Unresolved(occ[c])
               /\ wk[w].pc \in Held => Unresolved(occ[wk[w].cur])
               /\ wk[w].pc \in Marked => wk[w].cur \in attempted
               /\ wk[w].pc = "release" => runs[wk[w].cur] = 0

LedgerInv ==
  /\ \A w \in Worker : EvidenceInv(w)
  /\ \A c \in Claim : runs[c] > 0 => c \in attempted
  /\ RefundedNeverRan

Invariants == TypeInv /\ LeaseInv /\ NoneAbandoned /\ ClaimsInv /\ LedgerInv

-----------------------------------------------------------------------------
(* Whoever works, works alone.                                              *)
LEMMA Alone ==
  ASSUME Invariants, NEW v \in Worker, NEW w \in Worker, v # w,
         InTick(v) \/ Recovering(v) \/ wk[v].pc = "claim"
  PROVE  ~InTick(w)
  BY DEF Invariants, LeaseInv, NoneAbandoned, Working

(* Attempt markers are never removed.                                       *)
LEMMA AttemptsStay == [Next]_vars => attempted \subseteq attempted'
<1> SUFFICES ASSUME [Next]_vars, attempted' # attempted PROVE attempted \subseteq attempted'
  OBVIOUS
<1>1. ~UNCHANGED vars /\ ~Tick
  BY DEF vars, durable, Tick
<1>2. ~\E s \in Sched : Operator(s)
  BY DEF Operator, Create, PauseGrant, ResumeGrant, RenewGrant, DeleteGrant, Edit
<1>3. ~\E v \in Worker : \/ Heartbeat(v) \/ OpenJobStore(v)
                         \/ \E x \in Sched \cup {Layer} : SetBrake(v, x)
  BY DEF Heartbeat, OpenJobStore, SetBrake
<1>4. ~\E v \in Worker : Failure(v) \/ Stopping(v)
  BY DEF Failure, Crash, StoreErrorAborts, StoreErrorAfterRun, Stopping, StopRequest,
         StopJoined, StopTimeout, ThreadEnds, durable
<1>5. ~\E v \in Worker : Startup(v)
  BY DEF Startup, Start, RecoverBegin, RecoverOne, Reconcile, RecoverDone, durable
<1>6. ASSUME NEW v \in Worker, Loop(v)
      PROVE  attempted \subseteq attempted'
  BY <1>6 DEF Loop, TickBegin, ClaimDue, CreateJob, TickEnd, BindJob, Policy, Guard,
              Attempt, Propose, RunTool, Receipt, RecordExecuted, RecordReleased,
              DisableGrant, CloseJob, durable
<1> QED  BY <1>1, <1>2, <1>3, <1>4, <1>5, <1>6 DEF Next

-----------------------------------------------------------------------------
(* A step of process w that settles nothing and runs nothing.               *)
EvidenceKept(w) ==
  InTick(w)' => /\ InTick(w)
                /\ wk'[w].batch \subseteq wk[w].batch
                /\ wk'[w].pc \in Held => Unresolved(occ[wk'[w].cur]) /\ wk'[w].cur \in Claim
                /\ wk'[w].pc \in Marked => wk'[w].cur \in attempted'
                /\ wk'[w].pc = "release" => runs[wk'[w].cur] = 0

(* A step that runs and settles nothing keeps the ledger invariant.         *)
LEMMA EvidenceStep ==
  ASSUME Invariants, [Next]_vars, NEW w \in Worker, EvidenceKept(w),
         \A v \in Worker \ {w} : wk'[v] = wk[v],
         runs' = runs,
         \A c \in Claim : occ'[c].status = occ[c].status
  PROVE  LedgerInv'
<1>1. attempted \subseteq attempted'
  BY AttemptsStay
<1>2. \A v \in Worker : InTick(v) =>
        wk[v].batch \subseteq Claim /\ (wk[v].pc \in Held => wk[v].cur \in Claim)
  BY DEF Invariants, TypeInv, TypeOK, ProcessState, HandsOK, HandOK, Executing, Held
<1>3. EvidenceInv(w)'
  BY <1>1, <1>2 DEF EvidenceKept, EvidenceInv, Invariants, LedgerInv, Unresolved
<1>4. ASSUME NEW v \in Worker \ {w} PROVE EvidenceInv(v)'
  <2>1. wk'[v] = wk[v] /\ EvidenceInv(v)
    BY DEF Invariants, LedgerInv
  <2>2. InTick(v)' = InTick(v)
    BY <2>1 DEF InTick
  <2> QED  BY <1>1, <1>2, <2>1, <2>2 DEF EvidenceInv, Unresolved, Held
<1>5. \A c \in Claim : runs'[c] > 0 => c \in attempted'
  BY <1>1 DEF Invariants, LedgerInv
<1>6. RefundedNeverRan'
  BY DEF Invariants, LedgerInv, RefundedNeverRan
<1> QED  BY <1>3, <1>4, <1>5, <1>6 DEF LedgerInv

(* Steps of the loop that settle nothing and run nothing.                   *)
LEMMA EvidenceLoop ==
  ASSUME NoLostEvidence, Invariants, NEW w \in Worker, Loop(w),
         ~ClaimDue(w), ~RunTool(w), ~RecordExecuted(w), ~RecordReleased(w)
  PROVE  EvidenceKept(w)
<1>0. /\ wk \in [Worker -> ProcessState] /\ wk[w] \in ProcessState /\ EvidenceInv(w)
      /\ wk[w].pc \in Executing => wk[w].cur \in Claim
      /\ HandInv(w)
  BY DEF Invariants, TypeInv, TypeOK, HandsOK, HandOK, LedgerInv, ClaimsInv
<1> USE DEF Goto, Conclude, InTick, Held, Marked, EvidenceKept, Executing
<1>1. CASE TickBegin(w)
  BY <1>0, <1>1 DEF TickBegin, ProcessState, EvidenceInv
<1>2. CASE TickEnd(w)
  BY <1>0, <1>2 DEF TickEnd, ProcessState, EvidenceInv
<1>3. CASE BindJob(w)
  BY <1>0, <1>3 DEF BindJob, ProcessState, EvidenceInv
<1>4. CASE Policy(w)
  BY <1>0, <1>4 DEF Policy, ProcessState, EvidenceInv, HandInv, Pending
<1>5. CASE Guard(w)
  BY <1>0, <1>5 DEF Guard, ProcessState, EvidenceInv, HandInv, Pending
<1>6. CASE Attempt(w)
  BY <1>0, <1>6 DEF Attempt, ProcessState, EvidenceInv
<1>7. CASE Propose(w)
  <2>1. /\ wk'[w].pc \in {"release", "tool"}
        /\ wk'[w].cur = wk[w].cur /\ wk'[w].batch = wk[w].batch
    BY <1>0, <1>7 DEF Propose, ProcessState
  <2>2. wk[w].pc = "gate" /\ attempted' = attempted
    BY <1>7 DEF Propose, durable
  <2> QED  BY <1>0, <2>1, <2>2 DEF EvidenceInv, HandInv, Pending
<1>8. CASE Receipt(w)
  BY <1>0, <1>8 DEF Receipt, ProcessState, EvidenceInv, NoLostEvidence
<1>9. CASE DisableGrant(w)
  BY <1>0, <1>9 DEF DisableGrant, ProcessState, EvidenceInv
<1>10. CASE CloseJob(w)
  BY <1>0, <1>10 DEF CloseJob, ProcessState, EvidenceInv
<1>11. CASE CreateJob(w)
  <2>1. PICK c \in wk[w].batch :
          wk' = [wk EXCEPT ![w].pc = "bind", ![w].cur = c, ![w].batch = @ \ {c}]
    BY <1>11 DEF CreateJob
  <2>2. /\ wk'[w].cur = c /\ wk'[w].batch = wk[w].batch \ {c} /\ wk'[w].pc = "bind"
        /\ wk[w].pc = "batch" /\ c \in Claim
    BY <1>0, <1>11, <2>1 DEF CreateJob, ProcessState
  <2> QED  BY <1>0, <2>2 DEF EvidenceInv
<1> QED
  BY <1>1, <1>2, <1>3, <1>4, <1>5, <1>6, <1>7,
     <1>8, <1>9, <1>10, <1>11 DEF Loop

(* Startup, failures, stops and the brake settle nothing in hand.           *)
LEMMA EvidenceOther ==
  ASSUME Invariants, NEW w \in Worker,
         \/ Startup(w) \/ Failure(w) \/ Stopping(w) \/ OpenJobStore(w)
         \/ \E x \in Sched \cup {Layer} : SetBrake(w, x)
  PROVE  EvidenceKept(w)
<1>0. /\ wk \in [Worker -> ProcessState] /\ wk[w] \in ProcessState /\ EvidenceInv(w)
      /\ wk[w].pc \in Executing => wk[w].cur \in Claim
  BY DEF Invariants, TypeInv, TypeOK, HandsOK, HandOK, LedgerInv
<1> USE DEF InTick, Held, Marked, EvidenceKept, EvidenceInv, Executing
<1>1. CASE Startup(w)
  <2>1. CASE Start(w)
    BY <1>0, <2>1 DEF Start, Process
  <2>2. CASE RecoverBegin(w)
    BY <1>0, <2>2 DEF RecoverBegin, Goto, ProcessState
  <2>3. CASE RecoverOne(w)
    BY <1>0, <2>3 DEF RecoverOne, ProcessState
  <2>4. CASE Reconcile(w)
    BY <1>0, <2>4 DEF Reconcile, ProcessState
  <2>5. CASE RecoverDone(w)
    BY <1>0, <2>5 DEF RecoverDone, ProcessState
  <2> QED  BY <1>1, <2>1, <2>2, <2>3, <2>4, <2>5 DEF Startup
<1>2. CASE Failure(w)
  <2>1. CASE Crash(w)
    BY <1>0, <2>1 DEF Crash, Process
  <2>2. CASE StoreErrorAborts(w)
    BY <1>0, <2>2 DEF StoreErrorAborts, Process, ProcessState
  <2>3. CASE StoreErrorAfterRun(w)
    BY <1>0, <2>3 DEF StoreErrorAfterRun, Conclude, ProcessState
  <2> QED  BY <1>2, <2>1, <2>2, <2>3 DEF Failure
<1>3. CASE Stopping(w)
  <2>1. \/ wk'[w].pc = "dead"
        \/ /\ wk'[w].pc = wk[w].pc /\ wk'[w].cur = wk[w].cur
           /\ wk'[w].batch = wk[w].batch
    BY <1>0, <1>3 DEF Stopping, StopRequest, StopJoined, StopTimeout, ThreadEnds,
                      Process, ProcessState
  <2>2. attempted' = attempted
    BY <1>3 DEF Stopping, StopRequest, StopJoined, StopTimeout, ThreadEnds, durable
  <2> QED  BY <1>0, <2>1, <2>2
<1>4. CASE OpenJobStore(w) \/ \E x \in Sched \cup {Layer} : SetBrake(w, x)
  <2>1. /\ wk'[w].pc = wk[w].pc /\ wk'[w].cur = wk[w].cur
        /\ wk'[w].batch = wk[w].batch
    BY <1>0, <1>4 DEF OpenJobStore, SetBrake, ProcessState
  <2>2. attempted' = attempted
    BY <1>4 DEF OpenJobStore, SetBrake
  <2> QED  BY <1>0, <2>1, <2>2
<1> QED  BY <1>1, <1>2, <1>3, <1>4

-----------------------------------------------------------------------------
(* Steps that take, run or settle.  Nobody else is in a tick meanwhile.     *)
LEMMA EvidenceOthersIdle ==
  ASSUME Invariants, NEW w \in Worker,
         InTick(w) \/ Recovering(w) \/ wk[w].pc = "claim",
         \A v \in Worker \ {w} : wk'[v] = wk[v]
  PROVE  \A v \in Worker \ {w} : EvidenceInv(v)'
<1>1. \A v \in Worker \ {w} : ~InTick(v)'
  BY Alone DEF InTick
<1> QED  BY <1>1 DEF EvidenceInv

(* New claims come unresolved, and have not run.                            *)
LEMMA EvidenceClaimDue ==
  ASSUME Invariants, NEW w \in Worker, ClaimDue(w)
  PROVE  LedgerInv'
<1>0. /\ wk \in [Worker -> ProcessState] /\ wk[w] \in ProcessState
      /\ occ \in [Claim -> Occurrence] /\ issued \in [Sched -> Nat]
  BY DEF Invariants, TypeInv, TypeOK
<1>1. PICK B \in DueBatches(wk[w].tickAt) : ClaimBatch(w, B)
  BY DEF ClaimDue
<1> DEFINE new == {<<s, issued[s] + 1>> : s \in B \ Malformed}
<1>2. /\ wk'[w].pc = "batch" /\ wk'[w].batch = new
      /\ \A v \in Worker \ {w} : wk'[v] = wk[v]
  BY <1>0, <1>1 DEF ClaimBatch, ProcessState
<1>3. new \in SUBSET Claim
  BY <1>0, StoreAssumption DEF DueBatches, Claim
<1>4. /\ \A c \in new : c \in Claim => Unresolved(occ[c])'
      /\ \A c \in Claim \ new : occ'[c] = occ[c]
  BY <1>1 DEF ClaimBatch, Unresolved
<1> HIDE DEF new
<1>5. EvidenceInv(w)'
  BY <1>2, <1>3, <1>4 DEF EvidenceInv, Held, Marked
<1>6. \A v \in Worker \ {w} : EvidenceInv(v)'
  BY <1>2, EvidenceOthersIdle DEF ClaimDue
<1>7. runs' = runs /\ attempted' = attempted
  BY DEF ClaimDue
<1>8. RefundedNeverRan'
  BY <1>4, <1>7 DEF Invariants, LedgerInv, RefundedNeverRan, Unresolved
<1> QED  BY <1>5, <1>6, <1>7, <1>8 DEF Invariants, LedgerInv

(* The tool runs only after its attempt marker.                             *)
LEMMA EvidenceRunTool ==
  ASSUME NoLostEvidence, Invariants, NEW w \in Worker, RunTool(w)
  PROVE  LedgerInv'
<1> DEFINE c == wk[w].cur
<1>0. /\ wk \in [Worker -> ProcessState] /\ wk[w] \in ProcessState
      /\ runs \in [Claim -> Nat] /\ c \in Claim /\ wk[w].pc = "tool" /\ InTick(w)
  BY DEF Invariants, TypeInv, TypeOK, HandsOK, HandOK, Executing, RunTool, InTick
<1>1. /\ \/ runs' = [runs EXCEPT ![c] = @ + 1] /\ wk'[w].pc = "receipt"
         \/ runs' = runs /\ wk'[w].pc = "release"
      /\ wk'[w].cur = c /\ wk'[w].batch = wk[w].batch
  BY <1>0 DEF RunTool, Goto, Conclude, ProcessState, NoLostEvidence
<1>2. occ' = occ /\ attempted' = attempted
  BY DEF RunTool, durable
<1>3. \A v \in Worker \ {w} : wk'[v] = wk[v]
  BY <1>0, LoopLocal DEF Loop, Invariants
<1>4. Unresolved(occ[c]) /\ c \in attempted /\ runs[c] = 0
  BY <1>0 DEF Invariants, LedgerInv, EvidenceInv, Held, Marked, ClaimsInv, HandInv, Pending
<1>5. \A d \in wk[w].batch : Unresolved(occ[d])
  BY <1>0 DEF Invariants, LedgerInv, EvidenceInv
<1> HIDE DEF c
<1>6. EvidenceInv(w)'
  BY <1>1, <1>2, <1>4, <1>5 DEF EvidenceInv, Held, Marked, Unresolved
<1>7. \A v \in Worker \ {w} : EvidenceInv(v)'
  BY <1>0, <1>3, EvidenceOthersIdle
<1>8. \A d \in Claim : runs'[d] > 0 => d \in attempted'
  BY <1>0, <1>1, <1>2, <1>4 DEF Invariants, LedgerInv
<1>9. RefundedNeverRan'
  BY <1>0, <1>1, <1>2, <1>4 DEF Invariants, LedgerInv, RefundedNeverRan, Unresolved
<1> QED  BY <1>6, <1>7, <1>8, <1>9 DEF LedgerInv

(* A result settles the claim in hand, given back only if it did not run.   *)
LEMMA EvidenceRecord ==
  ASSUME Invariants, NEW w \in Worker, RecordExecuted(w) \/ RecordReleased(w)
  PROVE  LedgerInv'
<1> DEFINE c == wk[w].cur
<1>0. /\ wk \in [Worker -> ProcessState] /\ wk[w] \in ProcessState
      /\ occ \in [Claim -> Occurrence] /\ c \in Claim /\ InTick(w)
      /\ c \notin wk[w].batch
  BY DEF Invariants, TypeInv, TypeOK, HandsOK, HandOK, Executing, RecordExecuted,
         RecordReleased, InTick, ClaimsInv, HandInv
<1>1. /\ wk'[w].pc \in {"close", "disable"}
      /\ wk'[w].cur = c /\ wk'[w].batch = wk[w].batch
  BY <1>0 DEF RecordExecuted, RecordReleased, Goto, Conclude, ProcessState
<1>2. /\ runs' = runs /\ attempted' = attempted
      /\ \A d \in Claim : d # c => occ'[d] = occ[d]
  BY <1>0 DEF RecordExecuted, RecordReleased, Resolve
<1>3. \A v \in Worker \ {w} : wk'[v] = wk[v]
  BY <1>0, LoopLocal DEF Loop, Invariants
<1>4. \/ occ'[c].status = "executed"
      \/ occ'[c].status = "released" /\ runs[c] = 0
  BY <1>0 DEF RecordExecuted, RecordReleased, Resolve, Invariants, LedgerInv, EvidenceInv,
              Held, Occurrence
<1>5. \A d \in wk[w].batch : Unresolved(occ[d]) /\ d \in Claim /\ d # c
  BY <1>0 DEF Invariants, LedgerInv, EvidenceInv, ProcessState
<1> HIDE DEF c
<1>6. EvidenceInv(w)'
  BY <1>1, <1>2, <1>5 DEF EvidenceInv, Held, Marked, Unresolved
<1>7. \A v \in Worker \ {w} : EvidenceInv(v)'
  BY <1>0, <1>3, EvidenceOthersIdle
<1>8. RefundedNeverRan'
  BY <1>2, <1>4 DEF Invariants, LedgerInv, RefundedNeverRan
<1> QED  BY <1>2, <1>6, <1>7, <1>8 DEF Invariants, LedgerInv

(* Recovery: what the audit says of the one row being recovered.            *)
LEMMA RecoverOutcome ==
  ASSUME Invariants, NEW w \in Worker, RecoverOne(w)
  PROVE  \/ occ' = occ
         \/ \E c \in Claim :
              /\ Unresolved(occ[c])
              /\ occ' = [occ EXCEPT ![c].status = Evidence(c)]
              /\ Evidence(c) \in {"executed", "unknown", "abandoned"}
              /\ c[1] \in Write /\ Evidence(c) = "abandoned" => runs[c] = 0
<1>0. /\ wk[w] \in ProcessState /\ runs \in [Claim -> Nat]
      /\ \A c \in Claim : runs[c] > 0 => c \in attempted
  BY DEF Invariants, TypeInv, TypeOK, LedgerInv
<1>1. PICK c \in wk[w].batch : occ' = IF Unresolved(occ[c]) THEN Resolve(c, Evidence(c)) ELSE occ
  BY DEF RecoverOne
<1>2. c \in Claim
  BY <1>0 DEF ProcessState
<1>3. Evidence(c) \in {"executed", "unknown", "abandoned"}
  BY DEF Evidence
<1>4. ASSUME c[1] \in Write, Evidence(c) = "abandoned" PROVE runs[c] = 0
  <2>1. c \notin attempted
    BY <1>4, StoreAssumption DEF Evidence
  <2> QED  BY <1>0, <1>2, <2>1
<1> QED  BY <1>1, <1>2, <1>3, <1>4 DEF Resolve

(* Recovery gives back a write only if no attempt was marked.               *)
LEMMA EvidenceRecover ==
  ASSUME Invariants, NEW w \in Worker, RecoverOne(w)
  PROVE  LedgerInv'
<1>0. occ \in [Claim -> Occurrence]
  BY DEF Invariants, TypeInv, TypeOK
<1>1. Recovering(w) /\ runs' = runs /\ attempted' = attempted
  BY DEF RecoverOne, Recovering
<1>2. \A v \in Worker \ {w} : wk'[v] = wk[v]
  BY StartupLocal DEF Startup, Invariants
<1>3. \A v \in Worker \ {w} : EvidenceInv(v)'
  BY <1>1, <1>2, EvidenceOthersIdle
<1>4. EvidenceInv(w)'
  <2>1. ~InTick(w)'
    BY DEF RecoverOne, ProcessState, InTick, Invariants, TypeInv, TypeOK
  <2> QED  BY <2>1 DEF EvidenceInv
<1>5. RefundedNeverRan'
  BY <1>0, <1>1, RecoverOutcome DEF Invariants, LedgerInv, RefundedNeverRan, Occurrence
<1> QED  BY <1>1, <1>3, <1>4, <1>5 DEF Invariants, LedgerInv

(* The steps that settle nothing and run nothing leave the ledger alone.    *)
Quiet ==
  /\ runs' = runs
  /\ \A c \in Claim : occ'[c].status = occ[c].status

Loud ==
  \E v \in Worker : \/ ClaimDue(v) \/ RunTool(v) \/ RecordExecuted(v)
                    \/ RecordReleased(v) \/ RecoverOne(v)

(* Whatever is not one of the steps above settles and runs nothing.         *)
LEMMA QuietOrLoud ==
  ASSUME TypeInv, [Next]_vars, ~Loud
  PROVE  Quiet
<1>1. runs' = runs
  BY HistoryWriters DEF Loud
<1>2. CASE occ' = occ
  BY <1>1, <1>2 DEF Quiet
<1>3. CASE occ' # occ
  <2>1. PICK v \in Worker : BindJob(v)
    BY <1>3, OccurrenceWriters DEF Loud
  <2>2. \A c \in Claim : occ'[c].status = occ[c].status
    BY <2>1 DEF BindJob, TypeInv, TypeOK, Occurrence
  <2> QED  BY <1>1, <2>2 DEF Quiet
<1> QED  BY <1>2, <1>3

(* Every step keeps the ledger invariant.                                   *)
LEMMA LedgerInvStep ==
  ASSUME NoLostEvidence
  PROVE  Invariants /\ [Next]_vars => LedgerInv'
<1> SUFFICES ASSUME Invariants, [Next]_vars PROVE LedgerInv'
  OBVIOUS
<1>1. CASE Loud
  BY <1>1, EvidenceClaimDue, EvidenceRunTool, EvidenceRecord, EvidenceRecover DEF Loud
<1>2. CASE ~Loud
  <2>1. Quiet
    BY <1>2, QuietOrLoud DEF Invariants
  <2>2. ASSUME NEW w \in Worker, EvidenceKept(w), \A v \in Worker \ {w} : wk'[v] = wk[v]
        PROVE  LedgerInv'
    BY <2>1, <2>2, EvidenceStep DEF Quiet
  <2>3. ASSUME NEW w \in Worker, Loop(w) PROVE LedgerInv'
    BY <1>2, <2>2, <2>3, EvidenceLoop, LoopLocal DEF Loud, Invariants
  <2>4. ASSUME NEW w \in Worker,
               \/ Startup(w) \/ Failure(w) \/ Stopping(w) \/ OpenJobStore(w)
               \/ \E x \in Sched \cup {Layer} : SetBrake(w, x)
        PROVE  LedgerInv'
    BY <2>2, <2>4, EvidenceOther, OtherHands DEF Invariants
  <2>5. CASE wk' = wk
    <3>1. attempted \subseteq attempted'
      BY AttemptsStay
    <3>2. \A v \in Worker : InTick(v) =>
            wk[v].batch \subseteq Claim /\ (wk[v].pc \in Held => wk[v].cur \in Claim)
      BY DEF Invariants, TypeInv, TypeOK, ProcessState, HandsOK, HandOK, Executing, Held
    <3>3. \A v \in Worker : EvidenceInv(v)'
      BY <2>1, <2>5, <3>1, <3>2 DEF Invariants, LedgerInv, EvidenceInv, Quiet, InTick,
         Unresolved, Held
    <3>4. RefundedNeverRan' /\ \A c \in Claim : runs'[c] > 0 => c \in attempted'
      BY <2>1, <3>1 DEF Invariants, LedgerInv, RefundedNeverRan, Quiet
    <3> QED  BY <3>3, <3>4 DEF LedgerInv
  <2>6. Tick \/ (\E w \in Worker : Heartbeat(w)) \/ (\E s \in Sched : Operator(s)) => wk' = wk
    BY DEF Tick, Heartbeat, Operator, Create, PauseGrant, ResumeGrant, RenewGrant,
           DeleteGrant, Edit
  <2>7. UNCHANGED vars => wk' = wk
    BY DEF vars
  <2> QED  BY <2>3, <2>4, <2>5, <2>6, <2>7 DEF Next
<1> QED  BY <1>1, <1>2

(* All invariants hold at the beginning.                                    *)
LEMMA InvariantsInit == Init => Invariants
<1> SUFFICES ASSUME Init PROVE Invariants
  OBVIOUS
<1>1. NoneAbandoned
  BY DEF Init, NoneAbandoned, Process
<1>2. LedgerInv
  BY DEF Init, LedgerInv, EvidenceInv, InTick, Process, RefundedNeverRan, NoOccurrence
<1> QED  BY <1>1, <1>2, TypeInit, LeaseInit, ClaimsInit DEF Invariants

(* All invariants are kept together.                                        *)
LEMMA InvariantsStep ==
  ASSUME NoLostEvidence
  PROVE  Invariants /\ [Next]_vars => Invariants'
<1>1. "stall" \notin Faults /\ "stop_timeout" \notin Faults
  BY DEF NoLostEvidence
<1> QED
  BY <1>1, TypeStep, LeaseStep, NoneAbandonedStep, ClaimsStep, LedgerInvStep DEF Invariants

(* A slot handed back belongs to a write that never happened: through any   *)
(* crash, recovery, store failure and operator request.                     *)
THEOREM RefundsAreHonest ==
  ASSUME NoLostEvidence
  PROVE  Spec => []RefundedNeverRan
<1>1. Init => Invariants
  BY InvariantsInit
<1>2. Invariants /\ [Next]_vars => Invariants'
  BY InvariantsStep
<1>3. Invariants => RefundedNeverRan
  BY DEF Invariants, LedgerInv
<1> QED  BY <1>1, <1>2, <1>3, PTL DEF Spec

-----------------------------------------------------------------------------
(* The refinement: initial states map to initial states, steps to steps.    *)
LEMMA LedgerInit == Init => Ledger!Init
  BY DEF Init, Ledger!Init, entryOf, writtenOf, NoOccurrence, Unresolved

(* What the refinement mapping says of a single occurrence.                 *)
LEMMA EntryOf ==
  ASSUME NEW c \in Claim
  PROVE  entryOf[c] = CASE occ[c].status = "none" -> "free"
                        [] Unresolved(occ[c]) -> "held"
                        [] occ[c].status \in {"executed", "unknown"} -> "spent"
                        [] OTHER -> "returned"
  BY DEF entryOf

(* A step that settles and runs nothing is a stutter of the ledger.         *)
LEMMA LedgerQuiet == Quiet => UNCHANGED <<entryOf, writtenOf>>
<1> SUFFICES ASSUME Quiet PROVE entryOf' = entryOf /\ writtenOf' = writtenOf
  OBVIOUS
<1>1. entryOf' = entryOf
  BY DEF Quiet, entryOf, Unresolved
<1>2. writtenOf' = writtenOf
  BY DEF Quiet, writtenOf
<1> QED  BY <1>1, <1>2

(* A claimed batch is taken from the ledger.                                *)
LEMMA LedgerClaimDue ==
  ASSUME Invariants, NEW w \in Worker, ClaimDue(w)
  PROVE  Ledger!Next
<1>0. issued \in [Sched -> Nat]
  BY DEF Invariants, TypeInv, TypeOK
<1>1. PICK B \in DueBatches(wk[w].tickAt) : ClaimBatch(w, B)
  BY DEF ClaimDue
<1> DEFINE new == {<<s, issued[s] + 1>> : s \in B \ Malformed}
<1>2. new \in SUBSET Claim
  BY <1>0, StoreAssumption DEF DueBatches, Claim
<1>3. \A c \in new : c[2] > issued[c[1]]
  BY <1>0 DEF DueBatches
<1>4. /\ \A c \in Claim : c \in new => Unresolved(occ[c])'
      /\ \A c \in Claim \ new : occ'[c] = occ[c]
  BY <1>1 DEF ClaimBatch, Unresolved
<1> HIDE DEF new
<1>5. \A c \in new : occ[c].status = "none"
  BY <1>2, <1>3 DEF Invariants, ClaimsInv, Issued
<1>6. \A c \in new : entryOf[c] = "free"
  BY <1>2, <1>5 DEF entryOf, Unresolved
<1>7. entryOf' = [c \in Claim |-> IF c \in new THEN "held" ELSE entryOf[c]]
  BY <1>4 DEF entryOf, Unresolved
<1>8. writtenOf' = writtenOf
  BY DEF ClaimDue, writtenOf
<1>9. Ledger!Take(new)
  BY <1>6, <1>7, <1>8 DEF Ledger!Take
<1> QED  BY <1>2, <1>9 DEF Ledger!Next

(* A write that runs is the one write of its entry; a read is a stutter.    *)
LEMMA LedgerRunTool ==
  ASSUME NoLostEvidence, Invariants, NEW w \in Worker, RunTool(w)
  PROVE  Ledger!Next \/ UNCHANGED <<entryOf, writtenOf>>
<1> DEFINE c == wk[w].cur
<1>0. /\ runs \in [Claim -> Nat] /\ c \in Claim /\ Unresolved(occ[c]) /\ runs[c] = 0
  BY DEF Invariants, TypeInv, TypeOK, HandsOK, HandOK, Executing, RunTool, InTick,
         LedgerInv, EvidenceInv, Held, ClaimsInv, HandInv, Pending
<1>1. occ' = occ /\ (runs' = runs \/ runs' = [runs EXCEPT ![c] = @ + 1])
  BY DEF RunTool, durable
<1> HIDE DEF c
<1>2. entryOf' = entryOf /\ entryOf[c] = "held" /\ writtenOf[c] = 0
  BY <1>0, <1>1 DEF entryOf, writtenOf, Unresolved
<1>3. CASE runs' = runs \/ c[1] \notin Write
  <2>1. writtenOf' = writtenOf
    BY <1>0, <1>1, <1>3 DEF writtenOf
  <2> QED  BY <1>2, <2>1
<1>4. CASE runs' = [runs EXCEPT ![c] = @ + 1] /\ c[1] \in Write
  <2>1. writtenOf' = [writtenOf EXCEPT ![c] = 1]
    <3>1. runs'[c] = 1 /\ \A d \in Claim \ {c} : runs'[d] = runs[d]
      BY <1>0, <1>4
    <3> QED  BY <1>4, <3>1 DEF writtenOf
  <2>2. Ledger!WriteOnce(c)
    BY <1>2, <2>1 DEF Ledger!WriteOnce
  <2> QED  BY <1>0, <2>2 DEF Ledger!Next
<1> QED  BY <1>1, <1>3, <1>4

(* Settling one claim that is held: spent, or given back unwritten.         *)
LEMMA LedgerSettle ==
  ASSUME TypeInv, NEW c \in Claim, Unresolved(occ[c]), runs' = runs,
         NEW status \in {"executed", "unknown", "released", "abandoned"},
         occ' = [occ EXCEPT ![c].status = status],
         c[1] \in Write /\ status \in {"released", "abandoned"} => runs[c] = 0
  PROVE  Ledger!Next
<1>0. occ \in [Claim -> Occurrence]
  BY DEF TypeInv, TypeOK
<1>1. occ'[c].status = status /\ \A d \in Claim \ {c} : occ'[d] = occ[d]
  BY <1>0 DEF Occurrence
<1>2. entryOf[c] = "held" /\ writtenOf' = writtenOf
  BY DEF entryOf, writtenOf, Unresolved
<1>3. CASE status \in {"executed", "unknown"}
  <2>1. entryOf' = [entryOf EXCEPT ![c] = "spent"]
    BY <1>1, <1>3 DEF entryOf, Unresolved
  <2> QED  BY <1>2, <2>1 DEF Ledger!Next, Ledger!Spend
<1>4. CASE status \in {"released", "abandoned"}
  <2>1. entryOf' = [entryOf EXCEPT ![c] = "returned"]
    BY <1>1, <1>4 DEF entryOf, Unresolved
  <2>2. writtenOf[c] = 0
    BY <1>4 DEF writtenOf
  <2> QED  BY <1>2, <2>1, <2>2 DEF Ledger!Next, Ledger!GiveBack
<1> QED  BY <1>3, <1>4

(* A result spends the entry or gives it back.                              *)
LEMMA LedgerRecord ==
  ASSUME Invariants, NEW w \in Worker, RecordExecuted(w) \/ RecordReleased(w)
  PROVE  Ledger!Next
<1> DEFINE c == wk[w].cur
<1>0. /\ c \in Claim /\ Unresolved(occ[c]) /\ TypeInv
      /\ RecordReleased(w) => runs[c] = 0
  BY DEF Invariants, TypeInv, HandsOK, HandOK, Executing, RecordExecuted,
         RecordReleased, InTick, LedgerInv, EvidenceInv, Held
<1>1. /\ runs' = runs
      /\ \/ occ' = [occ EXCEPT ![c].status = "executed"]
         \/ occ' = [occ EXCEPT ![c].status = "released"] /\ runs[c] = 0
  BY <1>0 DEF RecordExecuted, RecordReleased, Resolve
<1> QED  BY <1>0, <1>1, LedgerSettle

(* Every step of the scheduler is a step of the ledger, or a stutter.       *)
LEMMA LedgerStep ==
  ASSUME NoLostEvidence
  PROVE  Invariants /\ [Next]_vars => [Ledger!Next]_<<entryOf, writtenOf>>
<1> SUFFICES ASSUME Invariants, [Next]_vars
             PROVE  Ledger!Next \/ UNCHANGED <<entryOf, writtenOf>>
  OBVIOUS
<1>1. ASSUME NEW w \in Worker, RecoverOne(w)
      PROVE  Ledger!Next \/ UNCHANGED <<entryOf, writtenOf>>
  <2>1. runs' = runs
    BY <1>1 DEF RecoverOne
  <2>2. CASE occ' = occ
    BY <2>1, <2>2 DEF entryOf, writtenOf
  <2>3. CASE occ' # occ
    BY <1>1, <2>1, <2>3, RecoverOutcome, LedgerSettle DEF Invariants
  <2> QED  BY <2>2, <2>3
<1>2. CASE ~Loud
  BY <1>2, QuietOrLoud, LedgerQuiet DEF Invariants
<1> QED
  BY <1>1, <1>2, LedgerClaimDue, LedgerRunTool, LedgerRecord DEF Loud

(* The scheduler implements the ledger of occurrences.                      *)
THEOREM LedgerImplemented ==
  ASSUME NoLostEvidence
  PROVE  Spec => ImplementsLedger
<1>1. Init => Invariants /\ Ledger!Init
  BY InvariantsInit, LedgerInit
<1>2. Invariants /\ [Next]_vars => Invariants'
  BY InvariantsStep
<1>3. Invariants /\ [Next]_vars => [Ledger!Next]_(Ledger!lvars)
  BY LedgerStep DEF Ledger!lvars
<1> QED  BY <1>1, <1>2, <1>3, PTL DEF Spec, ImplementsLedger, Ledger!Spec

=============================================================================
