---------------------------- MODULE MediaExecutor ----------------------------
(***************************************************************************)
(* Image generation: the job table (image_job_store.py), one executor       *)
(* process per GPU (media_executor.py), the GPU and executor locks          *)
(* (gpu_lease.py), the gallery files and their index                        *)
(* (media_gallery_store.py, media_gallery_index_writer.py), and the         *)
(* supervisor that starts the executors (modelrig-supervisor).              *)
(*                                                                          *)
(* A process lives once, so it is also its instance id.  One action is one  *)
(* SQLite transaction, one file operation or one stretch of GPU work of one *)
(* process; processes, owners and the supervisor interleave between them.   *)
(* Time is not modelled: waits and back-offs end at some later step.        *)
(***************************************************************************)
EXTENDS Integers, FiniteSets

CONSTANTS
  Job,              \* 1..n; a job's number is its place in creation order
  Gpu,
  Profile,
  Process,          \* executor processes, over the whole run
  NoProcess,
  NoModel,
  GpuOf,            \* the GPU a process is started for
  Serves,           \* the profiles enabled for a GPU
  ProfileOf,        \* what a job asks for
  OwnerOf,          \* who submitted a job
  MaxQueued,        \* submit's limits
  MaxOwnerActive,
  MaxWaits,         \* VRAM_MAX_WAIT_S, in deferrals
  Faults,           \* which faults a run explores
  MaxFaults         \* bound: faults together

ASSUME MediaAssumption ==
  /\ Job \subseteq Nat \ {0}
  /\ NoProcess \notin Process /\ NoModel \notin Profile
  /\ GpuOf \in [Process -> Gpu] /\ Serves \in [Gpu -> SUBSET Profile]
  /\ ProfileOf \in [Job -> Profile]
  /\ MaxQueued \in Nat /\ MaxOwnerActive \in Nat /\ MaxWaits \in Nat
  /\ MaxFaults \in Nat

VARIABLES
  state, claimed_by, cancel_requested, deferred, error,  \* table image_jobs
  file, index, indexLock,      \* the media volume: assets, index, its lock file
  execLock, lease,             \* each GPU's executor lock and main lease
  pc, cur, model, stuck, seen, why,                     \* executor processes
  child, held,                 \* the supervisor's child of a GPU; given up on
  faults                       \* history: faults so far

table == <<state, claimed_by, cancel_requested, deferred, error>>
volume == <<file, index, indexLock>>
locks == <<execLock, lease>>
process == <<pc, cur, model, stuck, seen, why>>
supervisor == <<child, held>>
vars == <<table, volume, locks, process, supervisor, faults>>

-----------------------------------------------------------------------------
Active == {"queued", "running", "publishing"}
Finished == {"completed", "failed", "cancelled"}
States == {"none"} \cup Active \cup Finished

(* Stored errors are fixed codes; "not_rendered" stands for the four codes  *)
(* of a job that failed before the commit point with its GPU memory free.   *)
Errors == {"none", "not_rendered", "publication_failed", "gpu_retained",
           "interrupted", "interrupted_publication"}

(* Exit codes 70, 73, 75, 76; "crash" is any other end of the process.      *)
Codes == {"none", "gpu_retained", "duplicate", "sink", "unrecorded", "crash"}

(* Where a process is: before which transaction or file operation.          *)
Working == {"adapter", "render", "commit", "fail", "cancel", "defer"}
Committed == {"publish", "register", "index", "unlock", "complete", "fail"}
Holding == {"recover", "idle", "unload"} \cup Working \cup Committed
Places == {"new", "start", "exit", "gone"} \cup Holding

TypeOK ==
  /\ state \in [Job -> States]
  /\ claimed_by \in [Job -> Process \cup {NoProcess}]
  /\ cancel_requested \in [Job -> BOOLEAN]
  /\ deferred \in [Job -> 0..MaxWaits]
  /\ error \in [Job -> Errors]
  /\ file \in [Job -> BOOLEAN] /\ index \in SUBSET Job
  /\ indexLock \in Process \cup {NoProcess}
  /\ execLock \in [Gpu -> Process \cup {NoProcess}]
  /\ lease \in [Gpu -> Process \cup {NoProcess}]
  /\ pc \in [Process -> Places]
  /\ cur \in [Process -> Job \cup {0}]
  /\ model \in [Process -> Profile \cup {NoModel}]
  /\ stuck \in [Process -> BOOLEAN]
  /\ seen \in [Process -> SUBSET Job]
  /\ why \in [Process -> Codes \cup Errors]
  /\ child \in [Gpu -> Process \cup {NoProcess}]
  /\ held \in [Gpu -> BOOLEAN]
  /\ faults \in 0..MaxFaults

Init ==
  /\ state = [j \in Job |-> "none"]
  /\ claimed_by = [j \in Job |-> NoProcess]
  /\ cancel_requested = [j \in Job |-> FALSE]
  /\ deferred = [j \in Job |-> 0]
  /\ error = [j \in Job |-> "none"]
  /\ file = [j \in Job |-> FALSE] /\ index = {} /\ indexLock = NoProcess
  /\ execLock = [g \in Gpu |-> NoProcess]
  /\ lease = [g \in Gpu |-> NoProcess]
  /\ pc = [p \in Process |-> "new"]
  /\ cur = [p \in Process |-> 0]
  /\ model = [p \in Process |-> NoModel]
  /\ stuck = [p \in Process |-> FALSE]
  /\ seen = [p \in Process |-> {}]
  /\ why = [p \in Process |-> "none"]
  /\ child = [g \in Gpu |-> NoProcess]
  /\ held = [g \in Gpu |-> FALSE]
  /\ faults = 0

Fault(kind) ==
  /\ kind \in Faults
  /\ faults < MaxFaults
  /\ faults' = faults + 1

Goto(p, place) == pc' = [pc EXCEPT ![p] = place]

-----------------------------------------------------------------------------
(***************************************************************************)
(* The owner, through the API worker (image_job_store.py).                  *)
(***************************************************************************)
Queued == {j \in Job : state[j] = "queued"}
ActiveOf(o) == {j \in Job : OwnerOf[j] = o /\ state[j] \in Active}

Submit(j) ==
  /\ state[j] = "none"
  /\ \A k \in Job : k < j => state[k] # "none"
  /\ Cardinality(Queued) < MaxQueued
  /\ Cardinality(ActiveOf(OwnerOf[j])) < MaxOwnerActive
  /\ state' = [state EXCEPT ![j] = "queued"]
  /\ UNCHANGED <<claimed_by, cancel_requested, deferred, error, volume, locks, process, supervisor, faults>>

\* request_cancel: "cancelled", "requested", or too late and nothing changes.
RequestCancel(j) ==
  /\ \/ /\ state[j] = "queued"
        /\ state' = [state EXCEPT ![j] = "cancelled"]
        /\ UNCHANGED cancel_requested
     \/ /\ state[j] = "running"
        /\ cancel_requested' = [cancel_requested EXCEPT ![j] = TRUE]
        /\ UNCHANGED state
  /\ UNCHANGED <<claimed_by, deferred, error, volume, locks, process, supervisor, faults>>

-----------------------------------------------------------------------------
(***************************************************************************)
(* Executor: lock, then recovery, then jobs.                                *)
(***************************************************************************)
Free(lock, g, p) == [lock EXCEPT ![g] = IF @ = p THEN NoProcess ELSE @]

\* run() returns: the executor lock is released, the GPU lease is not.
Return(p, exit) ==
  /\ Goto(p, "exit")
  /\ why' = [why EXCEPT ![p] = exit]
  /\ execLock' = Free(execLock, GpuOf[p], p)
  /\ UNCHANGED <<cur, model, stuck, seen, lease>>

AcquireExecutorLock(p) ==
  /\ pc[p] = "start"
  /\ \/ /\ execLock[GpuOf[p]] = NoProcess
        /\ execLock' = [execLock EXCEPT ![GpuOf[p]] = p]
        /\ Goto(p, "recover")
        /\ UNCHANGED <<cur, model, stuck, seen, why, lease>>
     \/ execLock[GpuOf[p]] # NoProcess /\ Return(p, "duplicate")
  /\ UNCHANGED <<table, volume, supervisor, faults>>

\* Mutant: the claimed_by prefix is not compared, every GPU's claims are orphans.
OrphansOfAnyGpu(p, at) ==
  {j \in Job : state[j] = at /\ claimed_by[j] \in Process \ {p}}

\* The claims of this GPU's other instances: whoever made them is dead.
Orphans(p, at) ==
  {j \in Job : /\ state[j] = at
               /\ claimed_by[j] \in Process \ {p}
               /\ GpuOf[claimed_by[j]] = GpuOf[p]}

\* Mutant: publishing rows are left to the reconciliation.
RecoverRunningOnly(p) ==
  /\ pc[p] = "recover"
  /\ state' = [j \in Job |-> IF j \in Orphans(p, "running") THEN "failed" ELSE state[j]]
  /\ error' = [j \in Job |-> IF j \in Orphans(p, "running") THEN "interrupted" ELSE error[j]]
  /\ Goto(p, "idle")
  /\ UNCHANGED <<claimed_by, cancel_requested, deferred, volume, locks, cur, model, stuck, seen, why,
                 supervisor, faults>>

\* Mutant: an interrupted job is tried again.
RecoverRequeues(p) ==
  /\ pc[p] = "recover"
  /\ LET run == Orphans(p, "running")
         pub == Orphans(p, "publishing")
     IN  /\ state' = [j \in Job |-> IF j \in run THEN "queued"
                                    ELSE IF j \in pub THEN "failed" ELSE state[j]]
         /\ error' = [j \in Job |-> IF j \in pub THEN "interrupted_publication" ELSE error[j]]
  /\ Goto(p, "idle")
  /\ UNCHANGED <<claimed_by, cancel_requested, deferred, volume, locks, cur, model, stuck, seen, why,
                 supervisor, faults>>

RecoverGpu(p) ==
  /\ pc[p] = "recover"
  /\ LET run == Orphans(p, "running")
         pub == Orphans(p, "publishing")
     IN  /\ state' = [j \in Job |-> IF j \in run \cup pub THEN "failed" ELSE state[j]]
         /\ error' = [j \in Job |-> IF j \in run THEN "interrupted"
                                    ELSE IF j \in pub THEN "interrupted_publication" ELSE error[j]]
  /\ Goto(p, "idle")
  /\ UNCHANGED <<claimed_by, cancel_requested, deferred, volume, locks, cur, model, stuck, seen, why,
                 supervisor, faults>>

Servable(p) == {j \in Queued : ProfileOf[j] \in Serves[GpuOf[p]]}

ClaimFor(p) ==
  /\ pc[p] = "idle"
  /\ \E j \in Servable(p) :
       /\ \A k \in Servable(p) : j <= k
       /\ state' = [state EXCEPT ![j] = "running"]
       /\ claimed_by' = [claimed_by EXCEPT ![j] = p]
       /\ cur' = [cur EXCEPT ![p] = j]
  /\ Goto(p, "adapter")
  /\ UNCHANGED <<cancel_requested, deferred, error, volume, locks, model, stuck, seen, why, supervisor, faults>>

\* maybe_unload_idle, or needs_restart after a job.
UnloadIdle(p) ==
  /\ pc[p] = "idle" /\ model[p] # NoModel
  /\ Goto(p, "unload")
  /\ UNCHANGED <<table, volume, locks, cur, model, stuck, seen, why, supervisor, faults>>

\* _unload with close() = True: the memory is proven free and the lease released.
Unloaded(p) ==
  /\ model' = [model EXCEPT ![p] = NoModel]
  /\ lease' = Free(lease, GpuOf[p], p)

\* Mutant: close() frees the lease although the memory was not proven free.
UnloadFreesLease(p) ==
  /\ pc[p] = "unload"
  /\ \/ /\ IF model[p] # NoModel THEN Unloaded(p) ELSE UNCHANGED <<model, lease>>
        /\ Goto(p, "idle")
        /\ UNCHANGED <<cur, stuck, seen, why, execLock, faults>>
     \/ /\ Unloaded(p) /\ Fault("retained")
        /\ stuck' = [stuck EXCEPT ![p] = TRUE]
        /\ Goto(p, "exit") /\ why' = [why EXCEPT ![p] = "gpu_retained"]
        /\ execLock' = Free(execLock, GpuOf[p], p)
        /\ UNCHANGED <<cur, seen>>
  /\ UNCHANGED <<table, volume, supervisor>>

Unload(p) ==
  /\ pc[p] = "unload"
  /\ \/ /\ IF model[p] # NoModel THEN Unloaded(p) ELSE UNCHANGED <<model, lease>>
        /\ Goto(p, "idle")
        /\ UNCHANGED <<cur, stuck, seen, why, execLock, faults>>
     \/ /\ model[p] # NoModel /\ Fault("retained")
        /\ stuck' = [stuck EXCEPT ![p] = TRUE]
        /\ model' = [model EXCEPT ![p] = NoModel]
        /\ Goto(p, "exit") /\ why' = [why EXCEPT ![p] = "gpu_retained"]
        /\ execLock' = Free(execLock, GpuOf[p], p)
        /\ UNCHANGED <<cur, seen, lease>>
  /\ UNCHANGED <<table, volume, supervisor>>

-----------------------------------------------------------------------------
(***************************************************************************)
(* One job: _adapter_for, render, begin_publish.                            *)
(***************************************************************************)
Fails(p, reason) == Goto(p, "fail") /\ why' = [why EXCEPT ![p] = reason]

\* Whether the parameters pass validate_request is left open.
Reject(p) ==
  /\ pc[p] = "adapter"
  /\ Fails(p, "not_rendered")
  /\ UNCHANGED <<table, volume, locks, cur, model, stuck, seen, supervisor, faults>>

Wanted(p) == ProfileOf[cur[p]]

\* Memory not proven free: the adapter is kept and the lease held until the process ends.
Retain(p) ==
  /\ stuck' = [stuck EXCEPT ![p] = TRUE]
  /\ model' = [model EXCEPT ![p] = NoModel]
  /\ Fails(p, "gpu_retained")
  /\ Fault("retained")

SwitchModel(p) ==
  /\ pc[p] = "adapter"
  /\ model[p] \notin {NoModel, Wanted(p)}
  /\ \/ Unloaded(p) /\ UNCHANGED <<pc, stuck, why, faults>>
     \/ Retain(p) /\ UNCHANGED lease
  /\ UNCHANGED <<table, volume, execLock, cur, seen, supervisor>>

Resident(p) ==
  /\ pc[p] = "adapter"
  /\ model[p] = Wanted(p)
  /\ Goto(p, "render")
  /\ UNCHANGED <<table, volume, locks, cur, model, stuck, seen, why, supervisor, faults>>

\* The lease is taken for the load; a load that fails returns it only with proof.
Load(p) ==
  /\ pc[p] = "adapter"
  /\ model[p] = NoModel
  /\ LET g == GpuOf[p] IN
     IF lease[g] # NoProcess
     THEN Fails(p, "not_rendered") /\ UNCHANGED <<model, stuck, lease, faults>>
     ELSE \/ /\ model' = [model EXCEPT ![p] = Wanted(p)]
             /\ lease' = [lease EXCEPT ![g] = p]
             /\ Goto(p, "render")
             /\ UNCHANGED <<stuck, why, faults>>
          \/ Goto(p, "defer") /\ UNCHANGED <<model, stuck, lease, why, faults>>
          \/ Fails(p, "not_rendered") /\ UNCHANGED <<model, stuck, lease, faults>>
          \/ Retain(p) /\ lease' = [lease EXCEPT ![g] = p]
  /\ UNCHANGED <<table, volume, execLock, cur, seen, supervisor>>

\* A cancellation is seen if it is there when the adapter polls; the render may also end between polls.
Render(p) ==
  /\ pc[p] = "render"
  /\ \/ Goto(p, "commit") /\ UNCHANGED why
     \/ cancel_requested[cur[p]] /\ Goto(p, "cancel") /\ UNCHANGED why
     \/ Goto(p, "defer") /\ UNCHANGED why
     \/ Fails(p, "not_rendered")
  /\ UNCHANGED <<table, volume, locks, cur, model, stuck, seen, supervisor, faults>>

Mine(p, states) == state[cur[p]] \in states /\ claimed_by[cur[p]] = p

Set(j, s) == state' = [state EXCEPT ![j] = s]

\* Mutant: the commit point does not look at cancel_requested.
BeginPublishUnchecked(p) ==
  /\ pc[p] = "commit"
  /\ IF Mine(p, {"running"})
     THEN Set(cur[p], "publishing") /\ Goto(p, "publish")
     ELSE Goto(p, "cancel") /\ UNCHANGED state
  /\ UNCHANGED <<claimed_by, cancel_requested, deferred, error, volume, locks, cur, model, stuck, seen, why,
                 supervisor, faults>>

\* The commit point: the publication starts only if no cancellation was requested.
BeginPublish(p) ==
  /\ pc[p] = "commit"
  /\ IF Mine(p, {"running"}) /\ ~cancel_requested[cur[p]]
     THEN Set(cur[p], "publishing") /\ Goto(p, "publish")
     ELSE Goto(p, "cancel") /\ UNCHANGED state
  /\ UNCHANGED <<claimed_by, cancel_requested, deferred, error, volume, locks, cur, model, stuck, seen, why,
                 supervisor, faults>>

-----------------------------------------------------------------------------
(***************************************************************************)
(* Publication: the asset is linked under a name derived from the job, then *)
(* the index is read and replaced under a lock file nobody steals.          *)
(***************************************************************************)
Publish(p) ==
  /\ pc[p] = "publish"
  /\ file' = [file EXCEPT ![cur[p]] = TRUE]
  /\ Goto(p, "register")
  /\ UNCHANGED <<table, index, indexLock, locks, cur, model, stuck, seen, why, supervisor, faults>>

\* Mutant: the index lock file is taken over.
RegisterSteals(p) ==
  /\ pc[p] = "register"
  /\ indexLock' = p
  /\ seen' = [seen EXCEPT ![p] = index]
  /\ Goto(p, "index")
  /\ UNCHANGED <<table, file, index, locks, cur, model, stuck, why, supervisor, faults>>

RegisterAsset(p) ==
  /\ pc[p] = "register"
  /\ IF indexLock # NoProcess
     THEN Fails(p, "publication_failed") /\ UNCHANGED <<indexLock, seen>>
     ELSE /\ indexLock' = p
          /\ seen' = [seen EXCEPT ![p] = index]
          /\ Goto(p, "index")
          /\ UNCHANGED why
  /\ UNCHANGED <<table, file, index, locks, cur, model, stuck, supervisor, faults>>

ReplaceIndex(p) ==
  /\ pc[p] = "index"
  /\ index' = seen[p] \cup {cur[p]}
  /\ seen' = [seen EXCEPT ![p] = {}]
  /\ Goto(p, "unlock")
  /\ UNCHANGED <<table, file, indexLock, locks, cur, model, stuck, why, supervisor, faults>>

UnlockIndex(p) ==
  /\ pc[p] = "unlock"
  /\ indexLock' = NoProcess
  /\ Goto(p, "complete")
  /\ UNCHANGED <<table, file, index, locks, cur, model, stuck, seen, why, supervisor, faults>>

-----------------------------------------------------------------------------
(***************************************************************************)
(* The end of a job: each is one guarded UPDATE of the row.                 *)
(***************************************************************************)
\* The executor has no job; a model that needs a restart is unloaded by UnloadIdle.
NextJob(p) ==
  /\ Goto(p, "idle")
  /\ cur' = [cur EXCEPT ![p] = 0]
  /\ why' = [why EXCEPT ![p] = "none"]

Complete(p) ==
  /\ pc[p] = "complete"
  /\ IF Mine(p, {"publishing"})
     THEN Set(cur[p], "completed") /\ NextJob(p) /\ UNCHANGED <<locks, model, stuck, seen>>
     ELSE Return(p, "unrecorded") /\ UNCHANGED state
  /\ UNCHANGED <<claimed_by, cancel_requested, deferred, error, volume, supervisor, faults>>

FailJob(p) ==
  /\ pc[p] = "fail"
  /\ IF Mine(p, {"running", "publishing"})
     THEN Set(cur[p], "failed") /\ error' = [error EXCEPT ![cur[p]] = why[p]]
     ELSE UNCHANGED <<state, error>>
  /\ IF why[p] = "gpu_retained"
     THEN Return(p, "gpu_retained")
     ELSE NextJob(p) /\ UNCHANGED <<locks, model, stuck, seen>>
  /\ UNCHANGED <<claimed_by, cancel_requested, deferred, volume, supervisor, faults>>

FinishCancelled(p) ==
  /\ pc[p] = "cancel"
  /\ IF Mine(p, {"running"}) THEN Set(cur[p], "cancelled") ELSE UNCHANGED state
  /\ NextJob(p)
  /\ UNCHANGED <<claimed_by, cancel_requested, deferred, error, volume, locks, model, stuck, seen, supervisor, faults>>

\* Mutant: every deferral restarts the wait.
DeferResets(p) ==
  /\ pc[p] = "defer"
  /\ LET j == cur[p] IN
     IF cancel_requested[j] THEN Set(j, "cancelled") /\ UNCHANGED claimed_by
     ELSE Set(j, "queued") /\ claimed_by' = [claimed_by EXCEPT ![j] = NoProcess]
  /\ Goto(p, "unload")
  /\ cur' = [cur EXCEPT ![p] = 0]
  /\ UNCHANGED <<cancel_requested, deferred, error, volume, locks, model, stuck, seen, why, supervisor, faults>>

\* Mutant: one deferral too many.
DeferOnceMore(p) ==
  /\ pc[p] = "defer"
  /\ Mine(p, {"running"}) /\ ~cancel_requested[cur[p]]
  /\ Set(cur[p], "queued")
  /\ claimed_by' = [claimed_by EXCEPT ![cur[p]] = NoProcess]
  /\ deferred' = [deferred EXCEPT ![cur[p]] = @ + 1]
  /\ Goto(p, "unload")
  /\ cur' = [cur EXCEPT ![p] = 0]
  /\ UNCHANGED <<cancel_requested, error, volume, locks, model, stuck, seen, why, supervisor, faults>>

\* Too little free VRAM: cancelled, expired or back in the queue; then a resident model is given back.
Defer(p) ==
  /\ pc[p] = "defer"
  /\ LET j == cur[p] IN
     IF ~Mine(p, {"running"}) THEN UNCHANGED <<state, claimed_by, deferred, error>>
     ELSE IF cancel_requested[j] THEN Set(j, "cancelled") /\ UNCHANGED <<claimed_by, deferred, error>>
     ELSE \/ /\ deferred[j] > 0
             /\ Set(j, "failed") /\ error' = [error EXCEPT ![j] = "not_rendered"]
             /\ UNCHANGED <<claimed_by, deferred>>
          \/ /\ deferred[j] < MaxWaits
             /\ Set(j, "queued")
             /\ claimed_by' = [claimed_by EXCEPT ![j] = NoProcess]
             /\ deferred' = [deferred EXCEPT ![j] = @ + 1]
             /\ UNCHANGED error
  /\ Goto(p, "unload")
  /\ cur' = [cur EXCEPT ![p] = 0]
  /\ UNCHANGED <<cancel_requested, volume, locks, model, stuck, seen, why, supervisor, faults>>

-----------------------------------------------------------------------------
(***************************************************************************)
(* Failures.  "volume": the media volume is gone (every store access checks *)
(* it); "store": SQLite fails; "kill": a process dies; "orphan": the        *)
(* supervisor dies and its children do not.                                 *)
(***************************************************************************)
\* Outside the handlers of _run_job the exception ends run().
StoreEndsRun(p) ==
  /\ pc[p] \in {"start", "recover", "idle", "cancel", "defer", "fail"}
  /\ \/ Fault("volume") /\ Return(p, IF why[p] = "gpu_retained" THEN "gpu_retained" ELSE "sink")
     \/ Fault("store") /\ Return(p, IF why[p] = "gpu_retained" THEN "gpu_retained" ELSE "crash")
  /\ UNCHANGED <<table, volume, supervisor>>

\* Inside it a missing volume ends run() and leaves the row; a store error fails the job.
StoreFailsJob(p) ==
  /\ pc[p] \in {"render", "commit"}
  /\ \/ Fault("volume") /\ Return(p, "sink")
     \/ /\ Fault("store") /\ Fails(p, "not_rendered")
        /\ UNCHANGED <<locks, cur, model, stuck, seen>>
  /\ UNCHANGED <<table, volume, supervisor>>

SinkUnavailable(p) ==
  /\ pc[p] = "publish" /\ Fault("volume")
  /\ Return(p, "sink")
  /\ UNCHANGED <<table, volume, supervisor>>

\* The gallery raises another exception class once the asset is linked; "unlock" leaves the lock file.
GalleryFails(p) ==
  /\ pc[p] \in {"register", "index", "unlock"} /\ Fault("volume")
  /\ Fails(p, "publication_failed")
  /\ indexLock' = IF pc[p] = "index" THEN NoProcess ELSE indexLock
  /\ seen' = [seen EXCEPT ![p] = {}]
  /\ UNCHANGED <<table, file, index, locks, cur, model, stuck, supervisor>>

CompletionUnrecorded(p) ==
  /\ pc[p] = "complete" /\ (Fault("volume") \/ Fault("store"))
  /\ Return(p, "unrecorded")
  /\ UNCHANGED <<table, volume, supervisor>>

\* The operating system drops a process's locks with it; the index lock is a file and stays.
Dead(ps) ==
  /\ pc' = [p \in Process |-> IF p \in ps THEN "gone" ELSE pc[p]]
  /\ cur' = [p \in Process |-> IF p \in ps THEN 0 ELSE cur[p]]
  /\ model' = [p \in Process |-> IF p \in ps THEN NoModel ELSE model[p]]
  /\ stuck' = [p \in Process |-> p \notin ps /\ stuck[p]]
  /\ seen' = [p \in Process |-> IF p \in ps THEN {} ELSE seen[p]]
  /\ execLock' = [g \in Gpu |-> IF execLock[g] \in ps THEN NoProcess ELSE execLock[g]]
  /\ lease' = [g \in Gpu |-> IF lease[g] \in ps THEN NoProcess ELSE lease[g]]

Alive == {p \in Process : pc[p] \notin {"new", "gone"}}

Exit(p) ==
  /\ pc[p] = "exit"
  /\ Dead({p})
  /\ UNCHANGED <<table, volume, why, supervisor, faults>>

Kill(p) ==
  /\ p \in Alive /\ Fault("kill")
  /\ Dead({p})
  /\ why' = [why EXCEPT ![p] = "crash"]
  /\ UNCHANGED <<table, volume, supervisor>>

-----------------------------------------------------------------------------
(***************************************************************************)
(* The supervisor: restartHeld decides each exit once.                      *)
(***************************************************************************)
Start(g, p) ==
  /\ pc[p] = "new" /\ GpuOf[p] = g
  /\ Goto(p, "start")
  /\ child' = [child EXCEPT ![g] = p]
  /\ UNCHANGED <<held, cur, model, stuck, seen, why>>

Exited(g) == child[g] # NoProcess /\ pc[child[g]] = "gone"

\* So are 0 (done) and 78 (configuration refused), with which no executor
\* modelled here ends.
NeverRestarted == {"duplicate"}

Supervise(g) ==
  /\ ~held[g]
  /\ \/ child[g] = NoProcess /\ \E p \in Process : Start(g, p)
     \/ Exited(g) /\ why[child[g]] \notin NeverRestarted /\ \E p \in Process : Start(g, p)
     \/ /\ Exited(g) /\ why[child[g]] \in NeverRestarted
        /\ held' = [held EXCEPT ![g] = TRUE]
        /\ UNCHANGED <<child, process>>
  /\ UNCHANGED <<table, volume, locks, faults>>

\* A new supervisor knows no children.
SupervisorRestarts ==
  /\ Fault("orphan")
  /\ child' = [g \in Gpu |-> NoProcess]
  /\ held' = [g \in Gpu |-> FALSE]
  /\ UNCHANGED <<table, volume, locks, process>>

-----------------------------------------------------------------------------
Executor(p) ==
  \/ AcquireExecutorLock(p) \/ RecoverGpu(p) \/ ClaimFor(p) \/ Unload(p)
  \/ Reject(p) \/ SwitchModel(p) \/ Resident(p) \/ Load(p) \/ Render(p) \/ BeginPublish(p)
  \/ Publish(p) \/ RegisterAsset(p) \/ ReplaceIndex(p) \/ UnlockIndex(p)
  \/ Complete(p) \/ FailJob(p) \/ FinishCancelled(p) \/ Defer(p) \/ Exit(p)

Breaks(p) ==
  \/ StoreEndsRun(p) \/ StoreFailsJob(p) \/ SinkUnavailable(p) \/ GalleryFails(p)
  \/ CompletionUnrecorded(p) \/ Kill(p)

Next ==
  \/ \E j \in Job : Submit(j) \/ RequestCancel(j)
  \/ \E p \in Process : Executor(p) \/ UnloadIdle(p) \/ Breaks(p)
  \/ \E g \in Gpu : Supervise(g)
  \/ SupervisorRestarts

Spec == Init /\ [][Next]_vars

(* Every process runs on, every GPU call returns, and the supervisor polls. *)
(* Owners, faults and the idle timer owe nothing.                           *)
Fairness ==
  /\ \A p \in Process : WF_vars(Executor(p))
  /\ \A g \in Gpu : WF_vars(Supervise(g))

FairSpec == Spec /\ Fairness

-----------------------------------------------------------------------------
(***************************************************************************)
(* Properties.                                                              *)
(***************************************************************************)
(* A job an executor works on is its own and in the state the executor left *)
(* it in, whatever other executors, their recovery or the owner do: so no   *)
(* guarded UPDATE of _run_job ever misses its row (media_executor.py).      *)
WorkIsOwned ==
  \A p \in Process : cur[p] # 0 =>
    /\ claimed_by[cur[p]] = p
    /\ pc[p] \in Working \ {"fail"} => state[cur[p]] = "running"
    /\ pc[p] \in Committed \ {"fail"} => state[cur[p]] = "publishing"
    /\ pc[p] = "fail" => state[cur[p]] \in {"running", "publishing"}

(* One model at a time is in a GPU's memory, counting memory that could not *)
(* be proven free, also while an executor that gave up has not ended yet.   *)
Occupies(p) == model[p] # NoModel \/ stuck[p]

OneModelPerGpu ==
  \A p, q \in Process : Occupies(p) /\ Occupies(q) /\ GpuOf[p] = GpuOf[q] => p = q

(* An accepted cancellation wins against the render, the commit point, a    *)
(* deferral and a restart: the job neither waits again nor gets an asset.   *)
CancelWins ==
  \A j \in Job : cancel_requested[j] =>
    /\ ~file[j]
    /\ state[j] \in {"running", "cancelled", "failed"}

(* An executor that takes jobs has left no claim of its GPU behind: its own *)
(* jobs have ended or wait, those of its predecessors were recovered.       *)
NothingLeftBehind ==
  \A p \in Process : pc[p] \in {"idle", "unload"} =>
    \A j \in Job : state[j] \in {"running", "publishing"} => GpuOf[claimed_by[j]] # GpuOf[p]

(* Row, file and index of a job agree, while two executors write one index  *)
(* and die at any point: what is indexed exists, a completed job is in the  *)
(* gallery, and an asset without a completed job is being published or its  *)
(* failed job says that a publication was involved.                         *)
GalleryAgrees ==
  \A j \in Job :
    /\ j \in index => file[j]
    /\ state[j] = "completed" => j \in index
    /\ file[j] => \/ state[j] \in {"publishing", "completed"}
                  \/ /\ state[j] = "failed"
                     /\ error[j] \in {"publication_failed", "interrupted_publication"}

(* Executors, locks, crashes and the gallery keep what ImageJobs promises.  *)
Promise == INSTANCE ImageJobs WITH stage <- state, asked <- cancel_requested, asset <- file

KeepsPromise == Promise!Spec

(* A submitted job ends, unless the supervisor has given a GPU up.          *)
JobsSettle ==
  \A j \in Job : state[j] \in Active ~> (state[j] \in Finished \/ \E g \in Gpu : held[g])
=============================================================================
