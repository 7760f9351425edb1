------------------------- MODULE MediaExecutorProofs -------------------------
(***************************************************************************)
(* What holds of MediaExecutor for any number of GPUs, processes, profiles  *)
(* and jobs, under every fault it has, in any number.                       *)
(***************************************************************************)
EXTENDS MediaExecutor, TLAPS

(* A process past the executor lock holds it; what is in a GPU's memory, or *)
(* was not proven free, is under the GPU's lease.                           *)
LockHeld == \A p \in Process : pc[p] \in Holding => execLock[GpuOf[p]] = p

LeaseHeld == \A p \in Process : Occupies(p) => lease[GpuOf[p]] = p

Retained ==
  \A p \in Process : stuck[p] =>
    /\ model[p] = NoModel
    /\ pc[p] = "exit" \/ (pc[p] = "fail" /\ why[p] = "gpu_retained")

(* What a process fails its job with is an error of the table.              *)
Reasons == \A p \in Process : pc[p] = "fail" => why[p] \in Errors

GpuInv == LockHeld /\ LeaseHeld /\ Retained

(* A process has a job exactly while it works on one, or ended with it.     *)
AtWork ==
  \A p \in Process :
    /\ pc[p] \in Working \cup Committed => cur[p] # 0
    /\ pc[p] \notin Working \cup Committed \cup {"exit"} => cur[p] = 0

(* The row of that job is the process' own, was never put back, and is as   *)
(* the process left it; a publication that fails is blamed as one.          *)
OwnedAt(p) ==
  cur[p] # 0 =>
    /\ claimed_by[cur[p]] = p
    /\ state[cur[p]] \notin {"none", "queued"}
    /\ pc[p] \in Working \ {"fail"} => state[cur[p]] = "running"
    /\ pc[p] \in Committed \ {"fail"} => state[cur[p]] = "publishing"
    /\ pc[p] = "fail" =>
         \/ state[cur[p]] = "running"
         \/ state[cur[p]] = "publishing" /\ why[p] = "publication_failed"

Owned == \A p \in Process : OwnedAt(p)

Open == {"running", "publishing"}

(* A job that is open has its process at it, or that process is dead.       *)
Claimed ==
  \A j \in Job : state[j] \in Open =>
    /\ claimed_by[j] \in Process
    /\ cur[claimed_by[j]] = j \/ pc[claimed_by[j]] = "gone"

(* After the recovery no open job of the GPU is anybody else's.             *)
Recovered ==
  \A p \in Process, j \in Job :
    pc[p] \in Holding \ {"recover"} /\ state[j] \in Open /\ GpuOf[claimed_by[j]] = GpuOf[p]
      => claimed_by[j] = p

WorkInv == Owned /\ Claimed /\ Recovered

(* A job's row and its asset: an asset exists only past the commit point,   *)
(* a cancellation is accepted only before it, and a failed job that has an  *)
(* asset is known as one.                                                   *)
JobOk(j) ==
  /\ cancel_requested[j] => ~file[j] /\ state[j] \in {"running", "cancelled", "failed"}
  /\ file[j] => state[j] \in {"publishing", "completed", "failed"}
  /\ state[j] = "failed" /\ file[j] => error[j] \in {"publication_failed", "interrupted_publication"}

JobsOk == \A j \in Job : JobOk(j)

Published ==
  \A p \in Process :
    /\ pc[p] \in {"register", "index", "unlock", "complete"} => file[cur[p]]
    /\ pc[p] \in {"unlock", "complete"} => cur[p] \in index

(* Who replaces the index has its lock and the index as it is.              *)
IndexLocked ==
  \A p \in Process :
    /\ pc[p] \in {"index", "unlock"} => indexLock = p
    /\ pc[p] = "index" => seen[p] = index

Indexed ==
  /\ \A j \in index : file[j]
  /\ \A j \in Job : state[j] = "completed" => j \in index

AssetInv == JobsOk /\ Published /\ IndexLocked /\ Indexed

(* The names of states, errors and places, listed.                          *)
LEMMA Names ==
  /\ States = {"none", "queued", "running", "publishing", "completed", "failed", "cancelled"}
  /\ Errors = {"none", "not_rendered", "publication_failed", "gpu_retained", "interrupted",
               "interrupted_publication"}
  /\ Codes = {"none", "gpu_retained", "duplicate", "sink", "unrecorded", "crash"}
  /\ Places = {"new", "start", "exit", "gone", "recover", "idle", "unload", "adapter", "render",
               "commit", "fail", "cancel", "defer", "publish", "register", "index", "unlock",
               "complete"}
  BY DEF States, Active, Finished, Errors, Codes, Places, Holding, Working, Committed

(* A well-typed state, in the parts that steps change together.              *)
StateT == state \in [Job -> States]
TableT ==
  /\ claimed_by \in [Job -> Process \cup {NoProcess}]
  /\ cancel_requested \in [Job -> BOOLEAN]
  /\ deferred \in [Job -> 0..MaxWaits]
  /\ error \in [Job -> Errors]
VolumeT ==
  /\ file \in [Job -> BOOLEAN] /\ index \in SUBSET Job
  /\ indexLock \in Process \cup {NoProcess}
LocksT ==
  /\ execLock \in [Gpu -> Process \cup {NoProcess}]
  /\ lease \in [Gpu -> Process \cup {NoProcess}]
PcT == pc \in [Process -> Places]
WhyT == why \in [Process -> Codes \cup Errors]
ProcessT ==
  /\ cur \in [Process -> Job \cup {0}]
  /\ model \in [Process -> Profile \cup {NoModel}]
  /\ stuck \in [Process -> BOOLEAN]
  /\ seen \in [Process -> SUBSET Job]
SupervisorT ==
  /\ child \in [Gpu -> Process \cup {NoProcess}]
  /\ held \in [Gpu -> BOOLEAN]
  /\ faults \in 0..MaxFaults

LEMMA Types ==
  TypeOK <=> StateT /\ TableT /\ VolumeT /\ LocksT /\ PcT /\ WhyT /\ ProcessT /\ SupervisorT
  BY DEF TypeOK, StateT, TableT, VolumeT, LocksT, PcT, WhyT, ProcessT, SupervisorT


TypeInv == TypeOK /\ AtWork /\ Reasons


LEMMA InitTypes == Init => TypeInv
  BY MediaAssumption, Names DEF Init, TypeInv, TypeOK, AtWork, Reasons, Working, Committed

(* Types: who has a job has one of the table, and reports an error of it.   *)
LEMMA StepTypes == TypeInv /\ [Next]_vars => TypeInv'
<1> SUFFICES ASSUME TypeInv, [Next]_vars PROVE TypeInv'
  OBVIOUS
<1> USE MediaAssumption, Names DEF table, volume, locks, process, supervisor, Goto, Set, Fails, Fault
<1> DEFINE Row == StateT /\ TableT /\ VolumeT
           Run == LocksT /\ ProcessT /\ SupervisorT
           Place == PcT /\ WhyT /\ AtWork /\ Reasons
<1>t. Row /\ Run /\ Place
  BY Types DEF TypeInv
<1>s. SUFFICES Row' /\ Run' /\ Place'
  BY DEF TypeOK, TypeInv, StateT, TableT, VolumeT, LocksT, PcT, WhyT, ProcessT, SupervisorT
<1>1. ASSUME NEW p \in Process, AcquireExecutorLock(p) PROVE Row' /\ Run' /\ Place'
  <2>1. Row'
    BY <1>t, <1>1 DEF AcquireExecutorLock, Return, Free, StateT, TableT, VolumeT, ProcessT,
       AtWork, Reasons, Working, Committed
  <2>2. Run'
    BY <1>t, <1>1 DEF AcquireExecutorLock, Return, Free, LocksT, ProcessT, SupervisorT,
       AtWork, Working, Committed
  <2>3. Place'
    BY <1>t, <1>1 DEF AcquireExecutorLock, Return, Free, PcT, WhyT, AtWork, Reasons,
       Working, Committed, ProcessT
  <2> QED
    BY <2>1, <2>2, <2>3
<1>2. ASSUME NEW p \in Process, RecoverGpu(p) PROVE Row' /\ Run' /\ Place'
  BY <1>t, <1>2 DEF RecoverGpu, Orphans, StateT, TableT, VolumeT, LocksT, ProcessT,
     SupervisorT, PcT, WhyT, AtWork, Reasons, Working, Committed
<1>3. ASSUME NEW p \in Process, ClaimFor(p) PROVE Row' /\ Run' /\ Place'
  BY <1>t, <1>3 DEF ClaimFor, Servable, Queued, StateT, TableT, VolumeT, LocksT, ProcessT,
     SupervisorT, PcT, WhyT, AtWork, Reasons, Working, Committed
<1>4. ASSUME NEW p \in Process, Unload(p) PROVE Row' /\ Run' /\ Place'
  <2>1. Row'
    BY <1>t, <1>4 DEF Unload, Unloaded, Free, StateT, TableT, VolumeT, ProcessT, AtWork,
       Reasons, Working, Committed
  <2>2. LocksT'
    BY <1>t, <1>4 DEF Unload, Unloaded, Free, LocksT
  <2>3. ProcessT'
    BY <1>t, <1>4 DEF Unload, Unloaded, Free, ProcessT, VolumeT, AtWork, Working, Committed
  <2>4. SupervisorT'
    BY <1>t, <1>4 DEF Unload, Unloaded, Free, SupervisorT
  <2>5. Place'
    BY <1>t, <1>4 DEF Unload, Unloaded, Free, PcT, WhyT, AtWork, Reasons, Working,
       Committed, ProcessT
  <2> QED
    BY <2>1, <2>2, <2>3, <2>4, <2>5
<1>5. ASSUME NEW p \in Process, UnloadIdle(p) PROVE Row' /\ Run' /\ Place'
  BY <1>t, <1>5 DEF UnloadIdle, StateT, TableT, VolumeT, LocksT, ProcessT, SupervisorT, PcT,
     WhyT, AtWork, Reasons, Working, Committed
<1>6. ASSUME NEW p \in Process, Reject(p) PROVE Row' /\ Run' /\ Place'
  BY <1>t, <1>6 DEF Reject, StateT, TableT, VolumeT, LocksT, ProcessT, SupervisorT, PcT,
     WhyT, AtWork, Reasons, Working, Committed
<1>7. ASSUME NEW p \in Process, SwitchModel(p) PROVE Row' /\ Run' /\ Place'
  <2>1. Row'
    BY <1>t, <1>7 DEF SwitchModel, Unloaded, Free, Retain, Wanted, StateT, TableT, VolumeT,
       ProcessT, AtWork, Reasons, Working, Committed
  <2>2. LocksT'
    BY <1>t, <1>7 DEF SwitchModel, Unloaded, Free, Retain, Wanted, LocksT
  <2>3. ProcessT'
    BY <1>t, <1>7 DEF SwitchModel, Unloaded, Free, Retain, Wanted, ProcessT, VolumeT,
       AtWork, Working, Committed
  <2>4. SupervisorT'
    BY <1>t, <1>7 DEF SwitchModel, Unloaded, Free, Retain, Wanted, SupervisorT
  <2>5. Place'
    BY <1>t, <1>7 DEF SwitchModel, Unloaded, Free, Retain, Wanted, PcT, WhyT, AtWork,
       Reasons, Working, Committed, ProcessT
  <2> QED
    BY <2>1, <2>2, <2>3, <2>4, <2>5
<1>8. ASSUME NEW p \in Process, Resident(p) PROVE Row' /\ Run' /\ Place'
  BY <1>t, <1>8 DEF Resident, Wanted, StateT, TableT, VolumeT, LocksT, ProcessT,
     SupervisorT, PcT, WhyT, AtWork, Reasons, Working, Committed
<1>9. ASSUME NEW p \in Process, Load(p) PROVE Row' /\ Run' /\ Place'
  <2>1. Row'
    BY <1>t, <1>9 DEF Load, Wanted, Retain, StateT, TableT, VolumeT, ProcessT, AtWork,
       Reasons, Working, Committed
  <2>2. LocksT'
    BY <1>t, <1>9 DEF Load, Wanted, Retain, LocksT
  <2>3. ProcessT'
    <3>1. cur[p] \in Job /\ Wanted(p) \in Profile
      BY <1>t, <1>9 DEF Load, Wanted, ProcessT, AtWork, Working
    <3>2. model' \in [Process -> Profile \cup {NoModel}]
      BY <1>t, <1>9, <3>1 DEF Load, Retain, ProcessT
    <3>3. stuck' \in [Process -> BOOLEAN] /\ UNCHANGED <<cur, seen>>
      BY <1>t, <1>9 DEF Load, Retain, ProcessT
    <3> QED
      BY <1>t, <3>2, <3>3 DEF ProcessT
  <2>4. SupervisorT'
    BY <1>t, <1>9 DEF Load, Wanted, Retain, SupervisorT
  <2>5. Place'
    BY <1>t, <1>9 DEF Load, Wanted, Retain, PcT, WhyT, AtWork, Reasons, Working, Committed,
       ProcessT
  <2> QED
    BY <2>1, <2>2, <2>3, <2>4, <2>5
<1>10. ASSUME NEW p \in Process, Render(p) PROVE Row' /\ Run' /\ Place'
  <2>1. Row'
    BY <1>t, <1>10 DEF Render, StateT, TableT, VolumeT, ProcessT, AtWork, Reasons, Working,
       Committed
  <2>2. Run'
    BY <1>t, <1>10 DEF Render, LocksT, ProcessT, SupervisorT, AtWork, Working, Committed
  <2>3. Place'
    BY <1>t, <1>10 DEF Render, PcT, WhyT, AtWork, Reasons, Working, Committed, ProcessT
  <2> QED
    BY <2>1, <2>2, <2>3
<1>11. ASSUME NEW p \in Process, BeginPublish(p) PROVE Row' /\ Run' /\ Place'
  <2>1. Row'
    BY <1>t, <1>11 DEF BeginPublish, StateT, TableT, VolumeT, ProcessT, AtWork, Reasons,
       Working,
       Committed
  <2>2. Run'
    BY <1>t, <1>11 DEF BeginPublish, LocksT, ProcessT, SupervisorT, AtWork, Working, Committed
  <2>3. Place'
    BY <1>t, <1>11 DEF BeginPublish, PcT, WhyT, AtWork, Reasons, Working, Committed, ProcessT
  <2> QED
    BY <2>1, <2>2, <2>3
<1>12. ASSUME NEW p \in Process, Publish(p) PROVE Row' /\ Run' /\ Place'
  BY <1>t, <1>12 DEF Publish, StateT, TableT, VolumeT, LocksT, ProcessT, SupervisorT, PcT,
     WhyT, AtWork, Reasons, Working, Committed
<1>13. ASSUME NEW p \in Process, RegisterAsset(p) PROVE Row' /\ Run' /\ Place'
  <2>1. Row'
    BY <1>t, <1>13 DEF RegisterAsset, StateT, TableT, VolumeT, ProcessT, AtWork, Reasons,
       Working, Committed
  <2>2. LocksT'
    BY <1>t, <1>13 DEF RegisterAsset, LocksT
  <2>3. ProcessT'
    <3>1. seen' \in [Process -> SUBSET Job]
      BY <1>t, <1>13 DEF RegisterAsset, ProcessT, VolumeT
    <3> QED
      BY <1>t, <1>13, <3>1 DEF RegisterAsset, ProcessT
  <2>4. SupervisorT'
    BY <1>t, <1>13 DEF RegisterAsset, SupervisorT
  <2>5. Place'
    BY <1>t, <1>13 DEF RegisterAsset, PcT, WhyT, AtWork, Reasons, Working, Committed,
       ProcessT
  <2> QED
    BY <2>1, <2>2, <2>3, <2>4, <2>5
<1>14. ASSUME NEW p \in Process, ReplaceIndex(p) PROVE Row' /\ Run' /\ Place'
  BY <1>t, <1>14 DEF ReplaceIndex, StateT, TableT, VolumeT, LocksT, ProcessT, SupervisorT,
     PcT, WhyT, AtWork, Reasons, Working, Committed
<1>15. ASSUME NEW p \in Process, UnlockIndex(p) PROVE Row' /\ Run' /\ Place'
  BY <1>t, <1>15 DEF UnlockIndex, StateT, TableT, VolumeT, LocksT, ProcessT, SupervisorT,
     PcT, WhyT, AtWork, Reasons, Working, Committed
<1>16. ASSUME NEW p \in Process, Complete(p) PROVE Row' /\ Run' /\ Place'
  <2>1. Row'
    BY <1>t, <1>16 DEF Complete, NextJob, Return, Free, Mine, StateT, TableT, VolumeT,
       ProcessT, AtWork, Reasons, Working, Committed
  <2>2. Run'
    BY <1>t, <1>16 DEF Complete, NextJob, Return, Free, Mine, LocksT, ProcessT, SupervisorT,
       AtWork, Working, Committed
  <2>3. Place'
    BY <1>t, <1>16 DEF Complete, NextJob, Return, Free, Mine, PcT, WhyT, AtWork, Reasons,
       Working, Committed, ProcessT
  <2> QED
    BY <2>1, <2>2, <2>3
<1>17. ASSUME NEW p \in Process, FailJob(p) PROVE Row' /\ Run' /\ Place'
  <2>1. Row'
    BY <1>t, <1>17 DEF FailJob, NextJob, Return, Free, Mine, StateT, TableT, VolumeT,
       ProcessT, AtWork, Reasons, Working, Committed
  <2>2. Run'
    BY <1>t, <1>17 DEF FailJob, NextJob, Return, Free, Mine, LocksT, ProcessT, SupervisorT,
       AtWork, Working, Committed
  <2>3. Place'
    BY <1>t, <1>17 DEF FailJob, NextJob, Return, Free, Mine, PcT, WhyT, AtWork, Reasons,
       Working, Committed, ProcessT
  <2> QED
    BY <2>1, <2>2, <2>3
<1>18. ASSUME NEW p \in Process, FinishCancelled(p) PROVE Row' /\ Run' /\ Place'
  BY <1>t, <1>18 DEF FinishCancelled, NextJob, Mine, StateT, TableT, VolumeT, LocksT,
     ProcessT, SupervisorT, PcT, WhyT, AtWork, Reasons, Working, Committed
<1>19. ASSUME NEW p \in Process, Defer(p) PROVE Row' /\ Run' /\ Place'
  <2>1. Row'
    BY <1>t, <1>19 DEF Defer, Mine, StateT, TableT, VolumeT, ProcessT, AtWork, Reasons, Working,
       Committed
  <2>2. Run'
    BY <1>t, <1>19 DEF Defer, Mine, LocksT, ProcessT, SupervisorT, AtWork, Working, Committed
  <2>3. Place'
    BY <1>t, <1>19 DEF Defer, Mine, PcT, WhyT, AtWork, Reasons, Working, Committed, ProcessT
  <2> QED
    BY <2>1, <2>2, <2>3
<1>20. ASSUME NEW p \in Process, Exit(p) PROVE Row' /\ Run' /\ Place'
  BY <1>t, <1>20 DEF Exit, Dead, StateT, TableT, VolumeT, LocksT, ProcessT, SupervisorT,
     PcT, WhyT, AtWork, Reasons, Working, Committed
<1>21. ASSUME NEW p \in Process, StoreEndsRun(p) PROVE Row' /\ Run' /\ Place'
  <2>1. Row'
    BY <1>t, <1>21 DEF StoreEndsRun, Return, Free, StateT, TableT, VolumeT, ProcessT,
       AtWork, Reasons, Working, Committed
  <2>2. Run'
    BY <1>t, <1>21 DEF StoreEndsRun, Return, Free, LocksT, ProcessT, SupervisorT, AtWork,
       Working, Committed
  <2>3. Place'
    BY <1>t, <1>21 DEF StoreEndsRun, Return, Free, PcT, WhyT, AtWork, Reasons, Working,
       Committed, ProcessT
  <2> QED
    BY <2>1, <2>2, <2>3
<1>22. ASSUME NEW p \in Process, StoreFailsJob(p) PROVE Row' /\ Run' /\ Place'
  <2>1. Row'
    BY <1>t, <1>22 DEF StoreFailsJob, Return, Free, StateT, TableT, VolumeT, ProcessT,
       AtWork, Reasons, Working, Committed
  <2>2. Run'
    BY <1>t, <1>22 DEF StoreFailsJob, Return, Free, LocksT, ProcessT, SupervisorT, AtWork,
       Working, Committed
  <2>3. Place'
    BY <1>t, <1>22 DEF StoreFailsJob, Return, Free, PcT, WhyT, AtWork, Reasons, Working,
       Committed, ProcessT
  <2> QED
    BY <2>1, <2>2, <2>3
<1>23. ASSUME NEW p \in Process, SinkUnavailable(p) PROVE Row' /\ Run' /\ Place'
  BY <1>t, <1>23 DEF SinkUnavailable, Return, Free, StateT, TableT, VolumeT, LocksT,
     ProcessT, SupervisorT, PcT, WhyT, AtWork, Reasons, Working, Committed
<1>24. ASSUME NEW p \in Process, GalleryFails(p) PROVE Row' /\ Run' /\ Place'
  BY <1>t, <1>24 DEF GalleryFails, StateT, TableT, VolumeT, LocksT, ProcessT, SupervisorT,
     PcT, WhyT, AtWork, Reasons, Working, Committed
<1>25. ASSUME NEW p \in Process, CompletionUnrecorded(p) PROVE Row' /\ Run' /\ Place'
  BY <1>t, <1>25 DEF CompletionUnrecorded, Return, Free, StateT, TableT, VolumeT, LocksT,
     ProcessT, SupervisorT, PcT, WhyT, AtWork, Reasons, Working, Committed
<1>26. ASSUME NEW p \in Process, Kill(p) PROVE Row' /\ Run' /\ Place'
  BY <1>t, <1>26 DEF Kill, Dead, Alive, StateT, TableT, VolumeT, LocksT, ProcessT,
     SupervisorT, PcT, WhyT, AtWork, Reasons, Working, Committed
<1>27. ASSUME NEW j \in Job, Submit(j) PROVE Row' /\ Run' /\ Place'
  BY <1>t, <1>27 DEF Submit, StateT, TableT, VolumeT, LocksT, ProcessT, SupervisorT, PcT,
     WhyT, AtWork, Reasons, Working, Committed
<1>28. ASSUME NEW j \in Job, RequestCancel(j) PROVE Row' /\ Run' /\ Place'
  BY <1>t, <1>28 DEF RequestCancel, StateT, TableT, VolumeT, LocksT, ProcessT, SupervisorT,
     PcT, WhyT, AtWork, Reasons, Working, Committed
<1>29. ASSUME NEW g \in Gpu, Supervise(g) PROVE Row' /\ Run' /\ Place'
  <2>1. Row'
    BY <1>t, <1>29 DEF Supervise, Start, StateT, TableT, VolumeT, ProcessT, AtWork, Reasons,
       Working, Committed
  <2>2. LocksT'
    BY <1>t, <1>29 DEF Supervise, Start, LocksT
  <2>3. ProcessT'
    BY <1>t, <1>29 DEF Supervise, Start, ProcessT, VolumeT, AtWork, Working, Committed
  <2>4. SupervisorT'
    <3>1. child' \in [Gpu -> Process \cup {NoProcess}]
      BY <1>t, <1>29 DEF Supervise, Start, SupervisorT
    <3>2. held' \in [Gpu -> BOOLEAN]
      BY <1>t, <1>29 DEF Supervise, Start, SupervisorT
    <3>3. faults' = faults
      BY <1>29 DEF Supervise
    <3> QED
      BY <1>t, <3>1, <3>2, <3>3 DEF SupervisorT
  <2>5. Place'
    BY <1>t, <1>29 DEF Supervise, Start, PcT, WhyT, AtWork, Reasons, Working, Committed,
       ProcessT
  <2> QED
    BY <2>1, <2>2, <2>3, <2>4, <2>5
<1>30. ASSUME SupervisorRestarts PROVE Row' /\ Run' /\ Place'
  BY <1>t, <1>30 DEF SupervisorRestarts, StateT, TableT, VolumeT, LocksT, ProcessT,
     SupervisorT, PcT, WhyT, AtWork, Reasons, Working, Committed
<1>31. CASE UNCHANGED vars
  BY <1>t, <1>31 DEF vars, StateT, TableT, VolumeT, LocksT, ProcessT, SupervisorT, PcT,
     WhyT, AtWork, Reasons, Working, Committed
<1> QED
  BY <1>1, <1>2, <1>3, <1>4, <1>5, <1>6, <1>7, <1>8, <1>9, <1>10, <1>11, <1>12, <1>13,
     <1>14, <1>15, <1>16, <1>17, <1>18, <1>19, <1>20, <1>21, <1>22, <1>23, <1>24, <1>25, <1>26,
     <1>27, <1>28, <1>29, <1>30, <1>31 DEF Next, Executor, Breaks

(* Who works on another job does not notice what happens to this one.       *)
LEMMA Untouched ==
  ASSUME TypeInv, WorkInv, NEW q \in Process,
         cur[q] # 0 => state'[cur[q]] = state[cur[q]] /\ claimed_by'[cur[q]] = claimed_by[cur[q]],
         pc'[q] = pc[q], cur'[q] = cur[q], why'[q] = why[q]
  PROVE  OwnedAt(q)'
  BY DEF WorkInv, Owned, OwnedAt

LEMMA Bystander ==
  ASSUME TypeInv, WorkInv, NEW p \in Process, NEW q \in Process, q # p, cur[p] # 0,
         \A j \in Job \ {cur[p]} : state'[j] = state[j] /\ claimed_by'[j] = claimed_by[j],
         pc'[q] = pc[q], cur'[q] = cur[q], why'[q] = why[q]
  PROVE  OwnedAt(q)'
<1>1. cur[q] # 0 => cur[q] \in Job /\ cur[q] # cur[p]
  BY DEF TypeInv, TypeOK, WorkInv, Owned, OwnedAt
<1> QED
  BY <1>1, Untouched

(* A step of p that touches no row and does not take p past the recovery.   *)
QuietStep(p) ==
  /\ UNCHANGED <<state, claimed_by, cur>>
  /\ \A q \in Process \ {p} : pc'[q] = pc[q] /\ why'[q] = why[q]
  /\ pc[p] # "gone"
  /\ pc'[p] \in Holding \ {"recover"} => pc[p] \in Holding \ {"recover"}

LEMMA QuietWork ==
  ASSUME TypeInv, WorkInv, NEW p \in Process, QuietStep(p), OwnedAt(p)'
  PROVE  WorkInv'
<1>1. ASSUME NEW q \in Process, q # p PROVE OwnedAt(q)'
  BY <1>1, Untouched DEF QuietStep
<1>2. Claimed'
  BY DEF QuietStep, TypeInv, TypeOK, WorkInv, Claimed, Open
<1>3. Recovered'
  BY DEF QuietStep, TypeInv, TypeOK, WorkInv, Recovered, Open
<1> QED
  BY <1>1, <1>2, <1>3 DEF WorkInv, Owned

(* With a dead process its locks, its model and its memory are gone.        *)
LEMMA DeadGpu ==
  ASSUME TypeInv, GpuInv, NEW p \in Process, Dead({p}),
         \A q \in Process \ {p} : why'[q] = why[q]
  PROVE  GpuInv'
<1>1. LockHeld'
  BY MediaAssumption DEF Dead, TypeInv, TypeOK, GpuInv, LockHeld, Holding, Working, Committed
<1>2. LeaseHeld'
  BY MediaAssumption DEF Dead, TypeInv, TypeOK, GpuInv, LeaseHeld, Occupies
<1>3. ASSUME NEW q \in Process, stuck'[q]
      PROVE  /\ model'[q] = NoModel
             /\ pc'[q] = "exit" \/ (pc'[q] = "fail" /\ why'[q] = "gpu_retained")
  <2>1. q # p /\ stuck[q] /\ pc'[q] = pc[q] /\ model'[q] = model[q] /\ why'[q] = why[q]
    BY <1>3 DEF Dead, TypeInv, TypeOK
  <2> QED
    BY <2>1 DEF GpuInv, Retained
<1> QED
  BY <1>1, <1>2, <1>3 DEF GpuInv, Retained

(* Locks and leases: the lease is given back only with the memory, or with  *)
(* the process.                                                             *)
LEMMA StepGpu ==
  TypeInv /\ GpuInv /\ TypeInv' /\ [Next]_vars => GpuInv'
<1> SUFFICES ASSUME TypeInv /\ GpuInv, TypeInv', [Next]_vars PROVE GpuInv'
  OBVIOUS
<1> USE MediaAssumption DEF table, volume, locks, process, supervisor, Goto, Set, Mine, Fails,
                           Fault, Holding, Working, Committed, TypeInv, TypeOK, AtWork
<1>1. ASSUME NEW p \in Process, AcquireExecutorLock(p) PROVE GpuInv'
  BY <1>1 DEF AcquireExecutorLock, Return, Free, GpuInv, LockHeld, LeaseHeld, Retained,
     Occupies
<1>2. ASSUME NEW p \in Process, RecoverGpu(p) PROVE GpuInv'
  BY <1>2 DEF RecoverGpu, Orphans, GpuInv, LockHeld, LeaseHeld, Retained, Occupies
<1>3. ASSUME NEW p \in Process, ClaimFor(p) PROVE GpuInv'
  BY <1>3 DEF ClaimFor, Servable, Queued, GpuInv, LockHeld, LeaseHeld, Retained, Occupies
<1>4. ASSUME NEW p \in Process, Unload(p) PROVE GpuInv'
  <2>1. LockHeld'
    BY <1>4 DEF Unload, Unloaded, Free, GpuInv, LockHeld
  <2>2. LeaseHeld'
    BY <1>4 DEF Unload, Unloaded, Free, GpuInv, LeaseHeld, Retained, Occupies
  <2>3. Retained'
    BY <1>4 DEF Unload, Unloaded, Free, GpuInv, Retained
  <2> QED
    BY <2>1, <2>2, <2>3 DEF GpuInv
<1>5. ASSUME NEW p \in Process, UnloadIdle(p) PROVE GpuInv'
  BY <1>5 DEF UnloadIdle, GpuInv, LockHeld, LeaseHeld, Retained, Occupies
<1>6. ASSUME NEW p \in Process, Reject(p) PROVE GpuInv'
  BY <1>6 DEF Reject, GpuInv, LockHeld, LeaseHeld, Retained, Occupies
<1>7. ASSUME NEW p \in Process, SwitchModel(p) PROVE GpuInv'
  <2>1. LockHeld'
    BY <1>7 DEF SwitchModel, Unloaded, Free, Retain, Wanted, GpuInv, LockHeld
  <2>2. LeaseHeld'
    BY <1>7 DEF SwitchModel, Unloaded, Free, Retain, Wanted, GpuInv, LeaseHeld, Retained,
       Occupies
  <2>3. Retained'
    BY <1>7 DEF SwitchModel, Unloaded, Free, Retain, Wanted, GpuInv, Retained
  <2> QED
    BY <2>1, <2>2, <2>3 DEF GpuInv
<1>8. ASSUME NEW p \in Process, Resident(p) PROVE GpuInv'
  BY <1>8 DEF Resident, Wanted, GpuInv, LockHeld, LeaseHeld, Retained, Occupies
<1>9. ASSUME NEW p \in Process, Load(p) PROVE GpuInv'
  BY <1>9 DEF Load, Wanted, Retain, GpuInv, LockHeld, LeaseHeld, Retained, Occupies
<1>10. ASSUME NEW p \in Process, Render(p) PROVE GpuInv'
  BY <1>10 DEF Render, GpuInv, LockHeld, LeaseHeld, Retained, Occupies
<1>11. ASSUME NEW p \in Process, BeginPublish(p) PROVE GpuInv'
  BY <1>11 DEF BeginPublish, GpuInv, LockHeld, LeaseHeld, Retained, Occupies
<1>12. ASSUME NEW p \in Process, Publish(p) PROVE GpuInv'
  BY <1>12 DEF Publish, GpuInv, LockHeld, LeaseHeld, Retained, Occupies
<1>13. ASSUME NEW p \in Process, RegisterAsset(p) PROVE GpuInv'
  BY <1>13 DEF RegisterAsset, GpuInv, LockHeld, LeaseHeld, Retained, Occupies
<1>14. ASSUME NEW p \in Process, ReplaceIndex(p) PROVE GpuInv'
  BY <1>14 DEF ReplaceIndex, GpuInv, LockHeld, LeaseHeld, Retained, Occupies
<1>15. ASSUME NEW p \in Process, UnlockIndex(p) PROVE GpuInv'
  BY <1>15 DEF UnlockIndex, GpuInv, LockHeld, LeaseHeld, Retained, Occupies
<1>16. ASSUME NEW p \in Process, Complete(p) PROVE GpuInv'
  <2>1. LockHeld'
    BY <1>16 DEF Complete, NextJob, Return, Free, GpuInv, LockHeld
  <2>2. LeaseHeld'
    BY <1>16 DEF Complete, NextJob, Return, Free, GpuInv, LeaseHeld, Retained, Occupies
  <2>3. Retained'
    BY <1>16 DEF Complete, NextJob, Return, Free, GpuInv, Retained
  <2> QED
    BY <2>1, <2>2, <2>3 DEF GpuInv
<1>17. ASSUME NEW p \in Process, FailJob(p) PROVE GpuInv'
  BY <1>17 DEF FailJob, NextJob, Return, Free, GpuInv, LockHeld, LeaseHeld, Retained,
     Occupies
<1>18. ASSUME NEW p \in Process, FinishCancelled(p) PROVE GpuInv'
  BY <1>18 DEF FinishCancelled, NextJob, GpuInv, LockHeld, LeaseHeld, Retained, Occupies
<1>19. ASSUME NEW p \in Process, Defer(p) PROVE GpuInv'
  BY <1>19 DEF Defer, GpuInv, LockHeld, LeaseHeld, Retained, Occupies
<1>20. ASSUME NEW p \in Process, Exit(p) PROVE GpuInv'
  <2>1. Dead({p}) /\ \A q \in Process \ {p} : why'[q] = why[q]
    BY <1>20 DEF Exit
  <2> QED
    BY <2>1, DeadGpu
<1>21. ASSUME NEW p \in Process, StoreEndsRun(p) PROVE GpuInv'
  <2>1. LockHeld'
    BY <1>21 DEF StoreEndsRun, Return, Free, GpuInv, LockHeld
  <2>2. LeaseHeld'
    BY <1>21 DEF StoreEndsRun, Return, Free, GpuInv, LeaseHeld, Retained, Occupies
  <2>3. Retained'
    BY <1>21 DEF StoreEndsRun, Return, Free, GpuInv, Retained
  <2> QED
    BY <2>1, <2>2, <2>3 DEF GpuInv
<1>22. ASSUME NEW p \in Process, StoreFailsJob(p) PROVE GpuInv'
  BY <1>22 DEF StoreFailsJob, Return, Free, GpuInv, LockHeld, LeaseHeld, Retained, Occupies
<1>23. ASSUME NEW p \in Process, SinkUnavailable(p) PROVE GpuInv'
  BY <1>23 DEF SinkUnavailable, Return, Free, GpuInv, LockHeld, LeaseHeld, Retained,
     Occupies
<1>24. ASSUME NEW p \in Process, GalleryFails(p) PROVE GpuInv'
  BY <1>24 DEF GalleryFails, GpuInv, LockHeld, LeaseHeld, Retained, Occupies
<1>25. ASSUME NEW p \in Process, CompletionUnrecorded(p) PROVE GpuInv'
  BY <1>25 DEF CompletionUnrecorded, Return, Free, GpuInv, LockHeld, LeaseHeld, Retained,
     Occupies
<1>26. ASSUME NEW p \in Process, Kill(p) PROVE GpuInv'
  <2>1. Dead({p}) /\ \A q \in Process \ {p} : why'[q] = why[q]
    BY <1>26 DEF Kill
  <2> QED
    BY <2>1, DeadGpu
<1>27. ASSUME NEW j \in Job, Submit(j) PROVE GpuInv'
  BY <1>27 DEF Submit, GpuInv, LockHeld, LeaseHeld, Retained, Occupies
<1>28. ASSUME NEW j \in Job, RequestCancel(j) PROVE GpuInv'
  BY <1>28 DEF RequestCancel, GpuInv, LockHeld, LeaseHeld, Retained, Occupies
<1>29. ASSUME NEW g \in Gpu, Supervise(g) PROVE GpuInv'
  BY <1>29 DEF Supervise, Start, GpuInv, LockHeld, LeaseHeld, Retained, Occupies
<1>30. ASSUME SupervisorRestarts PROVE GpuInv'
  BY <1>30 DEF SupervisorRestarts, GpuInv, LockHeld, LeaseHeld, Retained, Occupies
<1>31. CASE UNCHANGED vars
  BY <1>31 DEF vars, GpuInv, LockHeld, LeaseHeld, Retained, Occupies
<1> QED
  BY <1>1, <1>2, <1>3, <1>4, <1>5, <1>6, <1>7, <1>8, <1>9, <1>10, <1>11, <1>12, <1>13,
     <1>14, <1>15, <1>16, <1>17, <1>18, <1>19, <1>20, <1>21, <1>22, <1>23, <1>24, <1>25, <1>26,
     <1>27, <1>28, <1>29, <1>30, <1>31 DEF Next, Executor, Breaks

(* Rows: an executor changes the row of its own job only, and the recovery  *)
(* only those of processes that are dead, for it has their lock.             *)
LEMMA StepWork ==
  TypeInv /\ GpuInv /\ WorkInv /\ TypeInv' /\ [Next]_vars => WorkInv'
<1> SUFFICES ASSUME TypeInv /\ GpuInv /\ WorkInv, TypeInv', [Next]_vars PROVE WorkInv'
  OBVIOUS
<1> USE MediaAssumption DEF table, volume, locks, process, supervisor, Goto, Set, Mine, Fails,
                           Fault, Holding, Working, Committed, TypeInv, TypeOK, AtWork
<1>1. ASSUME NEW p \in Process, AcquireExecutorLock(p) PROVE WorkInv'
  <2>1. OwnedAt(p)'
    BY <1>1 DEF AcquireExecutorLock, Return, Free, WorkInv, Owned, OwnedAt
  <2>2. QuietStep(p)
    BY <1>1 DEF AcquireExecutorLock, Return, Free, QuietStep
  <2> QED
    BY <2>1, <2>2, QuietWork
<1>2. ASSUME NEW p \in Process, RecoverGpu(p) PROVE WorkInv'
  BY <1>2 DEF RecoverGpu, Orphans, WorkInv, GpuInv, LockHeld, Owned, OwnedAt, Claimed,
     Recovered, Open
<1>3. ASSUME NEW p \in Process, ClaimFor(p) PROVE WorkInv'
  <2>1. PICK j \in Job : /\ state[j] = "queued" /\ state' = [state EXCEPT ![j] = "running"]
                         /\ claimed_by' = [claimed_by EXCEPT ![j] = p]
                         /\ cur' = [cur EXCEPT ![p] = j]
    BY <1>3 DEF ClaimFor, Servable, Queued
  <2>2. pc[p] = "idle" /\ pc' = [pc EXCEPT ![p] = "adapter"] /\ why' = why /\ execLock' = execLock
    BY <1>3 DEF ClaimFor
  <2>3. cur[p] = 0
    BY <2>2
  <2>4. Owned'
    BY <2>1, <2>2 DEF WorkInv, Owned, OwnedAt
  <2>5. Claimed'
    BY <2>1, <2>2, <2>3 DEF WorkInv, Claimed, Open
  <2>6. Recovered'
    BY <2>1, <2>2 DEF WorkInv, Recovered, Open, GpuInv, LockHeld
  <2> QED
    BY <2>4, <2>5, <2>6 DEF WorkInv
<1>4. ASSUME NEW p \in Process, Unload(p) PROVE WorkInv'
  <2>1. OwnedAt(p)'
    BY <1>4 DEF Unload, Unloaded, Free, WorkInv, Owned, OwnedAt
  <2>2. QuietStep(p)
    BY <1>4 DEF Unload, Unloaded, Free, QuietStep
  <2> QED
    BY <2>1, <2>2, QuietWork
<1>5. ASSUME NEW p \in Process, UnloadIdle(p) PROVE WorkInv'
  <2>1. OwnedAt(p)'
    BY <1>5 DEF UnloadIdle, WorkInv, Owned, OwnedAt
  <2>2. QuietStep(p)
    BY <1>5 DEF UnloadIdle, QuietStep
  <2> QED
    BY <2>1, <2>2, QuietWork
<1>6. ASSUME NEW p \in Process, Reject(p) PROVE WorkInv'
  <2>1. OwnedAt(p)'
    <3>1. cur[p] # 0 => claimed_by[cur[p]] = p /\ state[cur[p]] = "running"
      BY <1>6 DEF Reject, WorkInv, Owned, OwnedAt
    <3> QED
      BY <1>6, <3>1 DEF Reject, OwnedAt
  <2>2. QuietStep(p)
    BY <1>6 DEF Reject, QuietStep
  <2> QED
    BY <2>1, <2>2, QuietWork
<1>7. ASSUME NEW p \in Process, SwitchModel(p) PROVE WorkInv'
  <2>1. OwnedAt(p)'
    <3>1. cur[p] # 0 => claimed_by[cur[p]] = p /\ state[cur[p]] = "running"
      BY <1>7 DEF SwitchModel, WorkInv, Owned, OwnedAt
    <3> QED
      BY <1>7, <3>1 DEF SwitchModel, Unloaded, Free, Retain, Wanted, OwnedAt
  <2>2. QuietStep(p)
    BY <1>7 DEF SwitchModel, Unloaded, Free, Retain, Wanted, QuietStep
  <2> QED
    BY <2>1, <2>2, QuietWork
<1>8. ASSUME NEW p \in Process, Resident(p) PROVE WorkInv'
  <2>1. OwnedAt(p)'
    BY <1>8 DEF Resident, Wanted, WorkInv, Owned, OwnedAt
  <2>2. QuietStep(p)
    BY <1>8 DEF Resident, Wanted, QuietStep
  <2> QED
    BY <2>1, <2>2, QuietWork
<1>9. ASSUME NEW p \in Process, Load(p) PROVE WorkInv'
  <2>1. OwnedAt(p)'
    <3>1. cur[p] # 0 => claimed_by[cur[p]] = p /\ state[cur[p]] = "running"
      BY <1>9 DEF Load, WorkInv, Owned, OwnedAt
    <3> QED
      BY <1>9, <3>1 DEF Load, Wanted, Retain, OwnedAt
  <2>2. QuietStep(p)
    BY <1>9 DEF Load, Wanted, Retain, QuietStep
  <2> QED
    BY <2>1, <2>2, QuietWork
<1>10. ASSUME NEW p \in Process, Render(p) PROVE WorkInv'
  <2>1. OwnedAt(p)'
    <3>1. cur[p] # 0 => claimed_by[cur[p]] = p /\ state[cur[p]] = "running"
      BY <1>10 DEF Render, WorkInv, Owned, OwnedAt
    <3> QED
      BY <1>10, <3>1 DEF Render, OwnedAt
  <2>2. QuietStep(p)
    BY <1>10 DEF Render, QuietStep
  <2> QED
    BY <2>1, <2>2, QuietWork
<1>11. ASSUME NEW p \in Process, BeginPublish(p) PROVE WorkInv'
  <2>0. cur[p] # 0
    BY <1>11 DEF BeginPublish, AtWork
  <2>1. ASSUME NEW q \in Process, q # p PROVE OwnedAt(q)'
    <3>1. \A j \in Job \ {cur[p]} : state'[j] = state[j] /\ claimed_by'[j] = claimed_by[j]
      BY <1>11 DEF BeginPublish
    <3>2. pc'[q] = pc[q] /\ cur'[q] = cur[q] /\ why'[q] = why[q]
      BY <1>11, <2>1 DEF BeginPublish
    <3> QED
      BY <2>0, <2>1, <3>1, <3>2, Bystander
  <2>2. OwnedAt(p)'
    BY <1>11, <2>0 DEF BeginPublish, WorkInv, Owned, OwnedAt
  <2>3. Claimed'
    BY <1>11, <2>0 DEF BeginPublish, WorkInv, Owned, OwnedAt, Claimed, Open
  <2>4. Recovered'
    BY <1>11, <2>0 DEF BeginPublish, WorkInv, Owned, OwnedAt, Claimed, Recovered, Open
  <2> QED
    BY <2>1, <2>2, <2>3, <2>4 DEF WorkInv, Owned
<1>12. ASSUME NEW p \in Process, Publish(p) PROVE WorkInv'
  <2>1. OwnedAt(p)'
    BY <1>12 DEF Publish, WorkInv, Owned, OwnedAt
  <2>2. QuietStep(p)
    BY <1>12 DEF Publish, QuietStep
  <2> QED
    BY <2>1, <2>2, QuietWork
<1>13. ASSUME NEW p \in Process, RegisterAsset(p) PROVE WorkInv'
  <2>1. OwnedAt(p)'
    BY <1>13 DEF RegisterAsset, WorkInv, Owned, OwnedAt
  <2>2. QuietStep(p)
    BY <1>13 DEF RegisterAsset, QuietStep
  <2> QED
    BY <2>1, <2>2, QuietWork
<1>14. ASSUME NEW p \in Process, ReplaceIndex(p) PROVE WorkInv'
  <2>1. OwnedAt(p)'
    BY <1>14 DEF ReplaceIndex, WorkInv, Owned, OwnedAt
  <2>2. QuietStep(p)
    BY <1>14 DEF ReplaceIndex, QuietStep
  <2> QED
    BY <2>1, <2>2, QuietWork
<1>15. ASSUME NEW p \in Process, UnlockIndex(p) PROVE WorkInv'
  <2>1. OwnedAt(p)'
    BY <1>15 DEF UnlockIndex, WorkInv, Owned, OwnedAt
  <2>2. QuietStep(p)
    BY <1>15 DEF UnlockIndex, QuietStep
  <2> QED
    BY <2>1, <2>2, QuietWork
<1>16. ASSUME NEW p \in Process, Complete(p) PROVE WorkInv'
  <2>0. cur[p] # 0
    BY <1>16 DEF Complete, AtWork
  <2>1. ASSUME NEW q \in Process, q # p PROVE OwnedAt(q)'
    <3>1. \A j \in Job \ {cur[p]} : state'[j] = state[j] /\ claimed_by'[j] = claimed_by[j]
      BY <1>16 DEF Complete, NextJob, Return, Free
    <3>2. pc'[q] = pc[q] /\ cur'[q] = cur[q] /\ why'[q] = why[q]
      BY <1>16, <2>1 DEF Complete, NextJob, Return, Free
    <3> QED
      BY <2>0, <2>1, <3>1, <3>2, Bystander
  <2>2. OwnedAt(p)'
    BY <1>16, <2>0 DEF Complete, NextJob, Return, Free, WorkInv, Owned, OwnedAt
  <2>3. Claimed'
    BY <1>16, <2>0 DEF Complete, NextJob, Return, Free, WorkInv, Owned, OwnedAt, Claimed, Open
  <2>4. Recovered'
    BY <1>16, <2>0 DEF Complete, NextJob, Return, Free, WorkInv, Owned, OwnedAt, Claimed,
       Recovered, Open
  <2> QED
    BY <2>1, <2>2, <2>3, <2>4 DEF WorkInv, Owned
<1>17. ASSUME NEW p \in Process, FailJob(p) PROVE WorkInv'
  <2>0. cur[p] # 0
    BY <1>17 DEF FailJob, AtWork
  <2>1. ASSUME NEW q \in Process, q # p PROVE OwnedAt(q)'
    <3>1. \A j \in Job \ {cur[p]} : state'[j] = state[j] /\ claimed_by'[j] = claimed_by[j]
      BY <1>17 DEF FailJob, NextJob, Return, Free
    <3>2. pc'[q] = pc[q] /\ cur'[q] = cur[q] /\ why'[q] = why[q]
      BY <1>17, <2>1 DEF FailJob, NextJob, Return, Free
    <3> QED
      BY <2>0, <2>1, <3>1, <3>2, Bystander
  <2>2. OwnedAt(p)'
    BY <1>17, <2>0 DEF FailJob, NextJob, Return, Free, WorkInv, Owned, OwnedAt
  <2>3. Claimed'
    BY <1>17, <2>0 DEF FailJob, NextJob, Return, Free, WorkInv, Owned, OwnedAt, Claimed, Open
  <2>4. Recovered'
    BY <1>17, <2>0 DEF FailJob, NextJob, Return, Free, WorkInv, Owned, OwnedAt, Claimed,
       Recovered, Open
  <2> QED
    BY <2>1, <2>2, <2>3, <2>4 DEF WorkInv, Owned
<1>18. ASSUME NEW p \in Process, FinishCancelled(p) PROVE WorkInv'
  <2>0. cur[p] # 0
    BY <1>18 DEF FinishCancelled, AtWork
  <2>1. ASSUME NEW q \in Process, q # p PROVE OwnedAt(q)'
    <3>1. \A j \in Job \ {cur[p]} : state'[j] = state[j] /\ claimed_by'[j] = claimed_by[j]
      BY <1>18 DEF FinishCancelled, NextJob
    <3>2. pc'[q] = pc[q] /\ cur'[q] = cur[q] /\ why'[q] = why[q]
      BY <1>18, <2>1 DEF FinishCancelled, NextJob
    <3> QED
      BY <2>0, <2>1, <3>1, <3>2, Bystander
  <2>2. OwnedAt(p)'
    BY <1>18, <2>0 DEF FinishCancelled, NextJob, WorkInv, Owned, OwnedAt
  <2>3. Claimed'
    BY <1>18, <2>0 DEF FinishCancelled, NextJob, WorkInv, Owned, OwnedAt, Claimed, Open
  <2>4. Recovered'
    BY <1>18, <2>0 DEF FinishCancelled, NextJob, WorkInv, Owned, OwnedAt, Claimed, Recovered,
       Open
  <2> QED
    BY <2>1, <2>2, <2>3, <2>4 DEF WorkInv, Owned
<1>19. ASSUME NEW p \in Process, Defer(p) PROVE WorkInv'
  <2>0. cur[p] # 0
    BY <1>19 DEF Defer, AtWork
  <2>1. ASSUME NEW q \in Process, q # p PROVE OwnedAt(q)'
    <3>1. \A j \in Job \ {cur[p]} : state'[j] = state[j] /\ claimed_by'[j] = claimed_by[j]
      BY <1>19 DEF Defer
    <3>2. pc'[q] = pc[q] /\ cur'[q] = cur[q] /\ why'[q] = why[q]
      BY <1>19, <2>1 DEF Defer
    <3> QED
      BY <2>0, <2>1, <3>1, <3>2, Bystander
  <2>2. OwnedAt(p)'
    BY <1>19, <2>0 DEF Defer, WorkInv, Owned, OwnedAt
  <2>3. Claimed'
    BY <1>19, <2>0 DEF Defer, WorkInv, Owned, OwnedAt, Claimed, Open
  <2>4. Recovered'
    BY <1>19, <2>0 DEF Defer, WorkInv, Owned, OwnedAt, Claimed, Recovered, Open
  <2> QED
    BY <2>1, <2>2, <2>3, <2>4 DEF WorkInv, Owned
<1>20. ASSUME NEW p \in Process, Exit(p) PROVE WorkInv'
  BY <1>20 DEF Exit, Dead, WorkInv, GpuInv, LockHeld, Owned, OwnedAt, Claimed, Recovered,
     Open
<1>21. ASSUME NEW p \in Process, StoreEndsRun(p) PROVE WorkInv'
  <2>1. OwnedAt(p)'
    BY <1>21 DEF StoreEndsRun, Return, Free, WorkInv, Owned, OwnedAt
  <2>2. QuietStep(p)
    BY <1>21 DEF StoreEndsRun, Return, Free, QuietStep
  <2> QED
    BY <2>1, <2>2, QuietWork
<1>22. ASSUME NEW p \in Process, StoreFailsJob(p) PROVE WorkInv'
  <2>1. OwnedAt(p)'
    <3>1. cur[p] # 0 => claimed_by[cur[p]] = p /\ state[cur[p]] = "running"
      BY <1>22 DEF StoreFailsJob, WorkInv, Owned, OwnedAt
    <3> QED
      BY <1>22, <3>1 DEF StoreFailsJob, Return, Free, OwnedAt
  <2>2. QuietStep(p)
    BY <1>22 DEF StoreFailsJob, Return, Free, QuietStep
  <2> QED
    BY <2>1, <2>2, QuietWork
<1>23. ASSUME NEW p \in Process, SinkUnavailable(p) PROVE WorkInv'
  <2>1. OwnedAt(p)'
    BY <1>23 DEF SinkUnavailable, Return, Free, WorkInv, Owned, OwnedAt
  <2>2. QuietStep(p)
    BY <1>23 DEF SinkUnavailable, Return, Free, QuietStep
  <2> QED
    BY <2>1, <2>2, QuietWork
<1>24. ASSUME NEW p \in Process, GalleryFails(p) PROVE WorkInv'
  <2>1. OwnedAt(p)'
    BY <1>24 DEF GalleryFails, WorkInv, Owned, OwnedAt
  <2>2. QuietStep(p)
    BY <1>24 DEF GalleryFails, QuietStep
  <2> QED
    BY <2>1, <2>2, QuietWork
<1>25. ASSUME NEW p \in Process, CompletionUnrecorded(p) PROVE WorkInv'
  <2>1. OwnedAt(p)'
    BY <1>25 DEF CompletionUnrecorded, Return, Free, WorkInv, Owned, OwnedAt
  <2>2. QuietStep(p)
    BY <1>25 DEF CompletionUnrecorded, Return, Free, QuietStep
  <2> QED
    BY <2>1, <2>2, QuietWork
<1>26. ASSUME NEW p \in Process, Kill(p) PROVE WorkInv'
  BY <1>26 DEF Kill, Dead, Alive, WorkInv, GpuInv, LockHeld, Owned, OwnedAt, Claimed,
     Recovered, Open
<1>27. ASSUME NEW j \in Job, Submit(j) PROVE WorkInv'
  BY <1>27 DEF Submit, WorkInv, GpuInv, LockHeld, Owned, OwnedAt, Claimed, Recovered, Open
<1>28. ASSUME NEW j \in Job, RequestCancel(j) PROVE WorkInv'
  <2>1. \A k \in Job : state'[k] = state[k] \/ (state[k] = "queued" /\ state'[k] = "cancelled")
    BY <1>28 DEF RequestCancel
  <2>2. UNCHANGED <<claimed_by, execLock, pc, cur, why>>
    BY <1>28 DEF RequestCancel
  <2>3. ASSUME NEW q \in Process PROVE OwnedAt(q)'
    <3>1. cur[q] # 0 => cur[q] \in Job /\ state[cur[q]] # "queued"
      BY DEF WorkInv, Owned, OwnedAt
    <3>2. cur[q] # 0 => state'[cur[q]] = state[cur[q]] /\ claimed_by'[cur[q]] = claimed_by[cur[q]]
      BY <2>1, <2>2, <3>1
    <3> QED
      BY <2>2, <3>2, Untouched
  <2>4. Claimed' /\ Recovered'
    BY <2>1, <2>2 DEF WorkInv, Claimed, Recovered, Open
  <2> QED
    BY <2>3, <2>4 DEF WorkInv, Owned
<1>29. ASSUME NEW g \in Gpu, Supervise(g) PROVE WorkInv'
  <2>1. Owned'
    BY <1>29 DEF Supervise, Start, WorkInv, GpuInv, LockHeld, Owned, OwnedAt, Claimed,
       Recovered, Open
  <2>2. Claimed'
    BY <1>29 DEF Supervise, Start, WorkInv, GpuInv, LockHeld, Owned, OwnedAt, Claimed,
       Recovered, Open
  <2>3. Recovered'
    BY <1>29 DEF Supervise, Start, WorkInv, GpuInv, LockHeld, Owned, OwnedAt, Claimed,
       Recovered, Open
  <2> QED
    BY <2>1, <2>2, <2>3 DEF WorkInv
<1>30. ASSUME SupervisorRestarts PROVE WorkInv'
  BY <1>30 DEF SupervisorRestarts, WorkInv, GpuInv, LockHeld, Owned, OwnedAt, Claimed,
     Recovered, Open
<1>31. CASE UNCHANGED vars
  BY <1>31 DEF vars, WorkInv, GpuInv, LockHeld, Owned, OwnedAt, Claimed, Recovered, Open
<1> QED
  BY <1>1, <1>2, <1>3, <1>4, <1>5, <1>6, <1>7, <1>8, <1>9, <1>10, <1>11, <1>12, <1>13,
     <1>14, <1>15, <1>16, <1>17, <1>18, <1>19, <1>20, <1>21, <1>22, <1>23, <1>24, <1>25, <1>26,
     <1>27, <1>28, <1>29, <1>30, <1>31 DEF Next, Executor, Breaks

LEMMA RowUntouched ==
  ASSUME AssetInv, NEW j \in Job, state'[j] = state[j], file'[j] = file[j],
         cancel_requested'[j] = cancel_requested[j], error'[j] = error[j]
  PROVE  JobOk(j)'
  BY DEF AssetInv, JobsOk, JobOk

(* Assets, the index and what a failed row says of them.                    *)
LEMMA StepAsset ==
  TypeInv /\ WorkInv /\ AssetInv /\ TypeInv' /\ [Next]_vars => AssetInv'
<1> SUFFICES ASSUME TypeInv /\ WorkInv /\ AssetInv, TypeInv', [Next]_vars PROVE AssetInv'
  OBVIOUS
<1> USE MediaAssumption DEF table, volume, locks, process, supervisor, Goto, Set, Mine, Fails,
                           Fault, Holding, Working, Committed, TypeInv, TypeOK, AtWork
<1>1. ASSUME NEW p \in Process, AcquireExecutorLock(p) PROVE AssetInv'
  BY <1>1 DEF AcquireExecutorLock, Return, Free, AssetInv, WorkInv, Owned, OwnedAt,
     JobsOk, JobOk, Published, IndexLocked, Indexed
<1>2. ASSUME NEW p \in Process, RecoverGpu(p) PROVE AssetInv'
  BY <1>2 DEF RecoverGpu, Orphans, AssetInv, WorkInv, Owned, OwnedAt, JobsOk, JobOk,
     Published, IndexLocked,
     Indexed
<1>3. ASSUME NEW p \in Process, ClaimFor(p) PROVE AssetInv'
  BY <1>3 DEF ClaimFor, Servable, Queued, AssetInv, WorkInv, Owned, OwnedAt, JobsOk, JobOk,
     Published, IndexLocked,
     Indexed
<1>4. ASSUME NEW p \in Process, Unload(p) PROVE AssetInv'
  BY <1>4 DEF Unload, Unloaded, Free, AssetInv, WorkInv, Owned, OwnedAt, JobsOk, JobOk,
     Published, IndexLocked,
     Indexed
<1>5. ASSUME NEW p \in Process, UnloadIdle(p) PROVE AssetInv'
  BY <1>5 DEF UnloadIdle, AssetInv, WorkInv, Owned, OwnedAt, JobsOk, JobOk, Published,
     IndexLocked,
     Indexed
<1>6. ASSUME NEW p \in Process, Reject(p) PROVE AssetInv'
  BY <1>6 DEF Reject, AssetInv, WorkInv, Owned, OwnedAt, JobsOk, JobOk, Published, IndexLocked,
     Indexed
<1>7. ASSUME NEW p \in Process, SwitchModel(p) PROVE AssetInv'
  BY <1>7 DEF SwitchModel, Unloaded, Free, Retain, Wanted, AssetInv, WorkInv, Owned,
     OwnedAt, JobsOk, JobOk, Published, IndexLocked, Indexed
<1>8. ASSUME NEW p \in Process, Resident(p) PROVE AssetInv'
  BY <1>8 DEF Resident, Wanted, AssetInv, WorkInv, Owned, OwnedAt, JobsOk, JobOk, Published,
     IndexLocked,
     Indexed
<1>9. ASSUME NEW p \in Process, Load(p) PROVE AssetInv'
  BY <1>9 DEF Load, Wanted, Retain, AssetInv, WorkInv, Owned, OwnedAt, JobsOk, JobOk,
     Published, IndexLocked,
     Indexed
<1>10. ASSUME NEW p \in Process, Render(p) PROVE AssetInv'
  BY <1>10 DEF Render, AssetInv, WorkInv, Owned, OwnedAt, JobsOk, JobOk, Published, IndexLocked,
     Indexed
<1>11. ASSUME NEW p \in Process, BeginPublish(p) PROVE AssetInv'
  <2>q. cur[p] \in Job /\ OwnedAt(p)
    BY <1>11 DEF BeginPublish, WorkInv, Owned
  <2>0. PICK k \in Job : k = cur[p] /\ OwnedAt(p) /\ JobOk(k)
    BY <2>q DEF AssetInv, JobsOk
  <2>1. ASSUME NEW j \in Job, j # k PROVE JobOk(j)'
    BY <1>11, <2>0, <2>1, RowUntouched DEF BeginPublish
  <2>2. JobOk(k)'
    BY <1>11, <2>0 DEF BeginPublish, OwnedAt, JobOk
  <2>3. Published'
    BY <1>11, <2>0 DEF BeginPublish, AssetInv, Published
  <2>4. IndexLocked'
    BY <1>11 DEF BeginPublish, AssetInv, IndexLocked
  <2>5. Indexed'
    BY <1>11, <2>0 DEF BeginPublish, OwnedAt, AssetInv, Indexed, Published
  <2> QED
    BY <2>1, <2>2, <2>3, <2>4, <2>5 DEF AssetInv, JobsOk
<1>12. ASSUME NEW p \in Process, Publish(p) PROVE AssetInv'
  BY <1>12 DEF Publish, AssetInv, WorkInv, Owned, OwnedAt, JobsOk, JobOk, Published,
     IndexLocked,
     Indexed
<1>13. ASSUME NEW p \in Process, RegisterAsset(p) PROVE AssetInv'
  BY <1>13 DEF RegisterAsset, AssetInv, WorkInv, Owned, OwnedAt, JobsOk, JobOk, Published,
     IndexLocked,
     Indexed
<1>14. ASSUME NEW p \in Process, ReplaceIndex(p) PROVE AssetInv'
  BY <1>14 DEF ReplaceIndex, AssetInv, WorkInv, Owned, OwnedAt, JobsOk, JobOk, Published,
     IndexLocked,
     Indexed
<1>15. ASSUME NEW p \in Process, UnlockIndex(p) PROVE AssetInv'
  BY <1>15 DEF UnlockIndex, AssetInv, WorkInv, Owned, OwnedAt, JobsOk, JobOk, Published,
     IndexLocked,
     Indexed
<1>16. ASSUME NEW p \in Process, Complete(p) PROVE AssetInv'
  <2>q. cur[p] \in Job /\ OwnedAt(p)
    BY <1>16 DEF Complete, WorkInv, Owned
  <2>0. PICK k \in Job : k = cur[p] /\ OwnedAt(p) /\ JobOk(k)
    BY <2>q DEF AssetInv, JobsOk
  <2>1. ASSUME NEW j \in Job, j # k PROVE JobOk(j)'
    BY <1>16, <2>0, <2>1, RowUntouched DEF Complete
  <2>2. JobOk(k)'
    BY <1>16, <2>0 DEF Complete, OwnedAt, JobOk
  <2>3. Published'
    BY <1>16, <2>0 DEF Complete, NextJob, Return, Free, AssetInv, Published
  <2>4. IndexLocked'
    BY <1>16 DEF Complete, NextJob, Return, Free, AssetInv, IndexLocked
  <2>5. Indexed'
    BY <1>16, <2>0 DEF Complete, NextJob, Return, Free, OwnedAt, AssetInv, Indexed, Published
  <2> QED
    BY <2>1, <2>2, <2>3, <2>4, <2>5 DEF AssetInv, JobsOk
<1>17. ASSUME NEW p \in Process, FailJob(p) PROVE AssetInv'
  <2>q. cur[p] \in Job /\ OwnedAt(p)
    BY <1>17 DEF FailJob, WorkInv, Owned
  <2>0. PICK k \in Job : k = cur[p] /\ OwnedAt(p) /\ JobOk(k)
    BY <2>q DEF AssetInv, JobsOk
  <2>1. ASSUME NEW j \in Job, j # k PROVE JobOk(j)'
    BY <1>17, <2>0, <2>1, RowUntouched DEF FailJob
  <2>2. JobOk(k)'
    BY <1>17, <2>0 DEF FailJob, OwnedAt, JobOk
  <2>3. Published'
    BY <1>17, <2>0 DEF FailJob, NextJob, Return, Free, AssetInv, Published
  <2>4. IndexLocked'
    BY <1>17 DEF FailJob, NextJob, Return, Free, AssetInv, IndexLocked
  <2>5. Indexed'
    BY <1>17, <2>0 DEF FailJob, NextJob, Return, Free, OwnedAt, AssetInv, Indexed, Published
  <2> QED
    BY <2>1, <2>2, <2>3, <2>4, <2>5 DEF AssetInv, JobsOk
<1>18. ASSUME NEW p \in Process, FinishCancelled(p) PROVE AssetInv'
  <2>q. cur[p] \in Job /\ OwnedAt(p)
    BY <1>18 DEF FinishCancelled, WorkInv, Owned
  <2>0. PICK k \in Job : k = cur[p] /\ OwnedAt(p) /\ JobOk(k)
    BY <2>q DEF AssetInv, JobsOk
  <2>1. ASSUME NEW j \in Job, j # k PROVE JobOk(j)'
    BY <1>18, <2>0, <2>1, RowUntouched DEF FinishCancelled
  <2>2. JobOk(k)'
    BY <1>18, <2>0 DEF FinishCancelled, OwnedAt, JobOk
  <2>3. Published'
    BY <1>18, <2>0 DEF FinishCancelled, NextJob, AssetInv, Published
  <2>4. IndexLocked'
    BY <1>18 DEF FinishCancelled, NextJob, AssetInv, IndexLocked
  <2>5. Indexed'
    BY <1>18, <2>0 DEF FinishCancelled, NextJob, OwnedAt, AssetInv, Indexed, Published
  <2> QED
    BY <2>1, <2>2, <2>3, <2>4, <2>5 DEF AssetInv, JobsOk
<1>19. ASSUME NEW p \in Process, Defer(p) PROVE AssetInv'
  <2>q. cur[p] \in Job /\ OwnedAt(p)
    BY <1>19 DEF Defer, WorkInv, Owned
  <2>0. PICK k \in Job : k = cur[p] /\ OwnedAt(p) /\ JobOk(k)
    BY <2>q DEF AssetInv, JobsOk
  <2>1. ASSUME NEW j \in Job, j # k PROVE JobOk(j)'
    BY <1>19, <2>0, <2>1, RowUntouched DEF Defer
  <2>2. JobOk(k)'
    BY <1>19, <2>0 DEF Defer, OwnedAt, JobOk
  <2>3. Published'
    BY <1>19, <2>0 DEF Defer, AssetInv, Published
  <2>4. IndexLocked'
    BY <1>19 DEF Defer, AssetInv, IndexLocked
  <2>5. Indexed'
    BY <1>19, <2>0 DEF Defer, OwnedAt, AssetInv, Indexed, Published
  <2> QED
    BY <2>1, <2>2, <2>3, <2>4, <2>5 DEF AssetInv, JobsOk
<1>20. ASSUME NEW p \in Process, Exit(p) PROVE AssetInv'
  BY <1>20 DEF Exit, Dead, AssetInv, WorkInv, Owned, OwnedAt, JobsOk, JobOk, Published,
     IndexLocked,
     Indexed
<1>21. ASSUME NEW p \in Process, StoreEndsRun(p) PROVE AssetInv'
  BY <1>21 DEF StoreEndsRun, Return, Free, AssetInv, WorkInv, Owned, OwnedAt, JobsOk, JobOk,
     Published, IndexLocked,
     Indexed
<1>22. ASSUME NEW p \in Process, StoreFailsJob(p) PROVE AssetInv'
  BY <1>22 DEF StoreFailsJob, Return, Free, AssetInv, WorkInv, Owned, OwnedAt, JobsOk, JobOk,
     Published, IndexLocked,
     Indexed
<1>23. ASSUME NEW p \in Process, SinkUnavailable(p) PROVE AssetInv'
  BY <1>23 DEF SinkUnavailable, Return, Free, AssetInv, WorkInv, Owned, OwnedAt, JobsOk,
     JobOk, Published, IndexLocked,
     Indexed
<1>24. ASSUME NEW p \in Process, GalleryFails(p) PROVE AssetInv'
  BY <1>24 DEF GalleryFails, AssetInv, WorkInv, Owned, OwnedAt, JobsOk, JobOk, Published,
     IndexLocked,
     Indexed
<1>25. ASSUME NEW p \in Process, CompletionUnrecorded(p) PROVE AssetInv'
  BY <1>25 DEF CompletionUnrecorded, Return, Free, AssetInv, WorkInv, Owned, OwnedAt,
     JobsOk, JobOk, Published, IndexLocked, Indexed
<1>26. ASSUME NEW p \in Process, Kill(p) PROVE AssetInv'
  BY <1>26 DEF Kill, Dead, Alive, AssetInv, WorkInv, Owned, OwnedAt, JobsOk, JobOk,
     Published, IndexLocked,
     Indexed
<1>27. ASSUME NEW j \in Job, Submit(j) PROVE AssetInv'
  BY <1>27 DEF Submit, AssetInv, WorkInv, Owned, OwnedAt, JobsOk, JobOk, Published, IndexLocked,
     Indexed
<1>28. ASSUME NEW j \in Job, RequestCancel(j) PROVE AssetInv'
  <2>1. ASSUME NEW k \in Job, k # j PROVE JobOk(k)'
    BY <1>28, <2>1, RowUntouched DEF RequestCancel
  <2>2. JobOk(j)'
    BY <1>28 DEF RequestCancel, AssetInv, JobsOk, JobOk
  <2>3. Published' /\ IndexLocked'
    BY <1>28 DEF RequestCancel, AssetInv, Published, IndexLocked
  <2>4. Indexed'
    BY <1>28 DEF RequestCancel, AssetInv, Indexed
  <2> QED
    BY <2>1, <2>2, <2>3, <2>4 DEF AssetInv, JobsOk
<1>29. ASSUME NEW g \in Gpu, Supervise(g) PROVE AssetInv'
  BY <1>29 DEF Supervise, Start, AssetInv, WorkInv, Owned, OwnedAt, JobsOk, JobOk, Published,
     IndexLocked,
     Indexed
<1>30. ASSUME SupervisorRestarts PROVE AssetInv'
  BY <1>30 DEF SupervisorRestarts, AssetInv, WorkInv, Owned, OwnedAt, JobsOk, JobOk,
     Published, IndexLocked,
     Indexed
<1>31. CASE UNCHANGED vars
  BY <1>31 DEF vars, AssetInv, WorkInv, Owned, OwnedAt, JobsOk, JobOk, Published, IndexLocked,
     Indexed
<1> QED
  BY <1>1, <1>2, <1>3, <1>4, <1>5, <1>6, <1>7, <1>8, <1>9, <1>10, <1>11, <1>12, <1>13,
     <1>14, <1>15, <1>16, <1>17, <1>18, <1>19, <1>20, <1>21, <1>22, <1>23, <1>24, <1>25, <1>26,
     <1>27, <1>28, <1>29, <1>30, <1>31 DEF Next, Executor, Breaks

-----------------------------------------------------------------------------
(* The refinement.  A step of the owner or of an executor is the step of    *)
(* ImageJobs with its name, or one the owner cannot see.                    *)
Unseen == UNCHANGED <<state, cancel_requested, file>>

LEMMA PromiseInit == Init => Promise!Init
  BY DEF Init, Promise!Init

LEMMA PromiseStep == TypeInv /\ WorkInv /\ AssetInv /\ [Next]_vars => [Promise!Next]_(Promise!vars)
<1> SUFFICES ASSUME TypeInv, WorkInv, AssetInv, [Next]_vars PROVE Promise!Next \/ Unseen
  BY DEF Unseen, Promise!vars
<1> USE DEF table, volume, locks, process, supervisor, Goto, Set, Mine, Fails
<1>1. ASSUME NEW j \in Job, Submit(j) PROVE Promise!Submit(j)
  BY <1>1 DEF Submit, Promise!Submit, Promise!Move
<1>2. ASSUME NEW j \in Job, RequestCancel(j) PROVE Promise!CancelWaiting(j) \/ Promise!CancelRunning(j)
  BY <1>2 DEF RequestCancel, Promise!CancelWaiting, Promise!CancelRunning, Promise!Move
<1>3. ASSUME NEW p \in Process, RecoverGpu(p) PROVE Promise!Sweep
  <2>1. Orphans(p, "running") \cup Orphans(p, "publishing")
          \in SUBSET {j \in Job : state[j] \in {"running", "publishing"}}
    BY DEF Orphans
  <2> QED
    BY <1>3, <2>1 DEF RecoverGpu, Promise!Sweep
<1>4. ASSUME NEW p \in Process, ClaimFor(p) PROVE \E j \in Job : Promise!Begin(j)
  BY <1>4 DEF ClaimFor, Servable, Queued, Promise!Begin, Promise!Move
<1>5. ASSUME NEW p \in Process, BeginPublish(p) PROVE cur[p] \in Job /\ (Unseen \/ Promise!Commit(cur[p]))
  <2>1. cur[p] \in Job /\ claimed_by[cur[p]] = p
    BY <1>5 DEF BeginPublish, TypeInv, TypeOK, AtWork, WorkInv, Owned, OwnedAt, Working,
       Committed
  <2> QED
    BY <1>5, <2>1 DEF BeginPublish, Unseen, Promise!Commit, Promise!Move, WorkInv, Owned,
       OwnedAt, Working, Committed
<1>6. ASSUME NEW p \in Process, Publish(p) PROVE cur[p] \in Job /\ Promise!Publish(cur[p])
  <2>1. cur[p] \in Job /\ state[cur[p]] = "publishing"
    BY <1>6 DEF Publish, TypeInv, TypeOK, AtWork, WorkInv, Owned, OwnedAt, Working, Committed
  <2>2. file' = [file EXCEPT ![cur[p]] = TRUE] /\ UNCHANGED <<state, cancel_requested>>
    BY <1>6 DEF Publish
  <2> QED
    BY <2>1, <2>2 DEF Promise!Publish
<1>7. ASSUME NEW p \in Process, Complete(p) PROVE cur[p] \in Job /\ (Unseen \/ Promise!Complete(cur[p]))
  <2>1. cur[p] \in Job /\ claimed_by[cur[p]] = p
    BY <1>7 DEF Complete, TypeInv, TypeOK, AtWork, WorkInv, Owned, OwnedAt, Working, Committed
  <2> QED
    BY <1>7, <2>1 DEF Complete, AssetInv, Published, Unseen, Promise!Complete, Promise!Move,
       WorkInv, Owned, OwnedAt, Working, Committed
<1>8. ASSUME NEW p \in Process, FailJob(p) PROVE cur[p] \in Job /\ (Unseen \/ Promise!Stop(cur[p]))
  <2>1. cur[p] \in Job /\ claimed_by[cur[p]] = p
    BY <1>8 DEF FailJob, TypeInv, TypeOK, AtWork, WorkInv, Owned, OwnedAt, Working, Committed
  <2> QED
    BY <1>8, <2>1 DEF FailJob, Unseen, Promise!Stop, Promise!Move, WorkInv, Owned, OwnedAt,
       Working, Committed
<1>9. ASSUME NEW p \in Process, FinishCancelled(p) PROVE cur[p] \in Job /\ (Unseen \/ Promise!Stop(cur[p]))
  <2>1. cur[p] \in Job /\ claimed_by[cur[p]] = p
    BY <1>9 DEF FinishCancelled, TypeInv, TypeOK, AtWork, WorkInv, Owned, OwnedAt, Working,
       Committed
  <2> QED
    BY <1>9, <2>1 DEF FinishCancelled, Unseen, Promise!Stop, Promise!Move, WorkInv, Owned,
       OwnedAt, Working, Committed
<1>10. ASSUME NEW p \in Process, Defer(p) PROVE cur[p] \in Job /\ (Unseen \/ Promise!Stop(cur[p]) \/ Promise!Requeue(cur[p]))
  <2>1. cur[p] \in Job /\ claimed_by[cur[p]] = p
    BY <1>10 DEF Defer, TypeInv, TypeOK, AtWork, WorkInv, Owned, OwnedAt, Working, Committed
  <2> QED
    BY <1>10, <2>1 DEF Defer, Unseen, Promise!Stop, Promise!Requeue, Promise!Move, WorkInv,
       Owned, OwnedAt, Working, Committed
<1>11. ASSUME NEW p \in Process, \/ AcquireExecutorLock(p) \/ Unload(p) \/ UnloadIdle(p) \/ Reject(p)
               \/ SwitchModel(p) \/ Resident(p) \/ Load(p) \/ Render(p) \/ RegisterAsset(p)
               \/ ReplaceIndex(p) \/ UnlockIndex(p) \/ Exit(p) \/ Breaks(p)
        PROVE Unseen
  BY <1>11 DEF AcquireExecutorLock, Unload, UnloadIdle, Reject, SwitchModel, Resident, Load,
     Render,
     RegisterAsset, ReplaceIndex, UnlockIndex, Exit, Breaks, StoreEndsRun, StoreFailsJob,
     SinkUnavailable, GalleryFails, CompletionUnrecorded, Kill, Unseen
<1>12. ASSUME (\E g \in Gpu : Supervise(g)) \/ SupervisorRestarts \/ UNCHANGED vars PROVE Unseen
  BY <1>12 DEF Supervise, SupervisorRestarts, vars, Unseen
<1> QED
  BY <1>1, <1>2, <1>3, <1>4, <1>5, <1>6, <1>7, <1>8, <1>9, <1>10, <1>11, <1>12 DEF Next,
     Executor, Promise!Next

-----------------------------------------------------------------------------
MediaInv == TypeInv /\ GpuInv /\ WorkInv /\ AssetInv

LEMMA InitInv == Init => MediaInv
<1> SUFFICES ASSUME Init PROVE GpuInv /\ WorkInv /\ AssetInv
  BY InitTypes DEF MediaInv
<1>1. GpuInv
  BY DEF Init, GpuInv, LockHeld, LeaseHeld, Retained, Occupies, Holding, Working, Committed
<1>2. WorkInv
  BY DEF Init, WorkInv, Owned, OwnedAt, Claimed, Recovered, Open, Holding, Working, Committed
<1>3. AssetInv
  BY DEF Init, AssetInv, JobsOk, JobOk, Published, IndexLocked, Indexed
<1> QED
  BY <1>1, <1>2, <1>3

LEMMA StepInv == MediaInv /\ [Next]_vars => MediaInv'
  BY StepTypes, StepGpu, StepWork, StepAsset DEF MediaInv

LEMMA MediaInvariant == Spec => []MediaInv
  BY InitInv, StepInv, PTL DEF Spec

(* Rows, files, locks and processes have the shapes the code gives them.    *)
THEOREM MediaTypes == Spec => []TypeOK
<1>1. MediaInv => TypeOK
  BY DEF MediaInv, TypeInv
<1> QED
  BY <1>1, MediaInvariant, PTL

(* No executor, recovery or owner takes the row of a job away from the      *)
(* process at work on it (media_executor.py, image_job_store.py).           *)
THEOREM WorkStaysOwned == Spec => []WorkIsOwned
<1>1. MediaInv => WorkIsOwned
  BY DEF MediaInv, WorkInv, Owned, OwnedAt, WorkIsOwned
<1> QED
  BY <1>1, MediaInvariant, PTL

(* A GPU never holds two models, counting memory that was not proven free   *)
(* (media_executor.py, gpu_lease.py).                                       *)
THEOREM OneModel == Spec => []OneModelPerGpu
<1>1. MediaInv => OneModelPerGpu
  BY DEF MediaInv, GpuInv, LeaseHeld, OneModelPerGpu
<1> QED
  BY <1>1, MediaInvariant, PTL

(* An accepted cancellation excludes an asset and another wait              *)
(* (image_job_store.py).                                                    *)
THEOREM CancellationWins == Spec => []CancelWins
<1>1. MediaInv => CancelWins
  BY DEF MediaInv, AssetInv, JobsOk, JobOk, CancelWins
<1> QED
  BY <1>1, MediaInvariant, PTL

(* Whoever takes jobs for a GPU has left no claim of that GPU behind        *)
(* (media_executor.py, recover_interrupted).                                *)
THEOREM LeavesNothingBehind == Spec => []NothingLeftBehind
<1>1. MediaInv => NothingLeftBehind
  <2> SUFFICES ASSUME MediaInv, NEW p \in Process, pc[p] \in {"idle", "unload"},
                      NEW j \in Job, state[j] \in {"running", "publishing"},
                      GpuOf[claimed_by[j]] = GpuOf[p]
               PROVE  FALSE
    BY DEF NothingLeftBehind
  <2>1. claimed_by[j] = p
    BY DEF MediaInv, WorkInv, Recovered, Open, Holding
  <2>2. cur[p] = j
    BY <2>1 DEF MediaInv, WorkInv, Claimed, Open
  <2>3. cur[p] = 0
    BY DEF MediaInv, TypeInv, AtWork, Working, Committed
  <2> QED
    BY <2>2, <2>3, MediaAssumption
<1> QED
  BY <1>1, MediaInvariant, PTL

(* Row, file and index of every job agree, so that what is left of an       *)
(* interrupted publication can be told (media_gallery_index_writer.py).     *)
THEOREM GalleryStaysInAgreement == Spec => []GalleryAgrees
<1>1. MediaInv => GalleryAgrees
  <2> SUFFICES ASSUME MediaInv, NEW j \in Job
               PROVE  /\ j \in index => file[j]
                      /\ state[j] = "completed" => j \in index
                      /\ file[j] =>
                           \/ state[j] \in {"publishing", "completed"}
                           \/ /\ state[j] = "failed"
                              /\ error[j] \in {"publication_failed", "interrupted_publication"}
    BY DEF GalleryAgrees
  <2>1. (j \in index => file[j]) /\ (state[j] = "completed" => j \in index)
    BY DEF MediaInv, AssetInv, Indexed
  <2>2. JobOk(j)
    BY DEF MediaInv, AssetInv, JobsOk
  <2> QED
    BY <2>1, <2>2 DEF JobOk
<1> QED
  BY <1>1, MediaInvariant, PTL

(* Executors, locks, crashes and the gallery implement what the owner of a  *)
(* job is promised.                                                         *)
THEOREM PromiseKept == Spec => KeepsPromise
<1>1. MediaInv /\ [Next]_vars => [Promise!Next]_(Promise!vars)
  BY PromiseStep DEF MediaInv
<1> QED
  BY <1>1, PromiseInit, MediaInvariant, PTL DEF Spec, KeepsPromise, Promise!Spec

==============================================================================
