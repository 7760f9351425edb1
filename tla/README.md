# ModelRig in TLA+

ModelRig (Kaliv) is a home appliance: a Go backend in front of a Python worker, both kept
running by a supervisor and renewed by an updater, with Android and desktop clients. This
directory holds TLA+ models of the parts of it where the order of steps, a crash between two
of them or a second process decides whether the outcome is right:

* the **scheduler** of the worker, which runs tools unattended under a standing grant, and must
  never run one twice, never more often than approved, and never lose one silently;
* the **approval** of a schedule, which a human gives once, for exact terms, and which may
  authorize one write only;
* the **updater**, which replaces a set of binaries as one recoverable transaction;
* the **media executor**, which renders images on the GPUs for whoever submitted a job, must
  never hold two models on one GPU, and never publish what was cancelled;
* the **tool gate**, whose cards are answered once and whose kill switch must hold;
* the **exact task**, the repository's own way from a commit to production in eight stages, each
  of them a one-shot transaction against GitHub or the machine, with a recovery.

TLC checks them on small instances. TLAPS proves, for every number of schedules, processes, claims,
tokens, requests, GPUs, jobs, cards and callers, every safety property checked of the scheduler, the
approvals, the media executor and the tool gate, and two refinements.

Paths below are relative to `src/`.

## 1. The system

| part | where | state | operations |
|---|---|---|---|
| schedule store | `worker/app/scheduler.py` | SQLite: `schedules`, `occurrences`, `runner_lease` | create, claim_due, bind_job, record_claim_result, resolve_recovered, resolve_unknown_and_pause, set_enabled, acquire/release_lease, current_guard, delete |
| schedule admin | `worker/app/schedule_admin.py` | the same rows | create, pause, resume, renew, delete, with preview and consent |
| runner | `worker/app/schedule_runner_impl.py` | the claim in hand | recover_interrupted, run_once, _run_claim and its finishers |
| service, runtime | `worker/app/schedule_service.py`, `schedule_runtime.py` | loop and heartbeat threads | start, loop, heartbeat, stop |
| job store | `worker/app/jobs.py` | SQLite: job status | create, update, cancel; opening it marks running jobs interrupted |
| tool gate, audit | `worker/app/tools.py` | kill switch (file), pending confirmations, audit rows | propose, confirm, decline, execute, set_enabled |
| schedule approval | `worker/app/schedule_approval.py`, `schedule_api.py`, `backend/internal/httpapi/schedule_approvals.go` | used nonces, receipts | sign, forward, verify, consume, store |
| updater | `backend/cmd/modelrig-updater` | live/.old/.new binaries, backups, journal and its .tmp, lock | update, -recover, self-update |
| bootstrap | `scripts/kaliv-bootstrap.ps1` | – | recover, then start the set |
| supervisor | `backend/cmd/modelrig-supervisor` | child processes, heartbeat file | start, restart with backoff |
| backend | `backend/internal` | devices, pairing codes, grants | pairing, auth, proxying |
| image jobs | `worker/app/image_job_store.py` | SQLite: `image_jobs` | submit, request_cancel, claim_for, defer, begin_publish, complete, fail, recover_gpu |
| media executor | `worker/app/media_executor.py`, `diffusers_image_adapter.py`, `gpu_lease.py` | the job in hand, the resident model, the executor lock and the GPU's main lease | load, render, unload, publish |
| media gallery | `worker/app/media_gallery_store.py`, `media_gallery_index_writer.py`, `media_generation_reconciliation.py` | assets, index, its lock file | publish_for_job, register_asset; inspect_generation_consistency reads |
| exact task | `devcontrol/src/kaliv_dev_control/improvement_pilot_exact_task_*.py`, `durable_publication.py` | per stage: an authorization, a transaction ledger and a recovery ledger of create-once files | authorize, execute, recover, attest |
| Agent 3, Agent 4 | `worker/app/agent3`, `agent4` | plans, approvals, campaigns | planning, reviewed execution, cancellation, handoff |
| memory, consciousness core, voice, research, connectors, clients, the rest of devcontrol | see `PROJECT.json` | various | various |

How they meet. The runtime opens the job store and the schedule store, recovers, and starts two
threads: the loop, which ticks the runner, and the heartbeat, which renews the lease. A tick
takes the lease, claims what is due in one transaction, and takes each claim through a job, a
policy check, a second look at the live grant, an attempt marker in the audit log, the tool
gate, and the bookkeeping. Meanwhile the operator edits the same rows over HTTP, another worker
may start, and the supervisor or the updater may kill the process at any line. The updater runs
by hand, by schedule, or from the bootstrap script at logon; it stops the whole set, works on
files, and starts it again.

A grant for a writing tool comes from a human's confirmation: the backend signs the previewed terms
into a token of a few minutes, a client sends it along, and a thread of the worker previews and
verifies once more, burns the token's nonce in one transaction and stores grant and receipt in
another.

The API worker writes the image jobs, the executors of the GPUs claim them from the same table;
they meet in the gallery's index and, per GPU, in two file locks. The supervisor keeps one
executor per GPU alive and reads its exit code. The tool gate serves the chat's callers from a
thread pool, and the scheduler. The stages of the exact task run on an operator's machine and
meet only in their ledgers and in GitHub, where other people work too; the last stage starts a
controller on the appliance itself.

What is hard, and what correctness means:

* *Crashes between two commits.* After a crash nobody knows whether the tool ran. Refunding a
  write that happened is worse than a visible miss: recovery must decide from durable evidence.
* *Two processes.* An old worker that is stopping, or stalled, and its successor share the
  tables; only the lease and the claim transaction keep them apart.
* *Stale copies.* The runner acts on a snapshot of the grant; the operator changes the grant.
* *Accounting.* `runs_used` is incremented at the claim and decremented by whoever settles it,
  possibly after a renewal reset it.
* *Partial failure* of the bookkeeping after the effect.
* *Files instead of transactions* in the updater: every rename, truncation and fsync is a place
  to die.
* *Commit points.* A cancellation and a publication, an answer to a card and its expiry exclude
  one another only if one statement decides.
* *A resource that may not be free.* GPU memory that cannot be proven free must keep its lock.
* *Clocks.* A used nonce may be forgotten only when no clock can make its token valid again.
* *Lost answers.* A write to GitHub may have happened although its sender was told it failed; the
  recovery must find out, not repeat.

`PROJECT.json` lists every component with its status, and every such hazard at its line with
the properties that cover it or the reason none does yet.

## 2. The modules

| module | what it is |
|---|---|
| `ScheduleStore` | one row under one transaction, as operators on records: grants, occurrences, snapshots, catch_up, budget, pause, resume, renew, and the policies `refusal` and `_permanent_refusal` |
| `Scheduler` | any number of worker processes over the durable tables, one action per transaction, audit row or decision; the operator; crashes, store failures, stops and stalls |
| `OccurrenceLedger` | what the scheduler promises of an occurrence: taken once, written at most once while held, settled once, given back only if not written |
| `MCScheduler` | symmetry for TLC |
| `Updater`, `MCUpdater` | the updater: one action per file operation, and a process that may be killed between any two |
| `UpdaterProofs` | the theorems about it |
| `SchedulerProofs`, `SchedulerClaimProofs`, `SchedulerGrantProofs` | the theorems about the scheduler, each module extending the one before it |
| `ScheduleApproval`, `MCScheduleApproval` | tokens, used nonces, receipts and the requests that carry them: two programs, threads, crashes, and a wall clock that is corrected |
| `ScheduleApprovalProofs` | the theorems about the approvals |
| `ImageJobs` | what the owner of an image job is promised: committed at most once, never after an accepted cancellation, completed only with its asset |
| `MediaExecutor`, `MCMediaExecutor` | job table, executors, GPU locks, gallery and the supervisor's restart policy |
| `MediaExecutorProofs` | the theorems about it, with the refinement of `ImageJobs` |
| `ToolGate`, `MCToolGate` | cards and the kill switch: callers, admins, file operations, restarts |
| `ToolGateProofs` | the theorems about both |
| `ExactTaskState` | the state the eight stages share, and the steps they share: authorize, acquire, observe, send, record |
| `ExactTaskPublication`, `ExactTaskLifecycle`, `ExactTaskMerge`, `ExactTaskRelease`, `ExactTaskStaging`, `ExactTaskActivation` | the stages, one module each (`Staging` holds three of one shape): the transaction's steps, the attestation before it, and what its recovery makes of an unfinished one |
| `ExactTask`, `MCExactTask` | the composition: recoveries, processes that die, foreign changes, and the properties |
| `ExactTaskProofs` | the theorems about the eight stages |

### Scheduler

State and code. `sch`, `occ`, `lease` and `job` are the tables; `attempted` and `receipts` are
the audit rows recovery reads; `brake` is the kill switch's file, and each process has its own
copy of it (`off`) as `ToolGate` does. `snap` are the `ScheduleClaim` objects. A process record
`wk[w]` holds what the Python process has in memory: where it is (`pc`), the batch and the claim
in hand, the outcome it is about to record. A process starts once: a restart is another element
of `Worker`, as every start makes a new owner id. `runs`, `base`, `noted` and `origin` are history: how
often a claim's tool really ran, which claims precede the current grant, the revision at which
recovery left the row of an unknown outcome, and the instant from which a schedule's instants count
since an operator last switched it on.

A tick is `TickBegin`, `ClaimDue`, and per claim `CreateJob`, `BindJob`, `Policy`, `Guard`,
`Attempt`, `Propose`, `RunTool`, `Receipt`, then `RecordExecuted` or `RecordReleased`,
`DisableGrant` when the refusal is permanent, and `CloseJob`. Each is one commit or one decision
on data read earlier, so each window the code leaves open is a state, and a crash, a stop, a
store failure, an operator's edit or another process fits in every one of them. `Start`,
`RecoverBegin`, `RecoverOne`, `Reconcile`, `RecoverDone` are the start; `Heartbeat`,
`StopRequest`, `StopJoined`, `StopTimeout`, `ThreadEnds` the service.

Abstractions. A schedule id stands for a tool and its arguments; its risk and whether the
registry lets it run unattended are constants. Cadences are a fixed period (calendar arithmetic
is `scheduler_time`, not modelled). A fingerprint is "the approval matches". SQLite transactions
are atomic and durable. `Start` and `CreateJob` are one step each for several short ones (opening the
job store, `disable_unschedulable` row by row and the load of the brake; `create` as queued and
`update` to running, neither of which is terminal), and `Reconcile` always writes the job, where
`_reconcile_job` swallows a failing update and leaves it as it was. `Tick` keeps the lease of a
healthy process alive (`Timely`): its heartbeat renews at a third of the ttl of 90 s, a drain lasts
at most 5 s; the fault `stall` removes this. No run turns `stall` on (it multiplies the states); the theorems of section 4 that name no
assumption are proved with it allowed.

### ScheduleApproval

`token` are the tokens the backend has signed, with the claims and the clock they carry, `uses` the
table `schedule_approval_uses`, `row` the schedules as far as an approval is concerned (terms and
revision), `receipts` the column `approval_receipts`. `req` are the worker's threads: a request is
before its verification, its consumption or its store, and `since` is when it passed the step
before. `now` is real time, `offset` how far the wall clock, which both programs read, is ahead of
it. `at`, in a token and a receipt, is history: when it really happened.

`Approve` is the human's confirmation, with the backend's second preview; `Forward` the backend's
comparison of request and token; `VerifyApproval`, `ConsumeApproval` and `Store` the worker's three
steps, the last two a transaction each: pruning and inserting, grant and receipt. A client may send
one token any number of times and at once. Between two steps the worker may crash, the store may
fail, the row may be paused, resumed, deleted or renewed by another request, and the clock may be
set.

Abstractions. Terms are everything that is signed of a grant: tool, cadence, horizon, budget and
fingerprints. Signatures, device, parsing, and the fields the two programs compare can only refuse;
so can the preview beyond the row's existence. A tool that only reads needs no approval. A request
waits less than `Stall` between two steps, since the connection waits at most 5 s for a lock.

### Updater

`live`, `old`, `new`, `bak` give the content of each binary, its `.old`, `.new` and its backup:
a version, `Absent`, or `Torn` while it is being written. `main` and `tmp` are the journal and
its `.tmp`. The process record `up` says which file operation comes next and, in `site`, on whose
behalf: which journal write it is, or which of the four uses of `atomicSwapInto`. The operators
`Then...` are the code's control flow between two operations: what follows a successful or failed
write, swap, restore. `good` is history: the version last committed; `running` is the set.

Faults: `kill` (the process), `power` (and the set with it), `io` (a file operation fails; a
failing fsync may or may not have written). A lock file survives its owner and is deleted by the
operator. `Begin` stands for reading the running version, downloading and verifying; `Verify` for
the health checks and the heartbeat proof, which may fail for any reason.

Abstractions. `Stop-ScheduledTask` and `Start-ScheduledTask` work. Recovery's restart of the
task belongs to the file operation before it. `recoverTarget`'s rename does not fail where no
journal speaks (no run reaches that case). Only the latest attempt's backup directory is kept.
Checked is the Windows build (`Native`), whose rename to `.old` is a copy and whose replacement is
one `ReplaceFileW`; the other build is in the model. Left out besides: an error of the stop command, which
`main.go:644-645` ignores; `recoverTarget`'s loop, one step for all binaries; a `ReplaceFileW` that
fails while a binary is put back over a live one; an update run with `-current` while the set is
down, which skips asking the server for its version.

### MediaExecutor

`state`, `claimed_by`, `cancel_requested`, `deferred`, `error` are columns of `image_jobs`; `file`,
`index`, `indexLock` the media volume; `execLock` and `lease` the two file locks of a GPU, which
the operating system drops with their process. A process lives once, as its instance id does:
`pc` is the transaction or file operation before it, `cur` its job, `model` what is in GPU memory,
`stuck` that memory could not be proven free, `why` the error it is about to store or its exit
code. `child` and `held` are the supervisor's.

`AcquireExecutorLock`, `RecoverGpu`, `ClaimFor` start an executor and a job; `SwitchModel`, `Load`,
`Resident` get its model; `Render`, `BeginPublish` (the commit point), `Publish`, `RegisterAsset`,
`ReplaceIndex`, `UnlockIndex`, `Complete` are its success; `FailJob`, `FinishCancelled`, `Defer` its
other ends, each a guarded UPDATE. Faults: a process dies, the supervisor dies without its
children, the media volume goes away, SQLite fails, memory is retained. What each exception does
is told by where it is raised: outside a job it ends `run()`, inside one it fails the job, once the
asset is linked the gallery turns it into another class.

Abstractions. Time is left out: a deferral's deadline is a number of deferrals, back-offs and the
idle timer end at some step. A request is valid or not by choice. The four error codes of a job
that failed before the commit point with its memory free are one. A process that ends drops its
locks and its memory at once (`GpuLease.__del__` may release the main lease a little earlier). An
executor never ends with 0 or 78, the two further codes of the supervisor's decision. The read-only
reconciliation is no action: it reads the rows once and then, job by job, index and files, so that
what it reports of a job that commits meanwhile, or of a volume that goes, is out of date by design;
`GalleryAgrees` is about the state it reads.

### ToolGate

`pending` is the dictionary of cards, `stale` the cards whose time is up, `trail` and `ran` the
audit rows and the effects of each card. A caller's `call` is a request in the thread pool: a
proposal sweeps expired cards, then reads the switch of the layer and of the tool one after the
other, then runs or parks; an answer takes its card off the table first. `enabled`, `disabled` are
the switch in memory; `disk`, `file` and `tmp` are inodes and names, since two saves at once share
one `.tmp`: the second open truncates it for both, and each writes from the start when it closes,
so that the shorter text over a longer one does not parse. `Restart` kills the worker anywhere
and loads the file.

`braked` and `raced` are history: which switches a save has promised off, and whether saves
overlapped in a way the code does not defend against (more than two, an arming one, or a failing
one). A restart on a file that cannot be read leaves the promise on the layer alone.

Abstractions. The length of the JSON text is decided by how many tools it names, and left open
between equals. Cards get fresh ids. Arguments, egress rules and descriptions are left out.

### ExactTask

`repo` is what GitHub holds of the task: base and head branch, pull request with its recorded base,
reviewers, the squash commit's parent, tag, releases, deployments, statuses. `rig` is the machine:
the switches in `modelrig.env`, the controller's output directory, the controller. `granted` are
consumed authorizations, `live` the authority still in some process' hands, `book` and `rbook` the
files of the two ledgers of a stage, `at` and `rat` where its two processes are, `saw` the
fingerprint a recovery was begun on.

Every stage is made of the same five steps. `Grant` consumes an authorization: what is attested
must hold, and a failed file leaves it consumed and useless. `Acquire` writes the lock. `Check`
observes again. `Send` makes one request, which is refused, answered, or lost before or after it
took effect. `Record` observes and writes the next file, where a failing file may be there
nevertheless. The stage modules say which observations, requests and files, and give `...Action`,
the classification its recovery computes from ledger and observation: "error" (refuse), "manual"
(people must look, nothing is written), "write" (one write is missing), "finalize". `ExactTask` adds
the recoveries, which observe, lock, observe the same again, make at most one write and keep a
receipt; they never ask whether the transaction still runs, and `overlap` remembers when it did. The
recovery of the activation writes nothing and keeps a receipt whatever it finds ("inactive" is one
more verdict there). The promotion controller is not in the repository; it is modelled from what
the transaction demands of its output, may fail anywhere, and lives on when its parent dies.

Abstractions. Signatures, keys, clocks and expiries are left out, as are the reviewers' approvals
and the probes of the staging runtime: each can only refuse. Requests do not take effect later than
their answer is lost.

## 3. What TLC checks

| run | instance | shows |
|---|---|---|
| `operator` | two processes that crash, the brake pulled and released | the budget across a recovery, complete recovery; every claim in hand is settled, and a due occurrence is taken although the lease's holder crashed |
| `operator_crash` | two processes, crash, stop timeout, audit failure, late tool errors; create, pause, resume, renew, delete, stop | one claim per occurrence and one run per claim without the help of the lease, exclusive work, slots counted, instants claimed or missed, unknown outcomes need a human, terminal jobs stay |
| `faults` | a write, a read and a malformed schedule, batches of one, crash, store failures, late job stores | honest refunds, living owners keep claims; `Scheduler` implements `OccurrenceLedger` |
| `approval` | two approvals, two threads, three requests, crash, failing store, a clock that runs ahead and is corrected | one write per approval, grants on the terms confirmed last, none long after its confirmation |
| `update` | two binaries, two releases, two transactions, three faults | the updater's invariants, and that a pending transaction heals |
| `media` | two GPUs, one of them restarted once, two jobs, two faults of any kind | executors never touch each other's jobs, a cancellation wins, row, file and index agree; `MediaExecutor` implements `ImageJobs` |
| `media_gpu` | one GPU, three lives of its executor, which overlap when the supervisor dies | one model in GPU memory, nothing left claimed, every job ends |
| `gate` | two callers, two admins, one tool and the layer, one card, three calls, two saves, failing files, one restart | cards end in one way, a saved brake holds |
| `exact_task` | eight stages, at most two faults, two foreign changes, three of both, one overlapping recovery | no write twice, one receipt, receipts that tell the truth, nothing stranded, stages in order |
| `killed_updater`, `two_completions`, `renewed_budget` | minimal | two documents and a message of the repository, refuted (section 5) |

The properties, in words:

* `OncePerOccurrence`: no due instant is claimed twice by whatever processes; no claim runs twice.
* `RefundedNeverRan`: a slot handed back, by the runner or by recovery, belongs to a write that
  never happened.
* `BudgetKept`: since it was created or renewed, a grant has caused at most `max_runs` writes, plus
  one for every claim from before the renewal whose slot came back. Only those that came back after
  the renewal enlarge the budget; nothing stored tells the others apart, so that the bound is loose
  by them. `operator` has no renewal; there the bound is `max_runs` itself, and the theorem covers
  the rest. `MaxRunsHold`, without the surplus, is what the documents say and `renewed_budget`
  refutes.
* `SlotsAccounted`: `runs_used` is the number of the grant's claims that hold a slot, but for at most
  those same refunds, and never more.
* `OneOwnerAtWork`, `LivingOwnerKeepsClaims`: what the lease is for.
* `RecoveryLeavesNoOrphans`: after a recovery under the lease, whatever is unresolved is in that
  process' hands.
* `NothingSkippedSilently`: of every row, paused, resumed and renewed or not, each due instant since
  an operator last switched it on is a claim or is counted in `missed`, none twice.
* `UnknownNeedsHuman`: once recovery has noted an outcome nobody can determine, the grant is enabled
  only at a revision later than the one recovery left, hence by a human's act after the fact. What
  was paused and resumed between the claim and its recovery does not count.
* `TerminalJobsStay`, `ImplementsLedger`. Liveness: `ClaimsSettle`, a claim in hand is settled or its
  process dies; `DueIsTaken`, a due occurrence is taken as long as one process stays up and the tools
  stay on.
* `ApprovalWritesOnce`: no two grants are stored on one approval. `GrantIsApproved`: the terms of a
  grant are those of the token its latest receipt names, and that receipt is the only one of its
  revision. `ApprovalIsFresh`: from the confirmation to the grant it is at most the token's lifetime,
  the error of the clock and two waits.
* `WholeSetRuns`: the set never runs mixed, incomplete or half written. `EvidenceKept`: whenever
  the binaries are not the version last committed, the journal says so or is unreadable, and the
  complete set is in the backups. Together: a committed update is never undone, no other is kept.
* `PendingHeals`: a pending transaction ends with the committed set running, unless its evidence
  is unreadable.
* `WorkIsOwned`: the job an executor works on is claimed by it and in the state it left it in,
  whatever recoveries, other executors and the owner do. `NothingLeftBehind`: an executor that
  takes jobs has settled every claim of its GPU's dead predecessors.
* `OneModelPerGpu`: also counting memory that could not be proven free, and a predecessor that has
  given up and not ended yet.
* `CancelWins`: no asset and no second wait after an accepted cancellation. `GalleryAgrees`:
  what is indexed exists, a completed job is in the index, and an asset without a completed job is
  being published or its job's error names the publication. `KeepsPromise` is the refinement; `JobsSettle` the liveness.
* `CardsEndOnce`: at most one audit row and one effect per card, over two answers, an answer and a
  sweep, the brake and a restart; nothing ran whose row says it was refused.
* `BrakeHolds`: after a save of the brake has succeeded, no call that comes later reaches its tool
  until it is armed again.
* `EachWriteOnce`, `OneCompletionUnlessOverlapped`, `WritesInOrder`: of a stage whose recovery did
  not overlap its transaction, each write took effect at most once and one receipt exists; no stage
  writes before the one before it was closed. `ReceiptsExact`: a receipt is kept only for what
  happened, up to the squash commit's parent and the switches of the machine; and a machine that
  was found inactive, nobody being at work, stays so. `NeverStranded`: while nobody else touches the repository, a
  stopped transaction is always something its recovery understands.

Bounds and why they are enough. `MaxClaims` = 2 gives a claim and its successor: a duplicate, a
refund of the earlier into the later's budget, and a batch left behind need no third; `faults` has
three schedules with a claim each instead, and `renewed_budget` a third claim for the write too
many. `Budgets` are 1, the last slot, and in `faults` 0 (unlimited). Two processes suffice for a
takeover. The lease lasts two units and the cadence one, so that leases expire within
`MaxNow` and occurrences are missed meanwhile. `CrashUntil` limits crashes and outlived stops to
the first units of the clock: a later one starts from the same tables one cadence on. `MaxRev` = 2
is a pause and a resume, or a renewal and a change after it. In `approval`, the lifetime of a
token, its skew, a wait and the error of the clock are one unit each, and `Retention` = 4 is the
least `ApprovalAssumption` allows: a week in the code, which covers clocks that err by three days
and a half. Three requests are an original, a retry and one with the other approval; `MaxNow` = 4
is when a clock that is ahead prunes the first nonce. In `update`, two binaries are the least that
can be mixed; the second transaction meets what the first left; three faults are a failed swap, a
failed attempt to put back and a failed rename in recovery. In `media`, two jobs give a job on each
GPU, a queue behind a running one and two registrations that meet at the index; `MaxWaits` = 1 is a
first deferral and one that is due; two faults are a death and what its recovery runs into.
`media_gpu` has a third process, for a successor beside an orphan. In `gate`, two callers race for
one card and a third call comes after the brake; two saves are what can overlap. In `exact_task`,
`MaxFaults` = 2 is a fault of a transaction and one of its recovery, `MaxDrift` = 2 a base that
moves and a merge by somebody else, `MaxTrouble` = 3 bounds them together with the overlaps, since
each stage only reads what the last left; `MaxOverlap` = 1 suffices for every stage by itself.
Symmetry is over processes, callers, admins, cards, tokens, requests, ids and terms only, in runs
without liveness.
Deadlock is not checked: a clock at its bound, every process ended or an idle updater is a proper
end of a behaviour.

Fairness. `FairSpec` of `Scheduler` gives weak fairness to the clock and to each process' startup,
loop, heartbeat and drained stop: threads of a live process run. Nothing is assumed of operators,
crashes or failures. `DueIsTaken` supposes that from some point on some process is up and no process
has the tools switched off: with the layer off the loop takes nothing, on purpose. A process
stuck for ever inside a tool is outside the model, as tools have timeouts. `FairSpec` of `Updater`
lets a run go on; that a stranded lock is deleted and the recovery run again, and that the
bootstrap runs when the set is down, is what the messages and the manual ask of the operator and
of the logon task. These last are strongly fair, since other runs may hold the lock meanwhile. The
bootstrap refuses to recover while the supervisor's executable is missing; then a run by hand is
what heals. `FairSpec` of `MediaExecutor` lets every process run on, GPU calls return (the adapter
polls, loads have time limits) and the supervisor poll; owners, faults and the idle timer owe
nothing. `JobsSettle` excepts a GPU the supervisor has given up.

## 4. What is proved

The proofs hold for all constants that meet the assumptions their module names: `StoreAssumption`
and `SchedulerAssumption`, `ApprovalAssumption`, `MediaAssumption`, `ToolGateAssumption`,
`UpdaterAssumption`, `ExactTaskAssumption`. "Under" is what a theorem supposes on top, in its
statement.

| theorem | under | says |
|---|---|---|
| `TypeSafe` | – | `Scheduler`'s `TypeOK` |
| `Once` | – | `OncePerOccurrence`, every fault included |
| `TerminalIsFinal` | – | `TerminalJobsStay`, every fault included |
| `NoSilentSkip`, `UnknownStops`, `SlotsAreCounted` | – | `NothingSkippedSilently`, `UnknownNeedsHuman`, `SlotsAccounted`, every fault included |
| `OneOwner` | no `stall` | `OneOwnerAtWork` |
| `OwnerKeepsClaims` | no `stall`, no `stop_timeout` | `LivingOwnerKeepsClaims` |
| `RecoveryIsComplete` | `NoDroppedClaims`: no stall, stop timeout or store failure | `RecoveryLeavesNoOrphans` |
| `RefundsAreHonest`, `LedgerImplemented`, `BudgetIsKept` | `NoLostEvidence`: no stall, stop timeout, late tool error or failing audit | `RefundedNeverRan`, `Ledger!Spec`, `BudgetKept` |
| `ApprovalTypes`, `OneWritePerApproval`, `GrantsAreApproved`, `ApprovalsAreFresh` | `Retention` at least `TTL + 2 * MaxOffset + Stall` | `ScheduleApproval`'s `TypeOK`, `ApprovalWritesOnce`, `GrantIsApproved`, `ApprovalIsFresh` |
| `MediaTypes`, `OneModel`, `WorkStaysOwned`, `CancellationWins`, `GalleryStaysInAgreement`, `LeavesNothingBehind` | – | `MediaExecutor`'s invariants, every fault included |
| `PromiseKept` | – | `MediaExecutor` implements `ImageJobs` |
| `GateTypes`, `CardsEnd`, `BrakeStays` | – | `ToolGate`'s invariants |
| `TypesKept`, `SetRunsWhole`, `EvidenceStays` | – | `Updater`'s invariants, every fault included, both builds |
| `TaskTypes`, `WritesOnce`, `ClosesOnce`, `ReceiptsAreExact`, `StrandsNothing`, `StagesInOrder` | – | `ExactTask`'s invariants, every fault included |

The faults a theorem excludes are those that break its property, or at least its argument; section 5
and the hazards say how.

*Scheduler.* `SchedulerProofs` starts with the operations on a row: each keeps a row a row, and
`catch_up` moves a due instant past the time it was called with. `TypeInv` adds to `TypeOK` what
typing needs across steps: a process that executes has a claim in hand. `LeaseInv`: whoever works
holds the lease and it has not expired; since nobody can acquire a lease another holds unexpired,
there is one such process. `OrphanInv` continues it over a process' life: while it recovers, every
unresolved claim is in its batch, and after that in its hands; nobody else can take one, and an
operator's request never makes one. `ClaimsInv`: a claim is in at most one process' hands, nobody
has one that was not issued, and what is still to be executed has not run; it does not use the
lease. `JobsInv`: a claim not issued, or still waiting in a batch, has no job;
every other write to a job asks whether it runs. `DuesInv`: an issued claim's instant lies
before the row's next one, and every row operation moves that one only forward. `LedgerInv`:
whatever ran has its attempt marker, and whatever is in hand is unresolved. With mutual exclusion
it gives that recovery refunds only what cannot have run; without it the property is not inductive:
a recovering process could release a claim whose tool is about to run. The refinement then maps
each step to one of the ledger's or to a stutter.

The grants have an argument of their own. `GrantStep(s)` says what a step does to one schedule's row and
claims: take a claim, settle one, renew the grant, touch an operator's columns, or nothing. A batch
or a start may do so to several schedules at once; each of them makes one such step. `GrantInv`
follows through each sort: what a claim's status says of its slot, that a row's revision never
falls behind the one at which an unknown outcome was noted and is past it once enabled, how many
instants have passed since `origin`, and that `used` is the cardinality of the set of held
slots, where a refund by an older claim leaves the set and lowers the number. `BudgetIsKept` adds
`VettedInv`, that whoever comes to the tool holds a slot the policy has looked at, and
`WritesHoldSlots`, that a write's slot is never handed back, which is where the evidence counts.

*Approvals.* `ApprovalInv` says: a token and its use are stamped by clocks that err by at most
`MaxOffset`; a request that waits to consume or to store passed its last check while its token was
good, and not longer than `Stall` ago; a spent nonce, one with a receipt or a request that may
still write one, is on file or too old for any request that could consume it; at most one request
stores on a nonce, and none on one with a receipt; receipts are not ahead of their rows. The
assumption on `Retention` is needed in one place: a request finds a spent nonce missing only after
it was pruned, hence later than it could have been verified. Without the wait in it the proof fails
there.

*Media executor.* `MediaInv` has four parts. `GpuInv`: a process that holds a model, or memory it
cannot prove free, holds the GPU's lock, and the main lease while the memory is in doubt; `OneModel`
is its consequence. `WorkInv`: the job in hand is claimed and in the state the process left it in,
claims point to processes of the job's GPU, and after the recovery no open claim of that GPU is
anybody else's. `AssetInv`: of each job, which of row, file, index entry and error go together,
through the publication and the recovery, and whom the index' lock file belongs to. The refinement
needs all of them: a step of `Complete` is the promise's only if the asset is there.

*Tool gate.* `CardInv`: a card is on the table, in one caller's hands, or gone; until its row is
written it has none, and has had an effect only where the row to come says so. `BrakeInv` follows
a brake from memory through a save to the file and back through a restart: who shares an inode with
whom, what each open file will hold when it closes, and that a text dumped before a
promise cannot become the file, because what it would be written over is longer.

*Updater.* `UpdaterInv` adds to the two properties what the journal, the backups and the process have
to do with each other at each file operation. While anything may differ from the last committed
version the journal stands in the way of the next start, and each backup is the good version;
inside a swap, which of the four files hold what, and which binaries a recovery has already put
back. Three things had to be said that the run does not show by itself: a transaction that is only
prepared may still overwrite the backups, because nothing was swapped; while the old set is verified
the journal still speaks; and a restore never runs past the last target.

*Exact task.* `TaskInv` rests on what nobody can take back: a pull request keeps its base, a merge, a
tag, a release and a status stay. `Earned(s)` is what a receipt of stage s stands on, `Begun(s)` its first
marker, and both, once true, stay true over every step of every actor. `Ledgers`: an authorization
means that the stage before is done, and a file or a write that the stage was authorized; so
`StagesInOrder` is a walk back along the stages. `Alone`: a recovery that did not overlap the
transaction has the stage to itself. `Shared` counts the two requests GitHub accepts twice:
whoever has yet to write has written nothing, and where both have to, nothing was written.
`StrandsNothing` needs `Undrifted`, what other people did not do, `Asked`, that a request for
reviewers has a marker before it or a recovery made it, and that the stages after an unfinished one
have not begun.

The invariants were checked by TLC before they were proved, some on instances beyond the runs' (two
admins with four saves and three with three, an updater of three binaries).

What the attempts showed. `BrakeHolds` was true only because the run stops at two saves: a third
one after a torn file, or three at once, break it (section 5), and the property now says what is
left. `BudgetKept` was true only as long as no store failure met a renewal; it now counts those
refunds, and the plain bound is refuted by `renewed_budget`. `StoreAssumption` did not say that
reads and writes are schedules. `UnknownNeedsHuman` once counted revisions from the claim, which a
pause and a resume before the recovery already supply; with `noted` it counts from the recovery.

Only model-checked: liveness (`ClaimsSettle`, `DueIsTaken`, `PendingHeals`, `JobsSettle`), which is out
of the prover's reach together with ENABLED and induction over data. Every invariant and every
action property of the passing runs is a theorem.

## 5. Where the code and its documentation disagree

Three are runs that TLC refutes; `PROJECT.json` quotes the lines.

1. `killed_updater`: killed after stopping the set but before `backed_up`, the updater leaves a
   journal whose recovery "leaves the running set alone", reports success, and the set is down.
2. `two_completions`: a recovery signed while its transaction is merely slow completes the stage
   beside it. Two receipts exist, the next attestation demands exactly one, and the task can never
   go on. No fault is needed.
3. `renewed_budget`: recovery hands a slot back without asking whether the grant was renewed since
   the claim. A claim dropped by a store failure, a renewal, one write and a restart: the old slot
   makes room for a second write under `max_runs` = 1.

Observed, without a run of their own.

Scheduler. The docstring of `recover_interrupted` (`worker/app/schedule_runner_impl.py:91-97`) says that
a crash exactly between the side effect and its audit row "reads as not-executed and refunds a slot
for a run that happened". The code no longer does this: the attempt marker, written before the
effect (`353-367`), makes recovery call that outcome unknown, keep the slot and pause the grant
(`142-178`), unless the tool only reads. `RefundedNeverRan`, `ImplementsLedger` and their theorems hold
because of it, and contradict the docstring in exactly this case. The job store is opened, and running jobs made terminal, before recovery, so that
recovery's verdict never reaches the job; a second `JobStore` opened lazily in the same process
marks a running job interrupted. An audit write that fails after the tool ran reads as a failed run and is refunded. A permanent
refusal computed from a stale snapshot switches off the renewed grant. The guard before the tool
narrows the window in which a pause goes unnoticed and cannot close it. A grant for a tool that may
not run unattended can be resumed and is then refused and refunded at every cadence. With a stalled
heartbeat a second process abandons the living owner's claims.

Updater. A crash while its `.tmp` is being written leaves it unreadable, and the next run stops a
healthy set and fails; the design document says that unreadable evidence fails closed.

Tool gate. `main_impl.py:1077` and `tools.py:1001` say a brake must survive a restart, and
`tools.py:1042` that the file is never half written. Requests at once share one `.tmp`, and two of
them can leave a torn file. The restart then switches the whole layer off but forgets the switches
of single tools, so that arming the layer arms a tool that was braked. Three at once, or two of which
one arms or fails, can put an older text in place. `BrakeHolds` says what remains; `raced` excepts
the rest. Each process reads the file once, so that a second worker does not learn of the brake.

Media. A second executor that finds its GPU's lock taken exits as a duplicate, and the supervisor
never starts another for that GPU: after a supervisor that died without its children, the GPU is
given up once the orphan ends. A lock file of the index left by a dead executor makes every later
publication fail after its asset is durable, until a person removes it.

Exact task. An authorization is consumed before the file that makes it usable is durable: a failing
disk costs the task its only one. The attestations after "success" and after the activation also
refuse a transaction's receipt beside a recovery's lock, the earlier ones do not. The activation's
recovery may certify an inactive machine while the controller, which outlives its parent, has yet
to set the switches.

## 6. What is not modelled, and the plan

Not modelled: everything `PROJECT.json` marks so, with the reason. In short: pure I/O and parsing,
clients, numeric and textual work, and subsystems not reached yet. Of the modelled parts: `stall`
runs of the scheduler, egress rules of tools, the ComfyUI and video paths, the supervisor's other
children, late delivery of requests to GitHub, the human approvals, the staging probes, and what
comes before the first stage and after the last. The repository has some 300 000 lines; most of
those in devcontrol are receipts, plans and their validation field by field, which have no state of
their own.

Plan, in order of what matters:

1. Proofs: an abstract specification of the staged release that `ExactTask` implements; of
   approvals and cards ("a human's yes is used at most once") that `ScheduleApproval` and `ToolGate`
   implement.
2. `ScheduleApproval` composed with `Scheduler`'s `Create` and `RenewGrant`.
3. `Supervisor` with all its children, composed with `Updater`'s `running`; the updater's
   self-update.
4. `PullJob`: cancellation against completion of a model pull; `SchedulerTime` as a pure module
   against a reference definition; `Agent3Run`; the executing and committing of a task before
   `ExactTaskPublication`.
