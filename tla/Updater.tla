------------------------------ MODULE Updater ------------------------------
(***************************************************************************)
(* modelrig-updater: the whole-set binary update as a recoverable           *)
(* transaction.  On disk: the live executables with the .old and .new of a  *)
(* swap, the backups of the latest attempt, the transaction journal and its *)
(* .tmp, and the lock.  In memory: one updater run, which ends, or is       *)
(* killed, between any two file operations; a file operation may also fail. *)
(*                                                                          *)
(* A file's content is the version it is; a file being written is Torn.     *)
(* One action is one file operation or one decision between two of them.    *)
(***************************************************************************)
EXTENDS Integers

CONSTANTS
  N,            \* managed binaries, swapped in the order 1..N
  Supervisor,   \* the one the bootstrap script looks for
  Native,       \* renameFn is windowsAtomicRename (else os.Rename)
  Faults,       \* which faults a run explores
  MaxVersion,   \* bound: releases after version 0
  MaxTries,     \* bound: transactions begun
  MaxFaults     \* bound: crashes and failed file operations together

ASSUME UpdaterAssumption ==
  /\ N \in Nat \ {0}
  /\ Supervisor \in 1..N
  /\ Native \in BOOLEAN
  /\ MaxVersion \in Nat /\ MaxTries \in Nat /\ MaxFaults \in Nat

VARIABLES
  live, old, new,   \* each binary, its .old and its .new
  bak,              \* the backup directory of the latest attempt
  main, tmp,        \* update-transaction.json and its .tmp
  lock,             \* updater.lock exists
  running,          \* the supervisor task, and with it the set, is running
  up,               \* the updater process
  tries, faults,    \* history: transactions begun, faults so far
  good              \* history: the version last committed

disk == <<live, old, new, bak, main, tmp, lock>>
history == <<tries, faults, good>>
vars == <<disk, running, up, history>>

-----------------------------------------------------------------------------
Target == 1..N

Absent == -1
Torn == -2
File == (0..MaxVersion) \cup {Absent, Torn}

State == {"prepared", "backed_up", "swapping", "verifying", "committed",
          "rolling_back", "rolled_back", "manual_recovery"}

(* States whose journal means that binaries may have been replaced.         *)
Active == {"backed_up", "swapping", "verifying", "rolling_back", "manual_recovery"}

Record(states) == [state : states, rev : Nat, id : Nat]

NoRecord == [state |-> "none", rev |-> 0, id |-> 0]
TornRecord == [state |-> "torn", rev |-> 0, id |-> 0]
Ambiguous == [state |-> "ambiguous", rev |-> 0, id |-> 0]

(* Which write of the journal, and which use of atomicSwapInto, a run is in.*)
Write == {"prepared", "backed_up", "swapped", "verifying", "committed",
          "rolling_back", "undone", "aborted", "manual", "recovered", "terminal"}
Swap == {"swap", "abort", "undo", "recover"}

(* Writes that archive() follows with a rename to .last.                    *)
Archive == {"committed", "undone", "aborted", "recovered", "terminal"}

Process ==
  [pc : {"off", "read", "failed", "done", "check", "fix", "fix_sync", "targets",
         "begin", "stop", "backup", "backup_sync", "copy", "copy_sync", "to_old",
         "old_sync", "to_live", "put_back", "clean", "open", "sync", "remove",
         "rename", "archive", "start_new", "verify", "stop_undo", "start_old",
         "verify_old"},
   mode : {"update", "recover", "boot"},
   site : Write \cup Swap \cup {"none"},
   k : Target,             \* the binary at hand
   n : 0..N,               \* how many to put back
   bad : BOOLEAN,          \* putting back has failed for one of them
   j : Record(State \cup {"none"}),
   from : 0..MaxVersion, to : 0..MaxVersion]

Idle == [pc |-> "off", mode |-> "update", site |-> "none", k |-> 1, n |-> 0,
         bad |-> FALSE, j |-> NoRecord, from |-> 0, to |-> 0]

TypeOK ==
  /\ live \in [Target -> File] /\ old \in [Target -> File]
  /\ new \in [Target -> File] /\ bak \in [Target -> File]
  /\ main \in Record(State \cup {"none"})
  /\ tmp \in Record(State \cup {"none", "torn"})
  /\ lock \in BOOLEAN /\ running \in BOOLEAN
  /\ up \in Process
  /\ tries \in 0..MaxTries /\ faults \in 0..MaxFaults /\ good \in 0..MaxVersion

Init ==
  /\ live = [t \in Target |-> 0]
  /\ old = [t \in Target |-> Absent]
  /\ new = [t \in Target |-> Absent]
  /\ bak = [t \in Target |-> Absent]
  /\ main = NoRecord /\ tmp = NoRecord
  /\ lock = FALSE /\ running = TRUE
  /\ up = Idle
  /\ tries = 0 /\ faults = 0 /\ good = 0

-----------------------------------------------------------------------------
(* Where a run goes next.  An operator Then... takes the process record to  *)
(* the one the run continues with.                                          *)

Goto(u, pc) == [u EXCEPT !.pc = pc]

(* setState, addSwapped, archive: the state in memory changes, and its      *)
(* revision, whether or not the write then succeeds.                        *)
ThenWrite(u, site, state) ==
  [u EXCEPT !.pc = "open", !.site = site,
            !.j = [u.j EXCEPT !.state = state, !.rev = @ + 1]]

ThenSwap(u, site, k) == [u EXCEPT !.pc = "copy", !.site = site, !.k = k]

(* restore() has been through its list.                                     *)
ThenRestored(u) ==
  IF u.bad THEN ThenWrite(u, "manual", "manual_recovery")
  ELSE IF u.site = "abort" THEN ThenWrite(u, "aborted", "rolled_back")
  ELSE Goto(u, "start_old")

(* restore(targets[:n]).                                                    *)
ThenRestore(u, site, n, bad) ==
  LET v == [u EXCEPT !.site = site, !.n = n, !.bad = bad]
  IN  IF n = 0 THEN ThenRestored(v) ELSE ThenSwap(v, site, 1)

(* Recovery has restored binary k.                                          *)
ThenFixed(u) ==
  IF u.k < N THEN [u EXCEPT !.pc = "fix", !.k = @ + 1]
  ELSE ThenWrite(u, "recovered", "rolled_back")

(* atomicSwapInto returned: "ok", "err", or "lost" when the live file could *)
(* not even be put back (errRollbackFailed).                                *)
ThenSwapped(u, result) ==
  CASE u.site = "swap" /\ result = "ok" -> ThenWrite(u, "swapped", "swapping")
    [] u.site = "swap" /\ result # "ok" -> ThenRestore(u, "abort", u.k - 1, result = "lost")
    [] u.site = "recover" /\ result = "ok" -> ThenFixed(u)
    [] u.site = "recover" /\ result # "ok" -> ThenWrite(u, "manual", "manual_recovery")
    [] OTHER ->
         LET v == [u EXCEPT !.bad = @ \/ result # "ok"]
         IN  IF u.k < u.n THEN ThenSwap(v, u.site, u.k + 1) ELSE ThenRestored(v)

(* The journal write, or the archive it belongs to, returned.               *)
ThenWritten(u, ok) ==
  CASE u.site = "prepared" -> Goto(u, IF ok THEN "stop" ELSE "failed")
    [] u.site = "backed_up" /\ ok -> ThenSwap(u, "swap", 1)
    [] u.site = "backed_up" /\ ~ok -> ThenRestore(u, "abort", 0, FALSE)
    [] u.site = "swapped" /\ ok ->
         IF u.k < N THEN ThenSwap(u, "swap", u.k + 1)
         ELSE ThenWrite(u, "verifying", "verifying")
    [] u.site = "swapped" /\ ~ok -> ThenRestore(u, "abort", u.k, FALSE)
    [] u.site = "verifying" -> Goto(u, "start_new")
    [] u.site = "rolling_back" -> Goto(u, "stop_undo")
    [] u.site \in {"committed", "undone"} -> Goto(u, "done")
    [] u.site = "terminal" -> Goto(u, IF ok THEN "targets" ELSE "failed")
    [] u.site = "recovered" -> Goto(u, IF ok THEN "targets" ELSE "failed")
    [] OTHER -> Goto(u, "failed")

(* Mutant: the set is started although the rollback failed.                 *)
RestartsAnyway(site, ok) == site \in {"aborted", "manual"} \/ (site = "recovered" /\ ok)

(* Start-ScheduledTask after an aborted swap and after a recovery.          *)
Restarts(site, ok) == site = "aborted" \/ (site = "recovered" /\ ok)

-----------------------------------------------------------------------------
(* Mutant: the .tmp counts only when there is nothing else.                 *)
MainJournal == IF main.state = "none" THEN tmp ELSE main

(* readJournal: of the two files the higher revision counts; whatever       *)
(* cannot be read, or contradicts itself, is ambiguous.                     *)
Journal ==
  IF "torn" \in {main.state, tmp.state} THEN Ambiguous
  ELSE IF main.state = "none" THEN tmp
  ELSE IF tmp.state = "none" THEN main
  ELSE IF main.id # tmp.id THEN Ambiguous
  ELSE IF tmp.rev # main.rev THEN IF tmp.rev > main.rev THEN tmp ELSE main
  ELSE IF tmp.state # main.state THEN Ambiguous
  ELSE main

(* A file operation fails: the disk is full, a file is held open.           *)
IOFailure ==
  /\ "io" \in Faults /\ faults < MaxFaults
  /\ faults' = faults + 1

Steps(u) == up' = u

-----------------------------------------------------------------------------
(* The beginning and the end of a run.                                      *)

(* By hand, by schedule, or by the bootstrap script, which runs while the   *)
(* set is down and wants to see the supervisor's executable first.          *)
Launch(mode) ==
  /\ up.pc = "off" /\ ~lock
  /\ mode = "boot" => ~running /\ live[Supervisor] # Absent
  /\ lock' = TRUE
  /\ up' = [Idle EXCEPT !.pc = "read", !.mode = mode]
  /\ UNCHANGED <<live, old, new, bak, main, tmp, running, history>>

(* Mutant: what was left to the operator is left alone.                     *)
NeedsStopUnlessManual(state) == state \in Active \ {"manual_recovery"}

(* journalNeedsProcessStop: undoing this transaction replaces binaries.     *)
NeedsStop(state) == state \notin {"none", "committed", "rolled_back", "prepared"}

(* main's first decision: no journal, a finished one, one to be undone, or  *)
(* evidence nobody can read.  The set is stopped before binaries change.    *)
ReadJournal ==
  LET j == Journal
      u == [up EXCEPT !.j = IF j = Ambiguous THEN NoRecord ELSE j]
  IN  /\ up.pc = "read"
      /\ CASE j = Ambiguous -> Steps(Goto(u, "failed"))
           [] j.state = "none" -> Steps(Goto(u, "targets"))
           [] NeedsStop(j.state) /\ j # Ambiguous -> Steps(Goto(u, "check"))
           [] OTHER -> Steps(ThenWrite(u, "terminal",
                              IF j.state = "committed" THEN "committed" ELSE "rolled_back"))
      /\ running' = (running /\ ~NeedsStop(j.state))
      /\ UNCHANGED <<disk, history>>

(* recoverTarget, in order, up to the first binary that cannot be found.    *)
CheckTargets ==
  LET lost == {t \in Target : live[t] = Absent /\ old[t] = Absent}
      back == {t \in Target : live[t] = Absent /\ \A s \in lost : t < s}
  IN  /\ up.pc = "targets"
      /\ live' = [t \in Target |-> IF t \in back THEN old[t] ELSE live[t]]
      /\ old' = [t \in Target |-> IF t \in back THEN Absent ELSE old[t]]
      /\ new' = [t \in Target |-> IF t \in back THEN Absent ELSE new[t]]
      /\ Steps(Goto(up, IF lost # {} THEN "failed"
                        ELSE IF up.mode = "update" THEN "begin" ELSE "done"))
      /\ UNCHANGED <<bak, main, tmp, lock, running, history>>

(* The running version is asked for, and the latest release compared.  A    *)
(* newer one is downloaded and verified, a fresh backup directory claimed.  *)
Begin ==
  /\ up.pc = "begin"
  /\ \/ ~running /\ Steps(Goto(up, "failed")) /\ UNCHANGED <<bak, tries>>
     \/ running /\ Steps(Goto(up, "done")) /\ UNCHANGED <<bak, tries>>
     \/ /\ running /\ tries < MaxTries
        /\ \E to \in (live[1] + 1)..MaxVersion :
             Steps(ThenWrite([up EXCEPT !.from = live[1], !.to = to,
                                        !.j = [NoRecord EXCEPT !.id = tries + 1]],
                             "prepared", "prepared"))
        /\ bak' = [t \in Target |-> Absent]
        /\ tries' = tries + 1
  /\ UNCHANGED <<live, old, new, main, tmp, lock, running, faults, good>>

(* The process exits and releases its lock; after a boot's recovery the     *)
(* bootstrap script starts the set.                                         *)
Exit ==
  /\ up.pc \in {"done", "failed"}
  /\ up' = Idle
  /\ lock' = FALSE
  /\ running' = (running \/ (up.mode = "boot" /\ up.pc = "done"))
  /\ UNCHANGED <<live, old, new, bak, main, tmp, history>>

-----------------------------------------------------------------------------
(* txJournal.write and archive.                                             *)

OpenTmp ==
  /\ up.pc = "open"
  /\ \/ tmp' = TornRecord /\ Steps(Goto(up, "sync")) /\ UNCHANGED <<faults, running>>
     \/ /\ IOFailure
        /\ Steps(ThenWritten(up, FALSE))
        /\ running' = (running \/ Restarts(up.site, FALSE))
        /\ UNCHANGED tmp
  /\ UNCHANGED <<live, old, new, bak, main, lock, tries, good>>

(* From here on the new record is the one readJournal returns: also when    *)
(* the call fails, for it may have been written all the same.               *)
SyncTmp ==
  /\ up.pc = "sync"
  /\ \/ /\ tmp' = up.j
        /\ Steps(Goto(up, "remove"))
        /\ UNCHANGED <<faults, running>>
     \/ /\ IOFailure
        /\ tmp' \in {tmp, up.j}
        /\ Steps(ThenWritten(up, FALSE))
        /\ running' = (running \/ Restarts(up.site, FALSE))
  /\ good' = IF up.site = "committed" /\ tmp' = up.j THEN up.to ELSE good
  /\ UNCHANGED <<live, old, new, bak, main, lock, tries>>

RemoveMain ==
  /\ up.pc = "remove"
  /\ main' = NoRecord
  /\ Steps(Goto(up, "rename"))
  /\ UNCHANGED <<live, old, new, bak, tmp, lock, running, history>>

RenameTmp ==
  /\ up.pc = "rename"
  /\ \/ /\ main' = tmp /\ tmp' = NoRecord
        /\ IF up.site \in Archive
             THEN Steps(Goto(up, "archive")) /\ UNCHANGED running
             ELSE Steps(ThenWritten(up, TRUE)) /\ UNCHANGED running
        /\ UNCHANGED faults
     \/ /\ IOFailure
        /\ Steps(ThenWritten(up, FALSE))
        /\ running' = (running \/ Restarts(up.site, FALSE))
        /\ UNCHANGED <<main, tmp>>
  /\ UNCHANGED <<live, old, new, bak, lock, tries, good>>

(* The journal becomes .last; the set is started where the code does so.    *)
ArchiveJournal ==
  /\ up.pc = "archive"
  /\ \/ /\ main' = NoRecord
        /\ Steps(ThenWritten(up, TRUE))
        /\ running' = (running \/ Restarts(up.site, TRUE))
        /\ UNCHANGED faults
     \/ /\ IOFailure
        /\ Steps(ThenWritten(up, FALSE))
        /\ running' = (running \/ Restarts(up.site, FALSE))
        /\ UNCHANGED main
  /\ UNCHANGED <<live, old, new, bak, tmp, lock, tries, good>>

-----------------------------------------------------------------------------
(* atomicSwapInto, for the binary at hand.                                  *)

Source == IF up.site = "swap" THEN up.to ELSE bak[up.k]

CopyNew ==
  LET k == up.k IN
  /\ up.pc = "copy"
  /\ IF live[k] = Absent
       THEN Steps(ThenSwapped(up, "err")) /\ UNCHANGED <<new, faults>>
       ELSE \/ /\ new' = [new EXCEPT ![k] = Torn]
               /\ Steps(Goto(up, "copy_sync"))
               /\ UNCHANGED faults
            \/ /\ IOFailure
               /\ new' = [new EXCEPT ![k] = Absent]
               /\ Steps(ThenSwapped(up, "err"))
  /\ UNCHANGED <<live, old, bak, main, tmp, lock, running, tries, good>>

SyncNew ==
  LET k == up.k IN
  /\ up.pc = "copy_sync"
  /\ \/ /\ new' = [new EXCEPT ![k] = Source]
        /\ Steps(Goto(up, "to_old"))
        /\ UNCHANGED faults
     \/ /\ IOFailure
        /\ new' = [new EXCEPT ![k] = Absent]
        /\ Steps(ThenSwapped(up, "err"))
  /\ UNCHANGED <<live, old, bak, main, tmp, lock, running, tries, good>>

(* live -> .old: a rename, or on Windows a copy.                            *)
ToOld ==
  LET k == up.k IN
  /\ up.pc = "to_old"
  /\ \/ /\ old' = [old EXCEPT ![k] = IF Native THEN Torn ELSE live[k]]
        /\ live' = [live EXCEPT ![k] = IF Native THEN @ ELSE Absent]
        /\ Steps(Goto(up, IF Native THEN "old_sync" ELSE "to_live"))
        /\ UNCHANGED <<new, faults>>
     \/ /\ IOFailure
        /\ old' = [old EXCEPT ![k] = Absent]
        /\ new' = [new EXCEPT ![k] = Absent]
        /\ Steps(ThenSwapped(up, "err"))
        /\ UNCHANGED live
  /\ UNCHANGED <<bak, main, tmp, lock, running, tries, good>>

SyncOld ==
  LET k == up.k IN
  /\ up.pc = "old_sync"
  /\ \/ /\ old' = [old EXCEPT ![k] = live[k]]
        /\ Steps(Goto(up, "to_live"))
        /\ UNCHANGED <<new, faults>>
     \/ /\ IOFailure
        /\ new' = [new EXCEPT ![k] = Absent]
        /\ Steps(ThenSwapped(up, "err"))
        /\ UNCHANGED old
  /\ UNCHANGED <<live, bak, main, tmp, lock, running, tries, good>>

(* .new -> live.  A ReplaceFileW that fails may leave no live file.         *)
ToLive ==
  LET k == up.k IN
  /\ up.pc = "to_live"
  /\ \/ /\ live' = [live EXCEPT ![k] = new[k]]
        /\ new' = [new EXCEPT ![k] = Absent]
        /\ Steps(Goto(up, "clean"))
        /\ UNCHANGED faults
     \/ /\ IOFailure
        /\ live' \in {live, [live EXCEPT ![k] = Absent]}
        /\ Steps(Goto(up, "put_back"))
        /\ UNCHANGED new
  /\ UNCHANGED <<old, bak, main, tmp, lock, running, tries, good>>

(* .old -> live after that failure.  On Windows a live file that is still   *)
(* the original counts as put back.                                         *)
PutBack ==
  LET k == up.k IN
  /\ up.pc = "put_back"
  /\ \/ /\ live' = [live EXCEPT ![k] = old[k]]
        /\ old' = [old EXCEPT ![k] = Absent]
        /\ new' = [new EXCEPT ![k] = Absent]
        /\ Steps(ThenSwapped(up, "err"))
        /\ UNCHANGED faults
     \/ /\ live[k] = Absent
        /\ IOFailure
        /\ Steps(ThenSwapped(up, "lost"))
        /\ UNCHANGED <<live, old, new>>
  /\ UNCHANGED <<bak, main, tmp, lock, running, tries, good>>

(* .old is removed; recovery also removes a stray .new.                     *)
Clean ==
  LET k == up.k IN
  /\ up.pc = "clean"
  /\ old' = [old EXCEPT ![k] = Absent]
  /\ new' = [new EXCEPT ![k] = IF up.site = "recover" THEN Absent ELSE @]
  /\ Steps(ThenSwapped(up, "ok"))
  /\ UNCHANGED <<live, bak, main, tmp, lock, running, history>>

-----------------------------------------------------------------------------
(* The update itself.                                                       *)

StopSet ==
  /\ up.pc \in {"stop", "stop_undo"}
  /\ running' = FALSE
  /\ Steps(IF up.pc = "stop" THEN [up EXCEPT !.pc = "backup", !.k = 1]
                             ELSE ThenRestore(up, "undo", N, FALSE))
  /\ UNCHANGED <<disk, history>>

(* backupAndSwap, phase 1: every binary, before the first swap.             *)
Backup ==
  /\ up.pc = "backup"
  /\ \/ /\ bak' = [bak EXCEPT ![up.k] = Torn]
        /\ Steps(Goto(up, "backup_sync"))
        /\ UNCHANGED faults
     \/ IOFailure /\ Steps(ThenRestore(up, "abort", 0, FALSE)) /\ UNCHANGED bak
  /\ UNCHANGED <<live, old, new, main, tmp, lock, running, tries, good>>

(* Mutant: one backup too many.                                             *)
NextBackupLate(u) ==
  IF u.k <= N THEN [u EXCEPT !.pc = "backup", !.k = @ + 1]
  ELSE ThenWrite(u, "backed_up", "backed_up")

NextBackup(u) ==
  IF u.k < N THEN [u EXCEPT !.pc = "backup", !.k = @ + 1]
  ELSE ThenWrite(u, "backed_up", "backed_up")

SyncBackup ==
  /\ up.pc = "backup_sync"
  /\ \/ /\ bak' = [bak EXCEPT ![up.k] = live[up.k]]
        /\ Steps(NextBackup(up))
        /\ UNCHANGED faults
     \/ IOFailure /\ Steps(ThenRestore(up, "abort", 0, FALSE)) /\ UNCHANGED bak
  /\ UNCHANGED <<live, old, new, main, tmp, lock, running, tries, good>>

StartSet ==
  /\ up.pc \in {"start_new", "start_old"}
  /\ running' = TRUE
  /\ Steps(Goto(up, IF up.pc = "start_new" THEN "verify" ELSE "verify_old"))
  /\ UNCHANGED <<disk, history>>

(* Server and worker report the version wanted and the supervisor's         *)
(* heartbeat advances, or that is not proven in time.                       *)
Verify ==
  /\ up.pc = "verify"
  /\ \/ /\ \A t \in Target \ {Supervisor} : live[t] = up.to
        /\ Steps(ThenWrite(up, "committed", "committed"))
     \/ Steps(ThenWrite(up, "rolling_back", "rolling_back"))
  /\ UNCHANGED <<disk, running, history>>

VerifyOld ==
  /\ up.pc = "verify_old"
  /\ \/ /\ \A t \in Target \ {Supervisor} : live[t] = up.from
        /\ Steps(ThenWrite(up, "undone", "rolled_back"))
     \/ Steps(ThenWrite(up, "manual", "manual_recovery"))
  /\ UNCHANGED <<disk, running, history>>

-----------------------------------------------------------------------------
(* recoverFromJournal, when binaries may have been replaced.                *)

CheckBackups ==
  /\ up.pc = "check"
  /\ Steps(IF \E t \in Target : bak[t] = Absent
             THEN ThenWrite(up, "manual", "manual_recovery")
             ELSE [up EXCEPT !.pc = "fix", !.k = 1])
  /\ UNCHANGED <<disk, running, history>>

(* A missing live file comes back from .old, or is copied afresh.           *)
FixTarget ==
  LET k == up.k IN
  /\ up.pc = "fix"
  /\ \/ /\ live[k] # Absent
        /\ Steps(ThenSwap(up, "recover", k))
        /\ UNCHANGED <<live, old, new, faults>>
     \/ /\ live[k] = Absent /\ old[k] # Absent
        /\ live' = [live EXCEPT ![k] = old[k]]
        /\ old' = [old EXCEPT ![k] = Absent]
        /\ new' = [new EXCEPT ![k] = Absent]
        /\ Steps(ThenSwap(up, "recover", k))
        /\ UNCHANGED faults
     \/ /\ live[k] = Absent
        /\ old[k] = Absent \/ IOFailure
        /\ old[k] = Absent => UNCHANGED faults
        /\ live' = [live EXCEPT ![k] = Torn]
        /\ Steps(Goto(up, "fix_sync"))
        /\ UNCHANGED <<old, new>>
  /\ UNCHANGED <<bak, main, tmp, lock, running, tries, good>>

FixSync ==
  LET k == up.k IN
  /\ up.pc = "fix_sync"
  /\ \/ /\ live' = [live EXCEPT ![k] = bak[k]]
        /\ old' = [old EXCEPT ![k] = Absent]
        /\ new' = [new EXCEPT ![k] = Absent]
        /\ Steps(ThenFixed(up))
        /\ UNCHANGED faults
     \/ /\ IOFailure
        /\ live' \in {live, [live EXCEPT ![k] = Absent]}
        /\ Steps(ThenWrite(up, "manual", "manual_recovery"))
        /\ UNCHANGED <<old, new>>
  /\ UNCHANGED <<bak, main, tmp, lock, running, tries, good>>

-----------------------------------------------------------------------------
(* What happens to the updater.                                             *)

(* It is killed, or the power fails and takes the whole set with it.  Only  *)
(* what is on disk remains, and the lock is on disk.                        *)
Crash(power) ==
  /\ (IF power THEN "power" ELSE "kill") \in Faults /\ faults < MaxFaults
  /\ up.pc # "off"
  /\ faults' = faults + 1
  /\ up' = Idle
  /\ running' = (running /\ ~power)
  /\ UNCHANGED <<disk, tries, good>>

(* The operator deletes the lock a crash left behind, as the message says.  *)
DeleteLock ==
  /\ up.pc = "off" /\ lock
  /\ lock' = FALSE
  /\ UNCHANGED <<live, old, new, bak, main, tmp, running, up, history>>

-----------------------------------------------------------------------------
Run ==
  \/ ReadJournal \/ CheckTargets \/ Begin \/ Exit
  \/ OpenTmp \/ SyncTmp \/ RemoveMain \/ RenameTmp \/ ArchiveJournal
  \/ CopyNew \/ SyncNew \/ ToOld \/ SyncOld \/ ToLive \/ PutBack \/ Clean
  \/ StopSet \/ Backup \/ SyncBackup \/ StartSet \/ Verify \/ VerifyOld
  \/ CheckBackups \/ FixTarget \/ FixSync

Next ==
  \/ Run
  \/ \E mode \in {"update", "recover", "boot"} : Launch(mode)
  \/ \E power \in BOOLEAN : Crash(power)
  \/ DeleteLock

Spec == Init /\ [][Next]_vars

(* A run goes on until it ends or is killed.  Somebody deletes a stranded   *)
(* lock and runs the recovery, and the bootstrap runs when the set is down: *)
(* that is what the messages and the manual ask of the operator.            *)
Fairness ==
  /\ WF_vars(Run)
  /\ WF_vars(DeleteLock)
  /\ SF_vars(Launch("recover"))
  /\ SF_vars(Launch("boot"))

FairSpec == Spec /\ Fairness

-----------------------------------------------------------------------------
(* The set is never started, or left running, on a mixture of versions or   *)
(* with a binary missing or half written.                                   *)
WholeSetRuns ==
  running => \A t \in Target : live[t] \in 0..MaxVersion /\ live[t] = live[1]

(* Whenever the binaries are not the version last committed, the journal    *)
(* says so, or is unreadable, and the complete set is in the backups.  So a *)
(* committed update is never rolled back, and no other is ever kept.        *)
EvidenceKept ==
  (\E t \in Target : live[t] # good)
    => /\ Journal.state \in Active \cup {"ambiguous"}
       /\ \A t \in Target : bak[t] = good

(* A transaction left pending is eventually resolved, with the committed    *)
(* set running again, unless its evidence cannot be read.                   *)
PendingHeals ==
  Journal.state \in State
    ~> \/ Journal.state = "none" /\ running /\ \A t \in Target : live[t] = good
       \/ Journal.state = "ambiguous"

(* Claimed of the code, and refuted by it: when an updater that was killed   *)
(* has been recovered, and the recovery reports success, the rig is up.     *)
RecoverHeals ==
  up.mode = "recover" /\ up.pc = "done" => running

=============================================================================
