--------------------------- MODULE UpdaterProofs ---------------------------
(***************************************************************************)
(* What holds of Updater for any number of binaries, releases, transactions *)
(* and faults, and for both builds: it keeps its shapes, the set never runs *)
(* mixed, and the evidence to undo an unfinished update is never lost.      *)
(*                                                                          *)
(* The argument: while binaries may differ from the version last committed, *)
(* every write of the journal leaves it saying so, or unreadable, and the   *)
(* backups were complete before the first swap; every other write is made   *)
(* when the binaries are that version.                                      *)
(***************************************************************************)
EXTENDS Updater, TLAPS

(* The binaries are the version last committed; the backups are it.         *)
AllGood == \A t \in Target : live[t] = good
Backups == \A t \in Target : bak[t] = good

(* What the journal says after a crash, here and now.                       *)
Pending == Journal.state \in Active \cup {"ambiguous"}

(* Where a run is: writing the journal, swapping one binary.                *)
Writing == {"open", "sync", "remove", "rename", "archive"}
Swapping == {"copy", "copy_sync", "to_old", "old_sync", "to_live", "put_back", "clean"}
Resting == {"off", "read", "failed", "done", "targets", "begin"}

At(pcs, sites) == up.pc \in pcs /\ up.site \in sites

-----------------------------------------------------------------------------
(* The journal and its .tmp belong to the transaction in hand, and neither  *)
(* is newer than the state in memory.                                       *)
Older(r) == r.id = up.j.id /\ r.rev < up.j.rev
NotNewer(r) == r.id = up.j.id /\ r.rev <= up.j.rev

Linked ==
  /\ up.pc \in {"targets", "begin"} => main.state = "none" /\ tmp.state = "none"
  /\ up.pc \notin Resting =>
       /\ main.state # "none" => NotNewer(main)
       /\ tmp.state \in State => NotNewer(tmp)
  /\ up.pc \in {"open", "sync", "remove"} /\ main.state # "none" => Older(main)
  /\ up.pc = "open" /\ tmp.state \in State => Older(tmp)
  /\ up.pc = "sync" => tmp.state = "torn"
  /\ up.pc \in {"remove", "rename"} => tmp = up.j
  /\ up.pc = "rename" => main.state = "none"
  /\ up.pc = "archive" => main = up.j /\ tmp.state = "none" /\ up.site \in Archive

(* Which state each write of the journal puts down.                         *)
StateOf == [s \in Write \ {"terminal"} |->
  CASE s = "swapped" -> "swapping"
    [] s = "manual" -> "manual_recovery"
    [] s \in {"undone", "aborted", "recovered"} -> "rolled_back"
    [] OTHER -> s]

Stated ==
  up.pc \in Writing =>
    /\ up.site \in Write
    /\ up.site # "terminal" => up.j.state = StateOf[up.site]
    /\ up.site = "terminal" => up.j.state \in {"committed", "rolled_back"}

(* Swaps are made on behalf of the update, of its undoing or of a recovery. *)
Sited ==
  /\ up.pc \in Swapping => up.site \in Swap

-----------------------------------------------------------------------------
(* Binaries may differ from what was committed.                             *)
Exposed ==
  \/ up.pc \in Swapping \cup {"check", "fix", "fix_sync", "start_new", "verify", "stop_undo",
                           "start_old", "verify_old"}
  \/ At(Writing, {"swapped", "verifying", "rolling_back", "manual"})
  \/ At({"open", "sync"}, {"committed"})

(* They do not.                                                             *)
Settled ==
  \/ up.pc \in {"targets", "begin", "stop", "backup", "backup_sync", "start_old", "verify_old"}
  \/ At(Writing, {"prepared", "backed_up", "undone", "aborted", "recovered", "terminal"})
  \/ At({"remove", "rename", "archive"}, {"committed"})
  \/ up.pc = "done" /\ up.mode = "boot"

(* They are all the new release.                                            *)
Replaced ==
  \/ up.pc \in {"start_new", "verify"}
  \/ At(Writing, {"verifying"})
  \/ At({"open", "sync"}, {"committed"})

(* The first binary has not been touched, and the journal does not say so.  *)
Early == up.pc \in {"stop", "backup", "backup_sync"} \/ At(Writing, {"prepared"})

Evidence ==
  /\ Exposed => Pending /\ Backups
  /\ Settled => AllGood
  /\ Replaced => \A t \in Target : live[t] = up.to
  /\ Journal.state \in Active => Backups
  /\ Early => Journal.state \notin Active
  /\ At(Writing, {"backed_up"}) => Backups
  /\ up.pc \in {"backup", "backup_sync"} => \A t \in Target : t < up.k => bak[t] = good

(* The set is down while binaries change.                                   *)
Down ==
  \/ up.pc \in Swapping \cup {"check", "fix", "fix_sync", "backup", "backup_sync"}
  \/ At(Writing, {"backed_up", "swapped"})

Stopped == Down => ~running

(* Only an update goes through these; the bootstrap only recovers.          *)
Updating ==
  up.mode # "update" =>
    /\ up.pc \notin {"begin", "stop", "backup", "backup_sync", "start_new", "verify",
                     "stop_undo", "start_old", "verify_old"}
    /\ up.site \in {"none", "terminal", "manual", "recovered", "recover"}

-----------------------------------------------------------------------------
(* Inside atomicSwapInto.                                                   *)
Swapped ==
  /\ At(Swapping, {"swap"}) =>
       \A t \in Target : /\ t < up.k => live[t] = up.to
                         /\ t > up.k => live[t] = good
  /\ At({"copy", "copy_sync", "to_old", "old_sync"}, {"swap"}) => live[up.k] = good
  /\ At({"to_live", "put_back"}, {"swap"}) => old[up.k] = good
  /\ At(Writing, {"swapped"}) =>
       \A t \in Target : live[t] = IF t <= up.k THEN up.to ELSE good
  /\ up.pc \in {"to_old", "old_sync", "to_live"} => new[up.k] = Source
  /\ up.pc = "clean" => live[up.k] = Source

Restored ==
  /\ At(Swapping, {"abort", "undo"}) => up.k <= up.n
  /\ At(Swapping, {"abort", "undo"}) /\ ~up.bad =>
       \A t \in Target : t < up.k \/ t > up.n => live[t] = good
  /\ (up.pc \in {"fix", "fix_sync"} \/ At(Swapping, {"recover"})) =>
       \A t \in Target : t < up.k => live[t] = good

RunInv ==
  /\ Linked /\ Stated /\ Sited /\ Evidence /\ Stopped /\ Updating /\ Swapped /\ Restored

(* Type correctness, of the disk and of the process.                        *)
DiskOK ==
  /\ live \in [Target -> File] /\ old \in [Target -> File]
  /\ new \in [Target -> File] /\ bak \in [Target -> File]
  /\ main \in Record(State \cup {"none"})
  /\ tmp \in Record(State \cup {"none", "torn"})
  /\ main.rev \in Nat /\ tmp.rev \in Nat
  /\ lock \in BOOLEAN /\ running \in BOOLEAN
  /\ tries \in 0..MaxTries /\ faults \in 0..MaxFaults /\ good \in 0..MaxVersion

Kept == up \in Process /\ RunInv

UpdaterInv == DiskOK /\ WholeSetRuns /\ EvidenceKept /\ Kept

LEMMA Types == TypeOK <=> DiskOK /\ up \in Process
  BY DEF TypeOK, DiskOK, Record

-----------------------------------------------------------------------------
(* What the operators Then... return, field by field.                       *)
Pcs == {"off", "read", "failed", "done", "check", "fix", "fix_sync", "targets",
        "begin", "stop", "backup", "backup_sync", "copy", "copy_sync", "to_old",
        "old_sync", "to_live", "put_back", "clean", "open", "sync", "remove",
        "rename", "archive", "start_new", "verify", "stop_undo", "start_old",
        "verify_old"}
Sites == Write \cup Swap \cup {"none"}

Carries(u, v) == v.mode = u.mode /\ v.from = u.from /\ v.to = u.to /\ v \in Process

LEMMA ProcessFields ==
  ASSUME NEW u \in Process
  PROVE  /\ u.pc \in Pcs /\ u.mode \in {"update", "recover", "boot"} /\ u.site \in Sites
         /\ u.k \in Target /\ u.n \in 0..N /\ u.bad \in BOOLEAN
         /\ u.j \in Record(State \cup {"none"})
         /\ u.from \in 0..MaxVersion /\ u.to \in 0..MaxVersion
  BY DEF Process, Pcs, Sites

LEMMA GotoIs ==
  ASSUME NEW u \in Process, NEW pc \in Pcs
  PROVE  LET v == Goto(u, pc) IN
           /\ v.pc = pc /\ v.site = u.site /\ v.k = u.k /\ v.n = u.n /\ v.bad = u.bad
           /\ v.j = u.j /\ Carries(u, v)
  BY DEF Goto, Process, Pcs, Carries

LEMMA ThenWriteIs ==
  ASSUME NEW u \in Process, NEW site \in Write, NEW state \in State
  PROVE  LET v == ThenWrite(u, site, state) IN
           /\ v.pc = "open" /\ v.site = site /\ v.k = u.k /\ v.n = u.n /\ v.bad = u.bad
           /\ v.j.state = state /\ v.j.rev = u.j.rev + 1 /\ v.j.id = u.j.id
           /\ Carries(u, v)
<1> DEFINE i == u.j
           h == [i EXCEPT !.state = state]
           j == [i EXCEPT !.state = state, !.rev = @ + 1]
<1>1. i \in Record(State \cup {"none"}) /\ i.rev \in Nat
  BY DEF Process, Record
<1> HIDE DEF i
<1>2. /\ h \in Record(State \cup {"none"}) /\ h.rev \in Nat /\ h.rev = i.rev
      /\ j = [h EXCEPT !.rev = @ + 1]
  BY <1>1 DEF Record
<1>3. j.state = state /\ j.rev = i.rev + 1 /\ j.id = i.id
  BY <1>1 DEF Record
<1> HIDE DEF h, j
<1>4. j \in Record(State \cup {"none"})
  BY <1>2 DEF Record
<1>5. ThenWrite(u, site, state) = [u EXCEPT !.pc = "open", !.site = site, !.j = j]
  BY DEF ThenWrite, j, i
<1>6. [u EXCEPT !.pc = "open", !.site = site] \in Process
  BY DEF Process
<1>7. ThenWrite(u, site, state) \in Process
  BY <1>4, <1>5, <1>6 DEF Process
<1> QED  BY <1>3, <1>5, <1>7 DEF Process, Carries, i

LEMMA ThenSwapIs ==
  ASSUME NEW u \in Process, NEW site \in Swap, NEW k \in Target
  PROVE  LET v == ThenSwap(u, site, k) IN
           /\ v.pc = "copy" /\ v.site = site /\ v.k = k /\ v.n = u.n /\ v.bad = u.bad
           /\ v.j = u.j /\ Carries(u, v)
  BY DEF ThenSwap, Process, Carries

-----------------------------------------------------------------------------
(* What a run establishes when it begins something.  The disk is the one    *)
(* after the step.                                                          *)
LinkedTo(j) ==
  /\ main'.state # "none" => main'.id = j.id /\ main'.rev <= j.rev
  /\ tmp'.state \in State => tmp'.id = j.id /\ tmp'.rev <= j.rev

Covered == Journal'.state \in Active => Backups'

LEMMA WriteBegins ==
  ASSUME NEW v \in Process, NEW site \in Write, NEW state \in State,
         up' = ThenWrite(v, site, state), DiskOK',
         IF site = "terminal" THEN state \in {"committed", "rolled_back"}
                              ELSE state = StateOf[site],
         LinkedTo(v.j), Covered,
         site \in {"swapped", "verifying", "rolling_back", "manual", "committed"}
           => Pending' /\ Backups',
         site \in {"prepared", "backed_up", "undone", "aborted", "recovered", "terminal"}
           => AllGood',
         site = "prepared" => Journal'.state \notin Active,
         site \in {"verifying", "committed"} => \A t \in Target : live'[t] = v.to,
         site = "backed_up" => Backups',
         site \in {"backed_up", "swapped"} => ~running',
         v.mode # "update" => site \in {"terminal", "manual", "recovered"},
         site = "swapped" =>
           \A t \in Target : live'[t] = IF t <= v.k THEN v.to ELSE good'
  PROVE  Kept'
<1>1. /\ up' \in Process /\ up'.pc = "open" /\ up'.site = site /\ up'.k = v.k
      /\ up'.j.state = state /\ up'.j.rev = v.j.rev + 1 /\ up'.j.id = v.j.id
      /\ up'.mode = v.mode /\ up'.to = v.to
  BY ThenWriteIs DEF Carries
<1>2. v.j.rev \in Nat /\ main'.rev \in Nat /\ tmp'.rev \in Nat /\ v.k \in Target
  BY DEF Process, Record, DiskOK
<1>3. Linked'
  BY <1>1, <1>2 DEF Linked, LinkedTo, Resting, Older, NotNewer
<1>4. Stated' /\ Sited'
  BY <1>1 DEF Stated, Sited, Writing, Swapping
<1>5. Evidence'
  BY <1>1 DEF Evidence, Covered, Exposed, Settled, Replaced, Early, At, Writing, Swapping
<1>6. Stopped' /\ Updating'
  BY <1>1 DEF Stopped, Updating, Down, At, Writing, Swapping
<1>7. Swapped' /\ Restored'
  BY <1>1 DEF Swapped, Restored, At, Writing, Swapping
<1> QED  BY <1>1, <1>3, <1>4, <1>5, <1>6, <1>7 DEF Kept, RunInv

LEMMA SwapBegins ==
  ASSUME NEW v \in Process, NEW site \in Swap, NEW k \in Target,
         up' = ThenSwap(v, site, k),
         LinkedTo(v.j), Pending', Backups', ~running',
         v.mode # "update" => site = "recover",
         site = "swap" => \A t \in Target : /\ t < k => live'[t] = v.to
                                            /\ t >= k => live'[t] = good',
         site \in {"abort", "undo"} => k <= v.n,
         site \in {"abort", "undo"} /\ ~v.bad =>
           \A t \in Target : t < k \/ t > v.n => live'[t] = good',
         site = "recover" => \A t \in Target : t < k => live'[t] = good'
  PROVE  Kept'
<1>1. /\ up' \in Process /\ up'.pc = "copy" /\ up'.site = site /\ up'.k = k /\ up'.n = v.n /\ up'.bad = v.bad
      /\ up'.j = v.j /\ up'.mode = v.mode /\ up'.to = v.to
  BY ThenSwapIs DEF Carries
<1>3. Linked'
  BY <1>1 DEF Linked, LinkedTo, Resting, Older, NotNewer
<1>4. Stated' /\ Sited'
  BY <1>1 DEF Stated, Sited, Writing, Swapping
<1>5. Evidence'
  BY <1>1 DEF Evidence, Exposed, Settled, Replaced, Early, At, Writing, Swapping
<1>6. Stopped' /\ Updating'
  BY <1>1 DEF Stopped, Updating, Down, At, Writing, Swapping, Swap
<1>7. Swapped' /\ Restored'
  BY <1>1 DEF Swapped, Restored, At, Writing, Swapping, Target
<1> QED  BY <1>1, <1>3, <1>4, <1>5, <1>6, <1>7 DEF Kept, RunInv

(* restore() through with its list: all is as it was, or people must look.  *)
LEMMA RestoreEnds ==
  ASSUME NEW v \in Process, v.site \in {"abort", "undo"}, v.mode = "update",
         up' = ThenRestored(v), DiskOK', LinkedTo(v.j), Covered,
         v.bad \/ v.site = "undo" => Pending' /\ Backups',
         ~v.bad => AllGood'
  PROVE  Kept'
<1>1. CASE v.bad
  <2>1. up' = ThenWrite(v, "manual", "manual_recovery")
    BY <1>1 DEF ThenRestored
  <2>2. "manual" \in Write /\ "manual_recovery" \in State
        /\ StateOf["manual"] = "manual_recovery"
    BY DEF Write, State, StateOf
  <2> QED  BY <1>1, <2>1, <2>2, WriteBegins
<1>2. CASE ~v.bad /\ v.site = "abort"
  <2>1. up' = ThenWrite(v, "aborted", "rolled_back")
    BY <1>2 DEF ThenRestored
  <2>2. "aborted" \in Write /\ "rolled_back" \in State /\ StateOf["aborted"] = "rolled_back"
    BY DEF Write, State, StateOf
  <2> QED  BY <1>2, <2>1, <2>2, WriteBegins
<1>3. CASE ~v.bad /\ v.site = "undo"
  <2>1. up' = Goto(v, "start_old")
    BY <1>3 DEF ThenRestored
  <2>2. /\ up' \in Process /\ up'.pc = "start_old" /\ up'.j = v.j /\ up'.mode = v.mode
    BY <2>1, GotoIs DEF Pcs, Carries
  <2>3. Linked'
    BY <2>2 DEF Linked, LinkedTo, NotNewer
  <2>4. Stated' /\ Sited' /\ Stopped' /\ Updating' /\ Swapped' /\ Restored'
    BY <2>2 DEF Stated, Sited, Stopped, Updating, Swapped, Restored, Down, At, Writing, Swapping
  <2>5. Evidence'
    BY <1>3, <2>2 DEF Evidence, Covered, Exposed, Settled, Replaced, Early, At, Writing, Swapping
  <2> QED  BY <2>2, <2>3, <2>4, <2>5 DEF Kept, RunInv
<1> QED  BY <1>1, <1>2, <1>3 DEF Process

(* restore() of the first n binaries.                                       *)
LEMMA RestoreBegins ==
  ASSUME NEW v \in Process, NEW site \in {"abort", "undo"}, NEW n \in 0..N,
         NEW bad \in BOOLEAN, up' = ThenRestore(v, site, n, bad), v.mode = "update",
         DiskOK', LinkedTo(v.j), Covered,
         n > 0 \/ bad \/ site = "undo" => Pending' /\ Backups',
         n > 0 => ~running',
         ~bad => \A t \in Target : t > n => live'[t] = good'
  PROVE  Kept'
<1> DEFINE w == [v EXCEPT !.site = site, !.n = n, !.bad = bad]
<1>1. /\ w \in Process /\ w.site = site /\ w.n = n /\ w.bad = bad /\ w.mode = v.mode
      /\ w.j = v.j
  BY DEF Process, Swap
<1>2. up' = IF n = 0 THEN ThenRestored(w) ELSE ThenSwap(w, site, 1)
  BY DEF ThenRestore
<1> HIDE DEF w
<1>3. CASE n = 0
  <2>1. ~bad => AllGood'
    BY <1>3 DEF AllGood, Target
  <2> QED  BY <1>1, <1>2, <1>3, <2>1, RestoreEnds
<1>4. CASE n # 0
  <2>1. n > 0 /\ 1 <= n /\ 1 \in Target /\ site \in Swap /\ up' = ThenSwap(w, site, 1)
    BY <1>2, <1>4, UpdaterAssumption DEF Target, Swap
  <2>2. \A t \in Target : ~(t < 1)
    BY DEF Target
  <2> QED  BY <1>1, <2>1, <2>2, SwapBegins
<1> QED  BY <1>3, <1>4

(* Recovery is through with one binary.                                     *)
LEMMA FixEnds ==
  ASSUME NEW v \in Process, up' = ThenFixed(v), DiskOK', LinkedTo(v.j),
         Pending', Backups', ~running',
         v.mode # "update" => v.site \in {"none", "terminal", "manual", "recovered", "recover"},
         \A t \in Target : t <= v.k => live'[t] = good'
  PROVE  Kept'
<1>0. v.k \in Target /\ N \in Nat
  BY UpdaterAssumption DEF Process
<1>1. CASE v.k < N
  <2>1. up' = [v EXCEPT !.pc = "fix", !.k = @ + 1] /\ v.k + 1 \in Target
    BY <1>0, <1>1 DEF ThenFixed, Target
  <2>2. /\ up' \in Process /\ up'.pc = "fix" /\ up'.k = v.k + 1 /\ up'.j = v.j
        /\ up'.mode = v.mode /\ up'.site = v.site
    BY <2>1 DEF Process
  <2>3. Linked'
    BY <2>2 DEF Linked, LinkedTo, NotNewer
  <2>4. Stated' /\ Sited' /\ Stopped' /\ Updating' /\ Swapped'
    BY <2>2 DEF Stated, Sited, Stopped, Updating, Swapped, Down, At, Writing, Swapping
  <2>5. Evidence'
    BY <2>2 DEF Evidence, Exposed, Settled, Replaced, Early, At, Writing, Swapping
  <2>6. Restored'
    BY <1>0, <2>2 DEF Restored, At, Swapping, Target
  <2> QED  BY <2>2, <2>3, <2>4, <2>5, <2>6 DEF Kept, RunInv
<1>2. CASE ~(v.k < N)
  <2>1. up' = ThenWrite(v, "recovered", "rolled_back")
    BY <1>2 DEF ThenFixed
  <2>2. "recovered" \in Write /\ "rolled_back" \in State
        /\ StateOf["recovered"] = "rolled_back"
    BY DEF Write, State, StateOf
  <2>3. AllGood'
    BY <1>0, <1>2 DEF AllGood, Target
  <2> QED  BY <2>1, <2>2, <2>3, WriteBegins DEF Covered
<1> QED  BY <1>1, <1>2

(* atomicSwapInto returns: the binary at hand is what it was to become, or, *)
(* unless even putting it back failed, what it was.                         *)
LEMMA SwapEnds ==
  ASSUME UpdaterInv, up.pc \in Swapping, NEW result \in {"ok", "err", "lost"},
         up' = ThenSwapped(up, result), DiskOK',
         UNCHANGED <<main, tmp, bak, running, good>>,
         \A t \in Target : t # up.k => live'[t] = live[t],
         result = "ok" => live'[up.k] = Source,
         result = "err" /\ up.site = "swap" => live'[up.k] = good
  PROVE  Kept'
<1>0. /\ up \in Process /\ up.k \in Target /\ up.n \in 0..N /\ up.site \in Swap
      /\ up.bad \in BOOLEAN /\ N \in Nat
  BY UpdaterAssumption DEF UpdaterInv, Kept, RunInv, Sited, Process
<1>1. Pending /\ Backups /\ ~running
  BY DEF UpdaterInv, Kept, RunInv, Evidence, Exposed, Stopped, Down
<1>2. Pending' /\ Backups' /\ ~running' /\ Covered
  BY <1>1 DEF Pending, Backups, Journal, Covered
<1>3. LinkedTo(up.j)
  BY DEF UpdaterInv, Kept, RunInv, Linked, LinkedTo, NotNewer, Resting, Swapping
<1>4. up.site # "recover" => up.mode = "update"
  BY <1>0 DEF UpdaterInv, Kept, RunInv, Updating, Swap
<1>5. up.site # "swap" /\ result = "ok" => live'[up.k] = good'
  BY <1>0, <1>1 DEF Source, Backups
<1>6. CASE up.site = "swap" /\ result = "ok"
  <2>1. up' = ThenWrite(up, "swapped", "swapping")
    BY <1>6 DEF ThenSwapped
  <2>2. "swapped" \in Write /\ "swapping" \in State /\ StateOf["swapped"] = "swapping"
    BY DEF Write, State, StateOf
  <2>3. \A t \in Target : live'[t] = IF t <= up.k THEN up.to ELSE good'
    BY <1>0, <1>6 DEF UpdaterInv, Kept, RunInv, Swapped, At, Source, Target
  <2> QED  BY <1>0, <1>2, <1>3, <1>4, <1>6, <2>1, <2>2, <2>3, WriteBegins
<1>7. CASE up.site = "swap" /\ result # "ok"
  <2>1. up' = ThenRestore(up, "abort", up.k - 1, result = "lost")
    BY <1>7 DEF ThenSwapped
  <2>2. up.k - 1 \in 0..N
    BY <1>0 DEF Target
  <2>3. result # "lost" => \A t \in Target : t > up.k - 1 => live'[t] = good'
    BY <1>0, <1>7 DEF UpdaterInv, Kept, RunInv, Swapped, At, Target
  <2> QED  BY <1>0, <1>2, <1>3, <1>4, <1>7, <2>1, <2>2, <2>3, RestoreBegins
<1>8. CASE up.site = "recover" /\ result = "ok"
  <2>1. up' = ThenFixed(up)
    BY <1>8 DEF ThenSwapped
  <2>2. \A t \in Target : t <= up.k => live'[t] = good'
    BY <1>0, <1>5, <1>8 DEF UpdaterInv, Kept, RunInv, Restored, At, Target
  <2> QED  BY <1>0, <1>2, <1>3, <1>8, <2>1, <2>2, FixEnds
<1>9. CASE up.site = "recover" /\ result # "ok"
  <2>1. up' = ThenWrite(up, "manual", "manual_recovery")
    BY <1>9 DEF ThenSwapped
  <2>2. "manual" \in Write /\ "manual_recovery" \in State
        /\ StateOf["manual"] = "manual_recovery"
    BY DEF Write, State, StateOf
  <2> QED  BY <1>0, <1>2, <1>3, <2>1, <2>2, WriteBegins
<1>10. CASE up.site \in {"abort", "undo"}
  <2> DEFINE v == [up EXCEPT !.bad = @ \/ result # "ok"]
  <2>1. /\ v \in Process /\ v.site = up.site /\ v.k = up.k /\ v.n = up.n /\ v.j = up.j
        /\ v.mode = "update" /\ v.bad = (up.bad \/ result # "ok")
    BY <1>0, <1>4, <1>10 DEF Process
  <2>2. up' = IF v.k < v.n THEN ThenSwap(v, v.site, v.k + 1) ELSE ThenRestored(v)
    BY <1>10, <2>1 DEF ThenSwapped
  <2>3. ASSUME ~v.bad, NEW t \in Target, t < up.k + 1 \/ t > up.n
        PROVE  live'[t] = good'
    <3>1. ~up.bad /\ result = "ok"
      BY <2>1, <2>3
    <3>2. t < up.k \/ t > up.n => live[t] = good
      BY <1>0, <1>10, <3>1 DEF UpdaterInv, Kept, RunInv, Restored, At
    <3> QED  BY <1>0, <1>5, <1>10, <2>3, <3>1, <3>2 DEF Target
  <2> HIDE DEF v
  <2>4. CASE v.k < v.n
    <3>1. v.k + 1 \in Target /\ v.k + 1 <= v.n
      BY <1>0, <2>1, <2>4 DEF Target
    <3> QED  BY <1>2, <1>3, <1>0, <1>10, <2>1, <2>2, <2>3, <2>4, <3>1, SwapBegins
  <2>5. CASE ~(v.k < v.n)
    <3>1. ~v.bad => AllGood'
      BY <1>0, <2>1, <2>3, <2>5 DEF AllGood, Target
    <3> QED  BY <1>2, <1>3, <1>10, <2>1, <2>2, <2>5, <3>1, RestoreEnds
  <2> QED  BY <2>4, <2>5
<1> QED  BY <1>0, <1>6, <1>7, <1>8, <1>9, <1>10 DEF Swap

(* A run is over: what is on disk must speak for itself.                    *)
LEMMA RestBegins ==
  ASSUME NEW v \in Process, NEW pc \in {"failed", "done"}, up' = Goto(v, pc), Covered,
         pc = "done" => v.mode = "update",
         v.mode # "update" => v.site \in {"none", "terminal", "manual", "recovered", "recover"}
  PROVE  Kept'
<1>1. /\ up' \in Process /\ up'.pc = pc /\ up'.site = v.site /\ up'.mode = v.mode
  BY GotoIs DEF Pcs, Carries
<1>2. Linked' /\ Stated' /\ Sited' /\ Stopped' /\ Updating' /\ Swapped' /\ Restored'
  BY <1>1 DEF Linked, Resting, Stated, Sited, Stopped, Updating, Swapped, Restored, Down, At,
     Writing, Swapping
<1>3. Evidence'
  BY <1>1 DEF Evidence, Covered, Exposed, Settled, Replaced, Early, At, Writing, Swapping
<1> QED  BY <1>1, <1>2, <1>3 DEF Kept, RunInv

(* The journal write, or its archiving, returns.                            *)
LEMMA WriteEnds ==
  ASSUME UpdaterInv, up.pc \in Writing, NEW ok \in BOOLEAN,
         up' = ThenWritten(up, ok), DiskOK', UNCHANGED <<live, bak>>,
         LinkedTo(up.j), Covered,
         running' = (running \/ Restarts(up.site, ok)),
         up.site # "committed" => good' = good,
         up.site \in {"swapped", "verifying", "rolling_back"} => Pending',
         ok /\ up.site = "backed_up" => Pending',
         up.site = "prepared" => Journal'.state \notin Active,
         ok /\ up.site \in {"terminal", "recovered"} =>
           main'.state = "none" /\ tmp'.state = "none"
  PROVE  Kept'
<1>0. /\ up \in Process /\ up.k \in Target /\ up.site \in Write /\ N \in Nat
      /\ 1 \in Target
  BY UpdaterAssumption DEF UpdaterInv, Kept, RunInv, Stated, Process, Target
<1>1. Evidence /\ Updating /\ Stopped /\ Swapped
  BY DEF UpdaterInv, Kept, RunInv
<1>2. /\ up.site \notin {"terminal", "manual", "recovered"} => up.mode = "update"
      /\ up.mode # "update" => up.site \in {"none", "terminal", "manual", "recovered", "recover"}
  BY <1>0, <1>1 DEF Updating, Write
<1>3. /\ up.site \in {"prepared", "backed_up", "undone", "aborted", "recovered", "terminal"}
           => AllGood'
      /\ up.site \in {"swapped", "verifying", "rolling_back", "backed_up"} => Backups'
      /\ up.site = "verifying" => \A t \in Target : live'[t] = up.to
      /\ up.site \in {"backed_up", "swapped"} => ~running'
      /\ up.site = "swapped" =>
           \A t \in Target : live'[t] = IF t <= up.k THEN up.to ELSE good'
  BY <1>0, <1>1 DEF Evidence, Exposed, Settled, Replaced, Stopped, Down, Swapped, At, AllGood,
     Backups, Restarts
<1>4. CASE up.site = "prepared" /\ ok
  <2>1. up' = Goto(up, "stop")
    BY <1>4 DEF ThenWritten
  <2>a. up.mode = "update"
    BY <1>2, <1>4
  <2>2. up' \in Process /\ up'.pc = "stop" /\ up'.j = up.j /\ up'.site = up.site
        /\ up'.mode = "update"
    BY <1>0, <2>a, <2>1, GotoIs DEF Pcs, Carries
  <2>3. Linked'
    BY <2>2 DEF Linked, LinkedTo, NotNewer
  <2>4. Stated' /\ Sited' /\ Stopped' /\ Updating' /\ Swapped' /\ Restored'
    BY <2>2 DEF Stated, Sited, Stopped, Updating, Swapped, Restored, Down, At, Writing, Swapping
  <2>5. Evidence'
    BY <1>3, <1>4, <2>2 DEF Evidence, Covered, Exposed, Settled, Replaced, Early, At, Writing, Swapping
  <2> QED  BY <2>2, <2>3, <2>4, <2>5 DEF Kept, RunInv
<1>5. CASE up.site = "backed_up" /\ ok
  <2>1. up' = ThenSwap(up, "swap", 1)
    BY <1>5 DEF ThenWritten
  <2>2. \A t \in Target : /\ t < 1 => live'[t] = up.to
                          /\ t >= 1 => live'[t] = good'
    BY <1>3, <1>5 DEF AllGood, Target
  <2> QED  BY <1>0, <1>2, <1>3, <1>5, <2>1, <2>2, SwapBegins DEF Swap
<1>6. CASE up.site = "backed_up" /\ ~ok
  <2>1. up' = ThenRestore(up, "abort", 0, FALSE)
    BY <1>6 DEF ThenWritten
  <2>2. \A t \in Target : live'[t] = good'
    BY <1>3, <1>6 DEF AllGood
  <2>3. up.mode = "update"
    BY <1>2, <1>6
  <2>4. 0 \in 0..N /\ FALSE \in BOOLEAN /\ "abort" \in {"abort", "undo"}
        /\ ~(0 > 0 \/ FALSE \/ "abort" = "undo")
    BY <1>0
  <2> QED  BY <1>0, <2>1, <2>2, <2>3, <2>4, RestoreBegins
<1>7. CASE up.site = "swapped" /\ ok /\ up.k < N
  <2>1. up' = ThenSwap(up, "swap", up.k + 1) /\ up.k + 1 \in Target
    BY <1>0, <1>7 DEF ThenWritten, Target
  <2>2. \A t \in Target : /\ t < up.k + 1 => live'[t] = up.to
                          /\ t >= up.k + 1 => live'[t] = good'
    BY <1>0, <1>3, <1>7 DEF Target
  <2> QED  BY <1>0, <1>2, <1>3, <1>7, <2>1, <2>2, SwapBegins DEF Swap
<1>8. CASE up.site = "swapped" /\ ok /\ ~(up.k < N)
  <2>1. up' = ThenWrite(up, "verifying", "verifying")
    BY <1>8 DEF ThenWritten
  <2>2. "verifying" \in Write /\ "verifying" \in State /\ StateOf["verifying"] = "verifying"
    BY DEF Write, State, StateOf
  <2>3. \A t \in Target : live'[t] = up.to
    BY <1>0, <1>3, <1>8 DEF Target
  <2> QED  BY <1>0, <1>2, <1>3, <1>8, <2>1, <2>2, <2>3, WriteBegins
<1>9. CASE up.site = "swapped" /\ ~ok
  <2>1. up' = ThenRestore(up, "abort", up.k, FALSE) /\ up.k \in 0..N
    BY <1>0, <1>9 DEF ThenWritten, Target
  <2>2. \A t \in Target : t > up.k => live'[t] = good'
    BY <1>0, <1>3, <1>9 DEF Target
  <2> QED  BY <1>0, <1>2, <1>3, <1>9, <2>1, <2>2, RestoreBegins
<1>10. CASE up.site \in {"verifying", "rolling_back"}
  <2> DEFINE pc == IF up.site = "verifying" THEN "start_new" ELSE "stop_undo"
  <2>1. up' = Goto(up, pc)
    BY <1>10 DEF ThenWritten
  <2>2. up' \in Process /\ up'.pc = pc /\ up'.j = up.j /\ up'.site = up.site
        /\ up'.mode = "update" /\ up'.to = up.to
    BY <1>0, <1>2, <1>10, <2>1, GotoIs DEF Pcs, Carries
  <2>3. Linked'
    BY <2>2 DEF Linked, LinkedTo, NotNewer
  <2>4. Stated' /\ Sited' /\ Stopped' /\ Updating' /\ Swapped' /\ Restored'
    BY <2>2 DEF Stated, Sited, Stopped, Updating, Swapped, Restored, Down, At, Writing, Swapping
  <2>5. Evidence'
    BY <1>3, <1>10, <2>2 DEF Evidence, Covered, Exposed, Settled, Replaced, Early, At, Writing, Swapping
  <2> QED  BY <2>2, <2>3, <2>4, <2>5 DEF Kept, RunInv
<1>11. CASE up.site \in {"terminal", "recovered"} /\ ok
  <2>1. up' = Goto(up, "targets")
    BY <1>11 DEF ThenWritten
  <2>2. up' \in Process /\ up'.pc = "targets" /\ up'.site = up.site /\ up'.mode = up.mode
    BY <1>0, <2>1, GotoIs DEF Pcs, Carries
  <2>3. Linked'
    BY <1>11, <2>2 DEF Linked, Resting
  <2>4. Stated' /\ Sited' /\ Stopped' /\ Updating' /\ Swapped' /\ Restored'
    BY <1>2, <2>2 DEF Stated, Sited, Stopped, Updating, Swapped, Restored, Down, At, Writing,
       Swapping
  <2>5. Evidence'
    BY <1>3, <1>11, <2>2 DEF Evidence, Covered, Exposed, Settled, Replaced, Early, At, Writing, Swapping
  <2> QED  BY <2>2, <2>3, <2>4, <2>5 DEF Kept, RunInv
<1>12. CASE \/ up.site \in {"committed", "undone"}
            \/ up.site \in {"aborted", "manual"}
            \/ up.site \in {"prepared", "terminal", "recovered"} /\ ~ok
  <2>1. \E pc \in {"failed", "done"} :
          /\ up' = Goto(up, pc)
          /\ pc = "done" => up.site \in {"committed", "undone"}
    BY <1>12 DEF ThenWritten
  <2> QED  BY <1>0, <1>2, <2>1, RestBegins
<1> QED
  BY <1>0, <1>4, <1>5, <1>6, <1>7, <1>8, <1>9, <1>10, <1>11, <1>12 DEF Write

-----------------------------------------------------------------------------
(* What is left to show of a step when the run goes on as it should.        *)
LEMMA Whole ==
  ASSUME DiskOK', \/ ~running'
                  \/ AllGood'
                  \/ \E v \in 0..MaxVersion : \A t \in Target : live'[t] = v
                  \/ (WholeSetRuns /\ running /\ UNCHANGED live)
  PROVE  WholeSetRuns'
  BY UpdaterAssumption DEF WholeSetRuns, AllGood, DiskOK, Target

LEMMA Shown ==
  ASSUME AllGood' \/ (Pending' /\ Backups')
  PROVE  EvidenceKept'
  BY DEF EvidenceKept, AllGood, Pending, Backups

LEMMA Fields ==
  ASSUME UpdaterInv
  PROVE  /\ up \in Process /\ up.pc \in Pcs /\ up.site \in Sites /\ up.k \in Target
         /\ up.n \in 0..N /\ up.from \in 0..MaxVersion /\ up.to \in 0..MaxVersion
         /\ up.mode \in {"update", "recover", "boot"}
         /\ up.j.state \in State \cup {"none"} /\ up.j.rev \in Nat /\ up.j.id \in Nat
         /\ N \in Nat \ {0} /\ 1 \in Target
<1>1. up \in Process
  BY DEF UpdaterInv, Kept
<1>2. up.j \in Record(State \cup {"none"})
  BY <1>1, ProcessFields
<1>3. up.j.state \in State \cup {"none"} /\ up.j.rev \in Nat /\ up.j.id \in Nat
  BY <1>2 DEF Record
<1> QED  BY <1>1, <1>3, ProcessFields, UpdaterAssumption DEF Target

(* ------------------------- inside atomicSwapInto ------------------------ *)
SwapStep ==
  /\ UNCHANGED <<main, tmp, bak, running, good>>
  /\ \A t \in Target : t # up.k => live'[t] = live[t]

LEMMA SwapKeeps ==
  ASSUME UpdaterInv, up.pc \in Swapping, SwapStep, DiskOK', Kept'
  PROVE  UpdaterInv'
<1>1. Pending /\ Backups /\ ~running
  BY DEF UpdaterInv, Kept, RunInv, Evidence, Exposed, Stopped, Down
<1>2. Pending' /\ Backups' /\ ~running'
  BY <1>1 DEF SwapStep, Pending, Backups, Journal
<1> QED  BY <1>2, Whole, Shown DEF UpdaterInv

(* One file operation of a swap is done; the next is at pc.                 *)
LEMMA SwapGoesOn ==
  ASSUME UpdaterInv, up.pc \in Swapping, SwapStep, DiskOK', NEW pc \in Swapping,
         up' = Goto(up, pc),
         up.site = "swap" /\ pc \in {"copy", "copy_sync", "to_old", "old_sync"}
           => live'[up.k] = good,
         up.site = "swap" /\ pc \in {"to_live", "put_back"} => old'[up.k] = good,
         pc \in {"to_old", "old_sync", "to_live"} => new'[up.k] = Source,
         pc = "clean" => live'[up.k] = Source
  PROVE  UpdaterInv'
<1>0. up \in Process /\ up.k \in Target /\ up.n \in 0..N /\ N \in Nat /\ RunInv
      /\ up.site \in Swap
  BY Fields DEF UpdaterInv, Kept, RunInv, Sited
<1>1. /\ up' \in Process /\ up'.pc = pc /\ up'.site = up.site /\ up'.k = up.k /\ up'.n = up.n
      /\ up'.bad = up.bad /\ up'.j = up.j /\ up'.mode = up.mode /\ up'.to = up.to
  BY <1>0, GotoIs DEF Swapping, Pcs, Carries
<1>2. Linked' /\ Stated' /\ Sited' /\ Stopped' /\ Updating'
  BY <1>0, <1>1 DEF SwapStep, RunInv, Linked, Resting, Older, NotNewer, Stated, Sited, Stopped,
     Updating, Down, At, Writing, Swapping
<1>3. Evidence'
  BY <1>0, <1>1 DEF SwapStep, RunInv, Evidence, Pending, Backups, Journal, Exposed, Settled,
     Replaced, Early, At, Writing, Swapping
<1>4. Source' = Source
  BY <1>0, <1>1 DEF Source, SwapStep
<1>5. Swapped'
  BY <1>0, <1>1, <1>4 DEF SwapStep, RunInv, Swapped, At, Writing, Swapping, Target
<1>6. Restored'
  BY <1>0, <1>1 DEF SwapStep, RunInv, Restored, At, Writing, Swapping, Target
<1> QED  BY <1>1, <1>2, <1>3, <1>5, <1>6, SwapKeeps DEF Kept, RunInv

(* What is known of the binary at hand.                                     *)
LEMMA AtHand ==
  ASSUME UpdaterInv, up.pc \in Swapping
  PROVE  /\ up \in Process /\ up.k \in Target /\ Source \in File
         /\ live[up.k] \in File /\ old[up.k] \in File /\ new[up.k] \in File
         /\ Absent \in File /\ Torn \in File
         /\ At({"copy", "copy_sync", "to_old", "old_sync"}, {"swap"}) => live[up.k] = good
         /\ At({"to_live", "put_back"}, {"swap"}) => old[up.k] = good
         /\ up.pc \in {"to_old", "old_sync", "to_live"} => new[up.k] = Source
         /\ up.pc = "clean" => live[up.k] = Source
<1>1. up.k \in Target /\ up.to \in 0..MaxVersion /\ up \in Process
  BY Fields
<1>2. Source \in File
  BY <1>1 DEF Source, UpdaterInv, DiskOK, File
<1> QED  BY <1>1, <1>2 DEF UpdaterInv, DiskOK, Kept, RunInv, Swapped, File

LEMMA StepCopyNew ==
  ASSUME UpdaterInv, CopyNew
  PROVE  UpdaterInv'
<1>1. up.pc = "copy" /\ up.pc \in Swapping
  BY DEF CopyNew, Swapping
<1>2. SwapStep /\ UNCHANGED <<live, old>>
  BY DEF CopyNew, SwapStep
<1>3. DiskOK'
  BY <1>1, AtHand, UpdaterAssumption DEF CopyNew, UpdaterInv, DiskOK, IOFailure
<1>4. CASE new' = [new EXCEPT ![up.k] = Torn] /\ up' = Goto(up, "copy_sync")
  <2>1. up.site = "swap" => live'[up.k] = good
    BY <1>1, <1>2, AtHand DEF At
  <2> QED  BY <1>1, <1>2, <1>3, <1>4, <2>1, SwapGoesOn DEF Swapping
<1>5. CASE up' = ThenSwapped(up, "err")
  <2>1. up.site = "swap" => live'[up.k] = good
    BY <1>1, <1>2, AtHand DEF At
  <2>2. Kept'
    BY <1>1, <1>2, <1>3, <1>5, <2>1, SwapEnds DEF SwapStep
  <2> QED  BY <1>1, <1>2, <1>3, <2>2, SwapKeeps
<1> QED  BY <1>4, <1>5 DEF CopyNew, Steps

LEMMA StepSyncNew ==
  ASSUME UpdaterInv, SyncNew
  PROVE  UpdaterInv'
<1>1. up.pc = "copy_sync" /\ up.pc \in Swapping
  BY DEF SyncNew, Swapping
<1>2. SwapStep /\ UNCHANGED <<live, old>>
  BY DEF SyncNew, SwapStep
<1>3. DiskOK'
  BY <1>1, AtHand, UpdaterAssumption DEF SyncNew, UpdaterInv, DiskOK, IOFailure
<1>4. up.site = "swap" => live'[up.k] = good
  BY <1>1, <1>2, AtHand DEF At
<1>5. CASE new' = [new EXCEPT ![up.k] = Source] /\ up' = Goto(up, "to_old")
  <2>1. new'[up.k] = Source
    BY <1>1, <1>5, AtHand DEF UpdaterInv, DiskOK
  <2> QED  BY <1>1, <1>2, <1>3, <1>4, <1>5, <2>1, SwapGoesOn DEF Swapping
<1>6. CASE up' = ThenSwapped(up, "err")
  <2>1. Kept'
    BY <1>1, <1>2, <1>3, <1>4, <1>6, SwapEnds DEF SwapStep
  <2> QED  BY <1>1, <1>2, <1>3, <2>1, SwapKeeps
<1> QED  BY <1>5, <1>6 DEF SyncNew, Steps

LEMMA StepToOld ==
  ASSUME UpdaterInv, ToOld
  PROVE  UpdaterInv'
<1>1. up.pc = "to_old" /\ up.pc \in Swapping
  BY DEF ToOld, Swapping
<1>2. SwapStep
  BY <1>1, AtHand DEF ToOld, SwapStep, UpdaterInv, DiskOK
<1>3. DiskOK'
  BY <1>1, AtHand, UpdaterAssumption DEF ToOld, UpdaterInv, DiskOK, IOFailure
<1>4. /\ up.k \in Target /\ new[up.k] = Source /\ live \in [Target -> File]
      /\ old \in [Target -> File]
      /\ up.site = "swap" => live[up.k] = good
  BY <1>1, AtHand DEF At, UpdaterInv, DiskOK
<1>5. CASE /\ old' = [old EXCEPT ![up.k] = IF Native THEN Torn ELSE live[up.k]]
           /\ live' = [live EXCEPT ![up.k] = IF Native THEN @ ELSE Absent]
           /\ up' = Goto(up, IF Native THEN "old_sync" ELSE "to_live")
           /\ UNCHANGED new
  <2>1. CASE Native
    <3>1. live'[up.k] = live[up.k] /\ new'[up.k] = Source /\ up' = Goto(up, "old_sync")
      BY <1>4, <1>5, <2>1
    <3> QED  BY <1>1, <1>2, <1>3, <1>4, <3>1, SwapGoesOn DEF Swapping
  <2>2. CASE ~Native
    <3>1. old'[up.k] = live[up.k] /\ new'[up.k] = Source /\ up' = Goto(up, "to_live")
      BY <1>4, <1>5, <2>2
    <3> QED  BY <1>1, <1>2, <1>3, <1>4, <3>1, SwapGoesOn DEF Swapping
  <2> QED  BY <2>1, <2>2, UpdaterAssumption
<1>6. CASE up' = ThenSwapped(up, "err") /\ UNCHANGED live
  <2>1. Kept'
    BY <1>1, <1>2, <1>3, <1>4, <1>6, SwapEnds DEF SwapStep
  <2> QED  BY <1>1, <1>2, <1>3, <2>1, SwapKeeps
<1> QED  BY <1>5, <1>6 DEF ToOld, Steps

LEMMA StepSyncOld ==
  ASSUME UpdaterInv, SyncOld
  PROVE  UpdaterInv'
<1>1. up.pc = "old_sync" /\ up.pc \in Swapping
  BY DEF SyncOld, Swapping
<1>2. SwapStep /\ UNCHANGED live
  BY DEF SyncOld, SwapStep
<1>3. DiskOK'
  BY <1>1, AtHand, UpdaterAssumption DEF SyncOld, UpdaterInv, DiskOK, IOFailure
<1>4. /\ up.k \in Target /\ new[up.k] = Source /\ old \in [Target -> File]
      /\ up.site = "swap" => live'[up.k] = good
  BY <1>1, <1>2, AtHand DEF At, UpdaterInv, DiskOK
<1>5. CASE /\ old' = [old EXCEPT ![up.k] = live[up.k]]
           /\ up' = Goto(up, "to_live") /\ UNCHANGED new
  <2>1. old'[up.k] = live'[up.k] /\ new'[up.k] = Source
    BY <1>2, <1>4, <1>5
  <2> QED  BY <1>1, <1>2, <1>3, <1>4, <1>5, <2>1, SwapGoesOn DEF Swapping
<1>6. CASE up' = ThenSwapped(up, "err")
  <2>1. Kept'
    BY <1>1, <1>2, <1>3, <1>4, <1>6, SwapEnds DEF SwapStep
  <2> QED  BY <1>1, <1>2, <1>3, <2>1, SwapKeeps
<1> QED  BY <1>5, <1>6 DEF SyncOld, Steps

LEMMA StepToLive ==
  ASSUME UpdaterInv, ToLive
  PROVE  UpdaterInv'
<1>1. up.pc = "to_live" /\ up.pc \in Swapping
  BY DEF ToLive, Swapping
<1>2. SwapStep /\ UNCHANGED old
  BY <1>1, AtHand DEF ToLive, SwapStep, UpdaterInv, DiskOK
<1>3. DiskOK'
  BY <1>1, AtHand, UpdaterAssumption DEF ToLive, UpdaterInv, DiskOK, IOFailure
<1>4. CASE live' = [live EXCEPT ![up.k] = new[up.k]] /\ up' = Goto(up, "clean")
  <2>1. live'[up.k] = Source
    BY <1>1, <1>4, AtHand DEF UpdaterInv, DiskOK
  <2> QED  BY <1>1, <1>2, <1>3, <1>4, <2>1, SwapGoesOn DEF Swapping
<1>5. CASE up' = Goto(up, "put_back")
  <2>1. up.site = "swap" => old'[up.k] = good
    BY <1>1, <1>2, AtHand DEF At
  <2> QED  BY <1>1, <1>2, <1>3, <1>5, <2>1, SwapGoesOn DEF Swapping
<1> QED  BY <1>4, <1>5 DEF ToLive, Steps

LEMMA StepPutBack ==
  ASSUME UpdaterInv, PutBack
  PROVE  UpdaterInv'
<1>1. up.pc = "put_back" /\ up.pc \in Swapping
  BY DEF PutBack, Swapping
<1>2. SwapStep
  BY <1>1, AtHand DEF PutBack, SwapStep, UpdaterInv, DiskOK
<1>3. DiskOK'
  BY <1>1, AtHand, UpdaterAssumption DEF PutBack, UpdaterInv, DiskOK, IOFailure
<1>4. \E result \in {"err", "lost"} :
        /\ up' = ThenSwapped(up, result)
        /\ result = "err" /\ up.site = "swap" => live'[up.k] = good
  BY <1>1, AtHand DEF PutBack, Steps, At, UpdaterInv, DiskOK
<1>5. Kept'
  BY <1>1, <1>2, <1>3, <1>4, SwapEnds DEF SwapStep
<1> QED  BY <1>1, <1>2, <1>3, <1>5, SwapKeeps

LEMMA StepClean ==
  ASSUME UpdaterInv, Clean
  PROVE  UpdaterInv'
<1>1. up.pc = "clean" /\ up.pc \in Swapping
  BY DEF Clean, Swapping
<1>2. SwapStep /\ live' = live /\ live[up.k] = Source
  BY <1>1, AtHand DEF Clean, SwapStep, history
<1>3. DiskOK'
  BY <1>1, AtHand DEF Clean, UpdaterInv, DiskOK, history
<1>4. Kept'
  BY <1>1, <1>2, <1>3, SwapEnds DEF SwapStep, Clean, Steps
<1> QED  BY <1>1, <1>2, <1>3, <1>4, SwapKeeps

(* ------------------------- writing the journal -------------------------- *)
LEMMA Counted ==
  ASSUME DiskOK, UNCHANGED faults \/ IOFailure
  PROVE  faults' \in 0..MaxFaults
  BY UpdaterAssumption DEF DiskOK, IOFailure

LEMMA Records ==
  /\ NoRecord \in Record(State \cup {"none"}) /\ NoRecord \in Record(State \cup {"none", "torn"})
  /\ TornRecord \in Record(State \cup {"none", "torn"})
  /\ \A r \in Record(State \cup {"none"}) :
       r \in Record(State \cup {"none", "torn"}) /\ r.rev \in Nat
  /\ NoRecord.state = "none" /\ NoRecord.rev \in Nat
  /\ TornRecord.state = "torn" /\ TornRecord.rev \in Nat
  BY DEF Record, NoRecord, TornRecord

(* Whether a write starts the set when it returns.                          *)
LEMMA RestartsIs ==
  ASSUME DiskOK, NEW ok \in BOOLEAN, running' = (running \/ Restarts(up.site, ok))
  PROVE  running' = running \/ up.site \in {"aborted", "recovered"}
  BY DEF Restarts, DiskOK

LEMMA JournalIs ==
  ASSUME DiskOK'
  PROVE  /\ tmp'.state = "torn" => Journal'.state = "ambiguous"
         /\ main'.state = "none" /\ tmp'.state # "torn" => Journal'.state = tmp'.state
         /\ tmp'.state = "none" => Journal'.state = main'.state
         /\ (/\ tmp'.state \in State /\ main'.state # "none"
             /\ main'.id = tmp'.id /\ main'.rev < tmp'.rev) => Journal'.state = tmp'.state
<1>1. /\ main'.state \in State \cup {"none"} /\ tmp'.state \in State \cup {"none", "torn"}
      /\ main'.rev \in Nat /\ tmp'.rev \in Nat
  BY DEF DiskOK, Record
<1>2. main'.state # "torn"
  BY <1>1 DEF State
<1>3. CASE tmp'.state = "torn"
  <2>1. Journal' = Ambiguous
    BY <1>3 DEF Journal
  <2> QED  BY <1>3, <2>1 DEF Ambiguous, State
<1>4. CASE tmp'.state # "torn"
  BY <1>1, <1>2, <1>4 DEF Journal, State
<1> QED  BY <1>3, <1>4

(* What a run that writes the journal knows.                                *)
LEMMA InWrite ==
  ASSUME UpdaterInv, up.pc \in Writing
  PROVE  /\ up \in Process /\ up.k \in Target /\ up.site \in Write /\ up.j.state \in State
         /\ up.j.rev \in Nat
         /\ up.site = "backed_up" => up.j.state = "backed_up"
         /\ up.site = "swapped" => up.j.state = "swapping"
         /\ up.site = "verifying" => up.j.state = "verifying"
         /\ up.site = "rolling_back" => up.j.state = "rolling_back"
         /\ up.site = "manual" => up.j.state = "manual_recovery"
         /\ up.site \in Archive \cup {"prepared"} =>
              up.j.state \in {"prepared", "committed", "rolled_back"}
         /\ up.site \in {"swapped", "verifying", "rolling_back", "manual"} => Pending /\ Backups
         /\ At({"open", "sync"}, {"committed"}) => Pending /\ Backups
         /\ up.site = "backed_up" => Backups /\ ~running
         /\ up.site \in {"prepared", "backed_up", "undone", "aborted", "recovered", "terminal"}
              => AllGood
         /\ At({"remove", "rename", "archive"}, {"committed"}) => AllGood
         /\ At({"open", "sync"}, {"committed"}) => \A t \in Target : live[t] = up.to
         /\ Journal.state \in Active => Backups
         /\ up.site = "prepared" => Journal.state \notin Active
<1>1. up \in Process /\ up.k \in Target /\ up.j.state \in State \cup {"none"} /\ up.j.rev \in Nat
  BY Fields
<1>2. Stated /\ Evidence /\ Stopped
  BY DEF UpdaterInv, Kept, RunInv
<1>3. /\ up.site \in Write
      /\ up.site # "terminal" => up.j.state = StateOf[up.site]
      /\ up.site = "terminal" => up.j.state \in {"committed", "rolled_back"}
  BY <1>2 DEF Stated
<1>4. up.site # "terminal" => up.j.state \in State
  BY <1>3 DEF StateOf, Write, State
<1>5. up.j.state \in State
  BY <1>3, <1>4 DEF State
<1>6. /\ up.site = "backed_up" => up.j.state = "backed_up"
      /\ up.site = "swapped" => up.j.state = "swapping"
      /\ up.site = "verifying" => up.j.state = "verifying"
      /\ up.site = "rolling_back" => up.j.state = "rolling_back"
      /\ up.site = "manual" => up.j.state = "manual_recovery"
  BY <1>3 DEF StateOf, Write
<1>7. up.site \in Archive \cup {"prepared"} =>
        up.j.state \in {"prepared", "committed", "rolled_back"}
  BY <1>3 DEF StateOf, Write, Archive
<1>8. /\ up.site \in {"swapped", "verifying", "rolling_back", "manual"} => Pending /\ Backups
      /\ At({"open", "sync"}, {"committed"}) => Pending /\ Backups
      /\ up.site = "backed_up" => Backups /\ ~running
      /\ up.site \in {"prepared", "backed_up", "undone", "aborted", "recovered", "terminal"}
           => AllGood
      /\ At({"remove", "rename", "archive"}, {"committed"}) => AllGood
      /\ At({"open", "sync"}, {"committed"}) => \A t \in Target : live[t] = up.to
      /\ Journal.state \in Active => Backups
      /\ up.site = "prepared" => Journal.state \notin Active
  BY <1>2 DEF Evidence, Exposed, Settled, Replaced, Early, Stopped, Down, At
<1> QED  BY <1>1, <1>3, <1>5, <1>6, <1>7, <1>8

(* A step of a journal write touches no binary, and starts the set only     *)
(* when every binary is the version last committed.                         *)
WriteStep ==
  /\ UNCHANGED <<live, bak>>
  /\ running' = running \/ up.site \in {"aborted", "recovered"}
  /\ up.site # "committed" => good' = good
  /\ up.site \in {"swapped", "verifying", "rolling_back", "manual"} => Pending'
  /\ up.site = "prepared" => Journal'.state \notin Active
  /\ up.site = "committed" => AllGood' \/ (Pending' /\ Backups')

LEMMA WriteKeeps ==
  ASSUME UpdaterInv, up.pc \in Writing, WriteStep, DiskOK', Kept'
  PROVE  UpdaterInv'
<1>1. \/ AllGood'
      \/ Pending' /\ Backups'
  BY InWrite DEF WriteStep, Write, AllGood, Backups
<1>2. up.site \in {"aborted", "recovered"} => AllGood'
  BY InWrite DEF WriteStep, AllGood
<1>3. \/ ~running'
      \/ AllGood'
      \/ WholeSetRuns /\ running /\ UNCHANGED live
  BY <1>2 DEF WriteStep, Restarts, UpdaterInv
<1> QED  BY <1>1, <1>3, Whole, Shown DEF UpdaterInv

(* A write goes on to its next file operation.                              *)
LEMMA WriteGoesOn ==
  ASSUME UpdaterInv, up.pc \in Writing, WriteStep, DiskOK', NEW pc \in Writing \ {"open"},
         up' = Goto(up, pc), pc = "sync" => up.pc = "open",
         Linked', Covered, running' = running,
         up.site = "committed" =>
           IF pc = "sync" THEN Pending' /\ Backups' /\ good' = good ELSE AllGood'
  PROVE  UpdaterInv'
<1>1. /\ up' \in Process /\ up'.pc = pc /\ up'.site = up.site /\ up'.k = up.k
      /\ up'.j = up.j /\ up'.mode = up.mode /\ up'.to = up.to
  BY InWrite, GotoIs DEF Writing, Pcs, Carries
<1>3. Stated' /\ Sited' /\ Stopped' /\ Updating' /\ Swapped' /\ Restored'
  BY <1>1 DEF UpdaterInv, Kept, RunInv, WriteStep, Stated, Sited, Stopped, Updating, Swapped,
     Restored, Down, At, Writing, Swapping
<1>4. Evidence'
  BY <1>1, InWrite DEF WriteStep, UpdaterInv, Kept, RunInv, Covered, Evidence, Exposed, Settled,
     Replaced, Early, AllGood, Backups, At, Writing, Swapping
<1> QED  BY <1>1, <1>3, <1>4, WriteKeeps DEF Kept, RunInv

LEMMA StepOpenTmp ==
  ASSUME UpdaterInv, OpenTmp
  PROVE  UpdaterInv'
<1>1. /\ up.pc = "open" /\ up.pc \in Writing /\ up.site \in Write /\ Linked /\ Evidence
      /\ DiskOK
  BY InWrite DEF OpenTmp, Writing, UpdaterInv, Kept, RunInv
<1>2. DiskOK'
  <2>0. faults' \in 0..MaxFaults
    BY <1>1, Counted DEF OpenTmp
  <2>1. tmp' \in Record(State \cup {"none", "torn"}) /\ tmp'.rev \in Nat
    BY <1>1, Records DEF OpenTmp, DiskOK
  <2>2. running' \in BOOLEAN
    BY <1>1 DEF OpenTmp, DiskOK
  <2> QED  BY <1>1, <2>0, <2>1, <2>2 DEF OpenTmp, DiskOK
<1>3. UNCHANGED <<live, old, new, bak, main, lock, tries, good>>
  BY DEF OpenTmp
<1>4. CASE tmp' = TornRecord /\ up' = Goto(up, "sync") /\ running' = running
  <2>1. Journal'.state = "ambiguous"
    BY <1>2, <1>4, JournalIs DEF TornRecord
  <2>2. WriteStep
    BY <1>1, <1>3, <1>4, <2>1, InWrite DEF WriteStep, Pending, Active, Backups, At
  <2>3. Linked'
    BY <1>1, <1>3, <1>4, GotoIs, InWrite DEF Linked, Older, NotNewer, Resting, TornRecord, Pcs, State
  <2> QED  BY <1>1, <1>2, <1>3, <1>4, <2>1, <2>2, <2>3, InWrite, WriteGoesOn
           DEF Covered, Pending, Backups, At, Writing, Active
<1>5. CASE /\ up' = ThenWritten(up, FALSE)
           /\ running' = (running \/ Restarts(up.site, FALSE)) /\ UNCHANGED tmp
  <2>1. Journal' = Journal
    BY <1>3, <1>5 DEF Journal
  <2>2. WriteStep
    BY <1>1, <1>3, <1>5, <2>1, InWrite, RestartsIs DEF WriteStep, Pending, Backups, At
  <2>3. LinkedTo(up.j) /\ Covered
    BY <1>1, <1>3, <1>5, <2>1, InWrite DEF Linked, LinkedTo, Older, Covered, Backups, DiskOK, Record
  <2>4. Kept'
    BY <1>1, <1>2, <1>3, <1>5, <2>2, <2>3, WriteEnds DEF WriteStep
  <2> QED  BY <1>1, <1>2, <2>2, <2>4, WriteKeeps
<1> QED  BY <1>4, <1>5 DEF OpenTmp, Steps

LEMMA StepSyncTmp ==
  ASSUME UpdaterInv, SyncTmp
  PROVE  UpdaterInv'
<1>1. /\ up.pc = "sync" /\ up.pc \in Writing /\ up.site \in Write /\ Linked /\ Evidence
      /\ DiskOK /\ up \in Process /\ up.to \in 0..MaxVersion /\ up.j \in Record(State \cup {"none"})
      /\ tmp.state = "torn"
  BY InWrite, ProcessFields DEF SyncTmp, Writing, UpdaterInv, Kept, RunInv, Linked
<1>2. DiskOK'
  <2>0. faults' \in 0..MaxFaults
    BY <1>1, Counted DEF SyncTmp
  <2>1. tmp' \in Record(State \cup {"none", "torn"}) /\ tmp'.rev \in Nat
    BY <1>1, Records DEF SyncTmp, DiskOK
  <2>2. running' \in BOOLEAN /\ good' \in 0..MaxVersion
    BY <1>1 DEF SyncTmp, DiskOK
  <2> QED  BY <1>1, <2>0, <2>1, <2>2 DEF SyncTmp, DiskOK
<1>3. /\ UNCHANGED <<live, old, new, bak, main, lock, tries>>
      /\ good' = IF up.site = "committed" /\ tmp' = up.j THEN up.to ELSE good
  BY DEF SyncTmp
<1>4. main.state # "none" => main.id = up.j.id /\ main.rev < up.j.rev
  BY <1>1 DEF Linked, Older
<1>5. tmp' = up.j => Journal'.state = up.j.state
  BY <1>2, <1>3, <1>4, InWrite, <1>1, JournalIs DEF State
<1>6. tmp' = tmp => Journal'.state = "ambiguous"
  BY <1>1, <1>2, JournalIs
<1>7. up.j # tmp
  BY <1>1, InWrite DEF State
<1>8. ASSUME tmp' \in {tmp, up.j}, running' = running \/ up.site \in {"aborted", "recovered"}
      PROVE  /\ WriteStep /\ Covered
             /\ up.site = "committed" /\ tmp' = up.j => AllGood'
  <2>1. /\ up.site \in {"swapped", "verifying", "rolling_back", "manual"} => Pending'
        /\ up.site = "committed" /\ tmp' # up.j => Pending' /\ Backups'
        /\ up.site = "committed" /\ tmp' = up.j => AllGood'
        /\ up.site = "prepared" => Journal'.state \notin Active
    BY <1>1, <1>3, <1>5, <1>6, <1>8, InWrite
    DEF Pending, Backups, AllGood, Active, At
  <2>2. Covered
    BY <1>1, <1>3, <1>5, <1>6, <1>7, <1>8, InWrite DEF Covered, Backups, Active, Write, Archive
  <2> QED  BY <1>3, <1>8, <2>1, <2>2 DEF WriteStep
<1>9. LinkedTo(up.j) \/ ~(tmp' \in {tmp, up.j})
  BY <1>1, <1>3, <1>4, InWrite DEF LinkedTo, DiskOK, Record, State
<1>10. CASE tmp' = up.j /\ up' = Goto(up, "remove") /\ running' = running
  <2>1. Linked'
    BY <1>1, <1>3, <1>4, <1>10, GotoIs, InWrite
    DEF Linked, Older, NotNewer, Resting, Pcs, State, DiskOK, Record
  <2> QED  BY <1>1, <1>2, <1>8, <1>10, <2>1, WriteGoesOn DEF Writing
<1>11. CASE /\ tmp' \in {tmp, up.j} /\ up' = ThenWritten(up, FALSE)
            /\ running' = (running \/ Restarts(up.site, FALSE))
  <2>1. WriteStep /\ Covered
    BY <1>1, <1>8, <1>11, RestartsIs
  <2>2. Kept'
    BY <1>1, <1>2, <1>3, <1>9, <1>11, <2>1, WriteEnds DEF WriteStep
  <2> QED  BY <1>1, <1>2, <2>1, <2>2, WriteKeeps
<1> QED  BY <1>10, <1>11 DEF SyncTmp, Steps

(* Once the record is on disk, the journal says what the run says.          *)
LEMMA WriteIsOut ==
  ASSUME UpdaterInv, up.pc \in {"remove", "rename", "archive"}, UNCHANGED <<live, bak, good>>,
         running' = running \/ up.site \in {"aborted", "recovered"},
         \/ Journal'.state = up.j.state
         \/ (Journal'.state = "none" /\ up.site \in Archive)
  PROVE  WriteStep /\ Covered /\ (up.site = "committed" => AllGood')
<1>1. up.pc \in Writing
  BY DEF Writing
<1>2. /\ up.site \in {"swapped", "verifying", "rolling_back", "manual"} => Pending'
      /\ up.site = "committed" => AllGood'
      /\ up.site = "prepared" => Journal'.state \notin Active
  BY <1>1, InWrite DEF Pending, AllGood, Active, Archive, At
<1>3. Covered
  BY <1>1, InWrite DEF Covered, Backups, Active, Write, Archive
<1> QED  BY <1>2, <1>3 DEF WriteStep

LEMMA StepRemoveMain ==
  ASSUME UpdaterInv, RemoveMain
  PROVE  UpdaterInv'
<1>1. /\ up.pc = "remove" /\ up.pc \in Writing /\ Linked /\ DiskOK /\ tmp = up.j
      /\ up \in Process /\ up.j.state \in State
  BY InWrite DEF RemoveMain, Writing, UpdaterInv, Kept, RunInv, Linked
<1>2. DiskOK' /\ main' = NoRecord /\ tmp' = tmp
  BY <1>1, Records DEF RemoveMain, DiskOK, history
<1>3. Journal'.state = up.j.state
  BY <1>1, <1>2, Records, JournalIs DEF State
<1>4. WriteStep /\ Covered /\ (up.site = "committed" => AllGood')
  BY <1>1, <1>3, WriteIsOut DEF RemoveMain, history
<1>5. Linked'
  BY <1>1, <1>2, Records, GotoIs, InWrite
  DEF RemoveMain, Steps, Linked, NotNewer, Resting, Pcs
<1> QED  BY <1>1, <1>2, <1>4, <1>5, WriteGoesOn DEF RemoveMain, Steps, Writing

LEMMA StepRenameTmp ==
  ASSUME UpdaterInv, RenameTmp
  PROVE  UpdaterInv'
<1>1. /\ up.pc = "rename" /\ up.pc \in Writing /\ Linked /\ DiskOK /\ tmp = up.j
      /\ main.state = "none" /\ up \in Process /\ up.j.state \in State /\ up.j.rev \in Nat
      /\ up.site \in Write /\ up.j \in Record(State \cup {"none"})
  BY InWrite, ProcessFields DEF RenameTmp, Writing, UpdaterInv, Kept, RunInv, Linked
<1>2. UNCHANGED <<live, old, new, bak, lock, tries, good>>
  BY DEF RenameTmp
<1>3. DiskOK'
  <2>0. faults' \in 0..MaxFaults
    BY <1>1, Counted DEF RenameTmp
  <2>1. /\ main' \in Record(State \cup {"none"}) /\ main'.rev \in Nat
        /\ tmp' \in Record(State \cup {"none", "torn"}) /\ tmp'.rev \in Nat
    BY <1>1, Records DEF RenameTmp, DiskOK
  <2>2. running' \in BOOLEAN
    BY <1>1 DEF RenameTmp, DiskOK
  <2> QED  BY <1>1, <1>2, <2>0, <2>1, <2>2 DEF DiskOK
<1>4. CASE /\ main' = tmp /\ tmp' = NoRecord /\ running' = running
           /\ up' = IF up.site \in Archive THEN Goto(up, "archive") ELSE ThenWritten(up, TRUE)
  <2>1. Journal'.state = up.j.state
    BY <1>1, <1>3, <1>4, Records, JournalIs
  <2>2. WriteStep /\ Covered /\ (up.site = "committed" => AllGood')
    BY <1>1, <1>2, <1>4, <2>1, WriteIsOut
  <2>3. CASE up.site \in Archive /\ up' = Goto(up, "archive")
    <3>1. Linked'
      BY <1>1, <1>4, <2>3, Records, GotoIs DEF Linked, NotNewer, Resting, Pcs, State
    <3> QED  BY <1>1, <1>3, <1>4, <2>2, <2>3, <3>1, WriteGoesOn DEF Writing
  <2>4. CASE up.site \notin Archive /\ up' = ThenWritten(up, TRUE)
    <3>1. ~Restarts(up.site, TRUE)
      BY <2>4 DEF Restarts, Archive
    <3>2. running' = (running \/ Restarts(up.site, TRUE))
      BY <1>1, <1>4, <3>1 DEF DiskOK
    <3>3. LinkedTo(up.j)
      BY <1>1, <1>4, Records DEF LinkedTo, State
    <3>4. up.site = "backed_up" => Pending'
      BY <1>1, <2>1, InWrite DEF Pending, Active
    <3>5. Kept'
      BY <1>1, <1>2, <1>3, <2>2, <2>4, <3>2, <3>3, <3>4, WriteEnds DEF WriteStep, Archive
    <3> QED  BY <1>1, <1>3, <2>2, <3>5, WriteKeeps
  <2> QED  BY <1>4, <2>3, <2>4
<1>5. CASE /\ up' = ThenWritten(up, FALSE) /\ UNCHANGED <<main, tmp>>
           /\ running' = (running \/ Restarts(up.site, FALSE))
  <2>1. Journal'.state = up.j.state
    BY <1>1, <1>3, <1>5, JournalIs DEF State
  <2>2. WriteStep /\ Covered
    BY <1>1, <1>2, <1>5, <2>1, WriteIsOut, RestartsIs
  <2>3. LinkedTo(up.j)
    BY <1>1, <1>5 DEF LinkedTo
  <2>4. Kept'
    BY <1>1, <1>2, <1>3, <1>5, <2>2, <2>3, WriteEnds DEF WriteStep
  <2> QED  BY <1>1, <1>3, <2>2, <2>4, WriteKeeps
<1>6. \/ /\ main' = tmp /\ tmp' = NoRecord /\ running' = running
         /\ up' = IF up.site \in Archive THEN Goto(up, "archive") ELSE ThenWritten(up, TRUE)
      \/ /\ up' = ThenWritten(up, FALSE) /\ UNCHANGED <<main, tmp>>
         /\ running' = (running \/ Restarts(up.site, FALSE))
  BY DEF RenameTmp, Steps
<1> QED  BY <1>4, <1>5, <1>6

LEMMA StepArchiveJournal ==
  ASSUME UpdaterInv, ArchiveJournal
  PROVE  UpdaterInv'
<1>1. /\ up.pc = "archive" /\ up.pc \in Writing /\ Linked /\ DiskOK /\ main = up.j
      /\ tmp.state = "none" /\ up \in Process /\ up.j.state \in State /\ up.j.rev \in Nat
      /\ up.site \in Write /\ up.site \in Archive
  BY InWrite DEF ArchiveJournal, Writing, UpdaterInv, Kept, RunInv, Linked
<1>2. UNCHANGED <<live, old, new, bak, tmp, lock, tries, good>>
  BY DEF ArchiveJournal
<1>3. DiskOK'
  <2>0. faults' \in 0..MaxFaults
    BY <1>1, Counted DEF ArchiveJournal
  <2>1. main' \in Record(State \cup {"none"}) /\ main'.rev \in Nat
    BY <1>1, Records DEF ArchiveJournal, DiskOK
  <2>2. running' \in BOOLEAN
    BY <1>1 DEF ArchiveJournal, DiskOK
  <2> QED  BY <1>1, <1>2, <2>0, <2>1, <2>2 DEF DiskOK
<1>4. \E ok \in BOOLEAN :
        /\ up' = ThenWritten(up, ok) /\ running' = (running \/ Restarts(up.site, ok))
        /\ main' = IF ok THEN NoRecord ELSE main
  BY DEF ArchiveJournal, Steps
<1>5. Journal'.state = "none" \/ Journal'.state = up.j.state
  BY <1>1, <1>2, <1>3, <1>4, Records, JournalIs
<1>6. WriteStep /\ Covered
  BY <1>1, <1>2, <1>4, <1>5, WriteIsOut, RestartsIs
<1>7. LinkedTo(up.j)
  BY <1>1, <1>2, <1>4, Records DEF LinkedTo, State
<1>8. Kept'
  <2>1. PICK ok \in BOOLEAN :
          /\ up' = ThenWritten(up, ok) /\ running' = (running \/ Restarts(up.site, ok))
          /\ main' = IF ok THEN NoRecord ELSE main
    BY <1>4
  <2>2. ok => main'.state = "none" /\ tmp'.state = "none"
    BY <1>1, <1>2, <2>1, Records
  <2> QED  BY <1>1, <1>2, <1>3, <1>6, <1>7, <2>1, <2>2, WriteEnds DEF WriteStep, Archive
<1> QED  BY <1>1, <1>3, <1>6, <1>8, WriteKeeps

(* ----------------- the beginning and the end of a run ------------------- *)
(* What is decided from is the newer of the two files, and both are of the  *)
(* same transaction.                                                        *)
LEMMA JournalRead ==
  ASSUME DiskOK, Journal # Ambiguous
  PROVE  /\ Journal \in Record(State \cup {"none"})
         /\ Journal.state = "none" => main.state = "none" /\ tmp.state = "none"
         /\ main.state # "none" => main.id = Journal.id /\ main.rev <= Journal.rev
         /\ tmp.state \in State => tmp.id = Journal.id /\ tmp.rev <= Journal.rev
<1>1. /\ main.state \in State \cup {"none"} /\ tmp.state \in State \cup {"none", "torn"}
      /\ main.rev \in Nat /\ tmp.rev \in Nat
      /\ main \in Record(State \cup {"none"})
      /\ tmp.state # "torn" => tmp \in Record(State \cup {"none"})
  BY DEF DiskOK, Record
<1>2. main.state # "torn" /\ tmp.state # "torn" /\ "none" \notin State
  BY <1>1 DEF Journal, State
<1> QED  BY <1>1, <1>2 DEF Journal

LEMMA StepReadJournal ==
  ASSUME UpdaterInv, ReadJournal
  PROVE  UpdaterInv'
<1> DEFINE r == IF Journal = Ambiguous THEN NoRecord ELSE Journal
           u == [up EXCEPT !.j = r]
<1>1. /\ up.pc = "read" /\ up \in Process /\ DiskOK /\ Updating /\ Evidence /\ EvidenceKept
      /\ WholeSetRuns
  BY Fields DEF ReadJournal, UpdaterInv, Kept, RunInv
<1>2. r \in Record(State \cup {"none"})
  BY <1>1, Records, JournalRead
<1>3. u \in Process /\ u.j = r /\ u.mode = up.mode /\ u.site = up.site
  BY <1>1, <1>2 DEF Process
<1>4. u.mode # "update" => u.site \in {"none", "terminal", "manual", "recovered", "recover"}
  BY <1>1, <1>3 DEF Updating
<1>5. UNCHANGED <<live, old, new, bak, main, tmp, lock, tries, faults, good>>
      /\ running' = (running /\ ~NeedsStop(Journal.state))
  BY DEF ReadJournal, disk, history
<1>6. DiskOK'
  BY <1>1, <1>5 DEF DiskOK
<1>7. WholeSetRuns' /\ EvidenceKept' /\ Covered /\ Journal' = Journal
  BY <1>1, <1>5 DEF WholeSetRuns, EvidenceKept, Covered, Backups, Journal, Evidence
<1>8. Journal.state \notin Active \cup {"ambiguous"} => AllGood'
  BY <1>1, <1>5 DEF EvidenceKept, AllGood
<1>9. \/ Journal = Ambiguous /\ up' = Goto(u, "failed")
      \/ Journal # Ambiguous /\ Journal.state = "none" /\ up' = Goto(u, "targets")
      \/ Journal # Ambiguous /\ NeedsStop(Journal.state) /\ up' = Goto(u, "check")
      \/ /\ Journal # Ambiguous /\ Journal.state # "none" /\ ~NeedsStop(Journal.state)
         /\ up' = ThenWrite(u, "terminal",
                    IF Journal.state = "committed" THEN "committed" ELSE "rolled_back")
  BY DEF ReadJournal, Steps, Ambiguous, NeedsStop
<1> HIDE DEF u
<1>10. CASE Journal = Ambiguous /\ up' = Goto(u, "failed")
  <2>1. Kept'
    BY <1>3, <1>4, <1>7, <1>10, RestBegins
  <2> QED  BY <1>6, <1>7, <2>1 DEF UpdaterInv
<1>11. CASE Journal # Ambiguous /\ Journal.state = "none" /\ up' = Goto(u, "targets")
  <2>1. up' \in Process /\ up'.pc = "targets" /\ up'.mode = u.mode /\ up'.site = u.site
    BY <1>3, <1>11, GotoIs DEF Pcs, Carries
  <2>2. Linked'
    BY <1>1, <1>5, <1>11, <2>1, JournalRead DEF Linked, Resting
  <2>3. Stated' /\ Sited' /\ Stopped' /\ Updating' /\ Swapped' /\ Restored'
    BY <1>4, <2>1 DEF Stated, Sited, Stopped, Updating, Swapped, Restored, Down, At, Writing,
       Swapping
  <2>4. AllGood'
    BY <1>8, <1>11 DEF Active
  <2>5. Evidence'
    BY <1>7, <2>1, <2>4 DEF Evidence, Covered, Exposed, Settled, Replaced, Early, At, Writing,
       Swapping
  <2> QED  BY <1>6, <1>7, <2>1, <2>2, <2>3, <2>5 DEF UpdaterInv, Kept, RunInv
<1>12. CASE Journal # Ambiguous /\ NeedsStop(Journal.state) /\ up' = Goto(u, "check")
  <2>1. /\ up' \in Process /\ up'.pc = "check" /\ up'.mode = u.mode /\ up'.site = u.site
        /\ up'.j = Journal
    BY <1>3, <1>12, GotoIs DEF Pcs, Carries
  <2>2. Linked'
    BY <1>1, <1>5, <1>12, <2>1, JournalRead DEF Linked, NotNewer
  <2>3. Journal.state \in Active /\ ~running'
    BY <1>2, <1>5, <1>12 DEF NeedsStop, Active, State, Record
  <2>4. Stated' /\ Sited' /\ Stopped' /\ Updating' /\ Swapped' /\ Restored'
    BY <1>4, <2>1, <2>3 DEF Stated, Sited, Stopped, Updating, Swapped, Restored, Down, At,
       Writing, Swapping
  <2>5. Evidence'
    BY <1>7, <2>1, <2>3 DEF Evidence, Covered, Pending, Exposed, Settled, Replaced, Early, At,
       Writing, Swapping
  <2> QED  BY <1>6, <1>7, <2>1, <2>2, <2>4, <2>5 DEF UpdaterInv, Kept, RunInv
<1>13. CASE /\ Journal # Ambiguous /\ Journal.state # "none" /\ ~NeedsStop(Journal.state)
            /\ up' = ThenWrite(u, "terminal",
                       IF Journal.state = "committed" THEN "committed" ELSE "rolled_back")
  <2> DEFINE state == IF Journal.state = "committed" THEN "committed" ELSE "rolled_back"
  <2>1. "terminal" \in Write /\ state \in {"committed", "rolled_back"} /\ state \in State
    BY DEF Write, State
  <2>2. AllGood'
    BY <1>8, <1>13 DEF NeedsStop, Active
  <2>3. LinkedTo(u.j)
    BY <1>1, <1>3, <1>5, <1>13, JournalRead DEF LinkedTo
  <2>4. up' = ThenWrite(u, "terminal", state)
    BY <1>13
  <2> HIDE DEF state
  <2>5. Kept'
    BY <1>3, <1>6, <1>7, <2>1, <2>2, <2>3, <2>4, WriteBegins
  <2> QED  BY <1>6, <1>7, <2>5 DEF UpdaterInv
<1> QED  BY <1>9, <1>10, <1>11, <1>12, <1>13

LEMMA StepCheckTargets ==
  ASSUME UpdaterInv, CheckTargets
  PROVE  UpdaterInv'
<1>1. /\ up.pc = "targets" /\ up \in Process /\ DiskOK /\ RunInv /\ AllGood
      /\ main.state = "none" /\ tmp.state = "none" /\ good \in 0..MaxVersion
  BY Fields DEF CheckTargets, UpdaterInv, Kept, RunInv, Linked, Evidence, Settled, DiskOK
<1>2. \A t \in Target : live[t] # Absent
  BY <1>1, UpdaterAssumption DEF AllGood, Absent
<1>3. /\ UNCHANGED <<live, old, new, bak, main, tmp, lock, running, tries, faults, good>>
      /\ up' = Goto(up, IF up.mode = "update" THEN "begin" ELSE "done")
  BY <1>1, <1>2 DEF CheckTargets, Steps, DiskOK, history
<1>4. DiskOK' /\ WholeSetRuns' /\ EvidenceKept' /\ AllGood' /\ Covered
  BY <1>1, <1>3 DEF UpdaterInv, DiskOK, WholeSetRuns, EvidenceKept, AllGood, Covered, Journal,
     Backups, RunInv, Evidence
<1>5. CASE up.mode = "update"
  <2>1. up' \in Process /\ up'.pc = "begin" /\ up'.mode = "update"
    BY <1>1, <1>3, <1>5, GotoIs DEF Pcs, Carries
  <2>2. Linked'
    BY <1>1, <1>3, <2>1 DEF Linked, Resting
  <2>3. Stated' /\ Sited' /\ Stopped' /\ Updating' /\ Swapped' /\ Restored'
    BY <2>1 DEF Stated, Sited, Stopped, Updating, Swapped, Restored, Down, At, Writing, Swapping
  <2>4. Evidence'
    BY <1>4, <2>1 DEF Evidence, Covered, Exposed, Settled, Replaced, Early, At, Writing, Swapping
  <2> QED  BY <1>4, <2>1, <2>2, <2>3, <2>4 DEF UpdaterInv, Kept, RunInv
<1>6. CASE up.mode # "update"
  <2>1. up' \in Process /\ up'.pc = "done" /\ up'.mode = up.mode /\ up'.site = up.site
    BY <1>1, <1>3, <1>6, GotoIs DEF Pcs, Carries
  <2>2. Linked'
    BY <1>1, <1>3, <2>1 DEF Linked, Resting
  <2>3. Stated' /\ Sited' /\ Stopped' /\ Updating' /\ Swapped' /\ Restored'
    BY <1>1, <2>1 DEF RunInv, Stated, Sited, Stopped, Updating, Swapped, Restored, Down, At,
       Writing, Swapping
  <2>4. Evidence'
    BY <1>4, <2>1 DEF Evidence, Covered, Exposed, Settled, Replaced, Early, At, Writing, Swapping
  <2> QED  BY <1>4, <2>1, <2>2, <2>3, <2>4 DEF UpdaterInv, Kept, RunInv
<1> QED  BY <1>5, <1>6

LEMMA StepBegin ==
  ASSUME UpdaterInv, Begin
  PROVE  UpdaterInv'
<1>1. /\ up.pc = "begin" /\ up \in Process /\ DiskOK /\ Updating /\ AllGood /\ WholeSetRuns
      /\ main.state = "none" /\ tmp.state = "none" /\ up.mode = "update"
  BY Fields DEF Begin, UpdaterInv, Kept, RunInv, Linked, Evidence, Settled, Updating
<1>2. /\ UNCHANGED <<live, old, new, main, tmp, lock, running, faults, good>>
  BY DEF Begin
<1>3. DiskOK'
  <2>1. bak' \in [Target -> File]
    BY <1>1 DEF Begin, DiskOK, File
  <2>2. tries' = tries \/ (tries < MaxTries /\ tries' = tries + 1)
    BY DEF Begin
  <2>3. tries' \in 0..MaxTries
    BY <1>1, <2>2, UpdaterAssumption DEF DiskOK
  <2> QED  BY <1>1, <1>2, <2>1, <2>3 DEF DiskOK
<1>4. AllGood' /\ Journal'.state = "none"
  BY <1>1, <1>2 DEF AllGood, Journal
<1>5. Covered
  BY <1>4 DEF Covered, Active
<1>6. WholeSetRuns' /\ EvidenceKept'
  BY <1>3, <1>4, Whole, Shown
<1>7. CASE \E pc \in {"failed", "done"} : up' = Goto(up, pc)
  <2>1. Kept'
    BY <1>1, <1>5, <1>7, RestBegins
  <2> QED  BY <1>3, <1>6, <2>1 DEF UpdaterInv
<1>8. ASSUME tries < MaxTries, NEW to \in (live[1] + 1)..MaxVersion,
             up' = ThenWrite([up EXCEPT !.from = live[1], !.to = to,
                                        !.j = [NoRecord EXCEPT !.id = tries + 1]],
                             "prepared", "prepared")
      PROVE  UpdaterInv'
  <2> DEFINE r == [NoRecord EXCEPT !.id = tries + 1]
             v == [up EXCEPT !.from = live[1], !.to = to, !.j = r]
  <2>1. r \in Record(State \cup {"none"})
    BY <1>1 DEF NoRecord, Record, DiskOK
  <2>2. live[1] \in 0..MaxVersion /\ to \in 0..MaxVersion
    BY <1>1, <1>8, UpdaterAssumption DEF AllGood, DiskOK, Target
  <2> HIDE DEF r
  <2>3. v \in Process /\ v.mode = "update"
    BY <1>1, <2>1, <2>2 DEF Process
  <2>4. up' = ThenWrite(v, "prepared", "prepared")
    BY <1>8 DEF r
  <2> HIDE DEF v
  <2>5. "prepared" \in Write /\ "prepared" \in State /\ StateOf["prepared"] = "prepared"
    BY DEF Write, State, StateOf
  <2>6. LinkedTo(v.j) /\ Journal'.state \notin Active
    BY <1>1, <1>2, <1>4 DEF LinkedTo, State, Active
  <2>7. Kept'
    BY <1>3, <1>4, <1>5, <2>3, <2>4, <2>5, <2>6, WriteBegins
  <2> QED  BY <1>3, <1>6, <2>7 DEF UpdaterInv
<1> QED  BY <1>7, <1>8 DEF Begin, Steps

(* Nobody runs: the process fields are those of Idle, but for the mode.     *)
LEMMA Rests ==
  ASSUME NEW mode \in {"update", "recover", "boot"},
         up' = Idle \/ up' = [Idle EXCEPT !.pc = "read", !.mode = mode], Covered
  PROVE  Kept'
<1>1. Idle \in Process
  BY Records, UpdaterAssumption DEF Idle, Process, Target
<1>2. Idle.pc = "off" /\ Idle.site = "none"
  BY DEF Idle
<1> DEFINE v == [Idle EXCEPT !.pc = "read"]
<1>3. v \in Process /\ v.pc = "read" /\ v.site = "none"
  BY <1>1, <1>2 DEF Process
<1>4. up' = Idle \/ up' = [v EXCEPT !.mode = mode]
  BY DEF Idle
<1> HIDE DEF v
<1>5. up' \in Process /\ up'.pc \in {"off", "read"} /\ up'.site = "none"
  BY <1>1, <1>2, <1>3, <1>4 DEF Process
<1>6. Linked' /\ Stated' /\ Sited' /\ Stopped' /\ Updating' /\ Swapped' /\ Restored'
  BY <1>5 DEF Linked, Resting, Stated, Sited, Stopped, Updating, Swapped, Restored, Down, At,
     Writing, Swapping
<1>7. Evidence'
  BY <1>5 DEF Evidence, Covered, Exposed, Settled, Replaced, Early, At, Writing, Swapping
<1> QED  BY <1>5, <1>6, <1>7 DEF Kept, RunInv

LEMMA SameEvidence ==
  ASSUME UpdaterInv, UNCHANGED <<live, bak, main, tmp, good>>
  PROVE  EvidenceKept' /\ Covered /\ Journal' = Journal
  BY DEF UpdaterInv, EvidenceKept, Covered, Backups, Journal, Kept, RunInv, Evidence

LEMMA StepExit ==
  ASSUME UpdaterInv, Exit
  PROVE  UpdaterInv'
<1>1. UNCHANGED <<live, old, new, bak, main, tmp, tries, faults, good>> /\ DiskOK
  BY DEF Exit, history, UpdaterInv
<1>2. DiskOK'
  BY <1>1 DEF Exit, DiskOK
<1>3. EvidenceKept' /\ Covered
  BY <1>1, SameEvidence
<1>4. Kept'
  BY <1>3, Rests DEF Exit
<1>5. up.mode = "boot" /\ up.pc = "done" => AllGood'
  BY <1>1 DEF UpdaterInv, Kept, RunInv, Evidence, Settled, AllGood
<1>6. \/ ~running'
      \/ AllGood'
      \/ WholeSetRuns /\ running /\ UNCHANGED live
  BY <1>1, <1>5 DEF Exit, UpdaterInv
<1> QED  BY <1>2, <1>3, <1>4, <1>6, Whole DEF UpdaterInv

LEMMA StepCrash ==
  ASSUME UpdaterInv, NEW power \in BOOLEAN, Crash(power)
  PROVE  UpdaterInv'
<1>1. UNCHANGED <<live, old, new, bak, main, tmp, lock, tries, good>> /\ DiskOK
  BY DEF Crash, disk, UpdaterInv
<1>2. faults' \in 0..MaxFaults
  BY <1>1, UpdaterAssumption DEF Crash, DiskOK
<1>3. DiskOK'
  BY <1>1, <1>2 DEF Crash, DiskOK
<1>4. EvidenceKept' /\ Covered
  BY <1>1, SameEvidence
<1>5. Kept'
  BY <1>4, Rests DEF Crash
<1>6. \/ ~running'
      \/ WholeSetRuns /\ running /\ UNCHANGED live
  BY <1>1 DEF Crash, UpdaterInv
<1> QED  BY <1>3, <1>4, <1>5, <1>6, Whole DEF UpdaterInv

LEMMA StepLaunch ==
  ASSUME UpdaterInv, NEW mode \in {"update", "recover", "boot"}, Launch(mode)
  PROVE  UpdaterInv'
<1>1. /\ UNCHANGED <<live, old, new, bak, main, tmp, running, tries, faults, good>> /\ DiskOK
      /\ lock' = TRUE /\ up' = [Idle EXCEPT !.pc = "read", !.mode = mode]
  BY DEF Launch, history, UpdaterInv
<1>2. DiskOK' /\ WholeSetRuns'
  BY <1>1 DEF DiskOK, UpdaterInv, WholeSetRuns
<1>3. EvidenceKept' /\ Covered
  BY <1>1, SameEvidence
<1>4. Kept'
  BY <1>1, <1>3, Rests
<1> QED  BY <1>2, <1>3, <1>4 DEF UpdaterInv

LEMMA StepDeleteLock ==
  ASSUME UpdaterInv, DeleteLock
  PROVE  UpdaterInv'
<1>1. UNCHANGED <<live, old, new, bak, main, tmp, running, up, tries, faults, good>>
      /\ lock' = FALSE
  BY DEF DeleteLock, history
<1>2. DiskOK' /\ WholeSetRuns' /\ EvidenceKept'
  BY <1>1, SameEvidence DEF DiskOK, UpdaterInv, WholeSetRuns
<1>3. Kept'
  BY <1>1 DEF UpdaterInv, Kept, RunInv, Linked, Older, NotNewer, Stated, Sited, Evidence, Stopped,
     Updating, Swapped, Restored, Exposed, Settled, Replaced, Early, Down, At, AllGood, Backups,
     Pending, Journal, Source
<1> QED  BY <1>2, <1>3 DEF UpdaterInv

LEMMA Stutter ==
  ASSUME UpdaterInv, UNCHANGED vars
  PROVE  UpdaterInv'
  BY DEF vars, disk, history, UpdaterInv, DiskOK, WholeSetRuns, EvidenceKept, Kept, RunInv, Linked,
     Older, NotNewer, Stated, Sited, Evidence, Stopped, Updating, Swapped, Restored, Exposed,
     Settled, Replaced, Early, Down, At, AllGood, Backups, Pending, Journal, Source

(* ------------------------------ the update ------------------------------ *)
LEMMA StepStopSet ==
  ASSUME UpdaterInv, StopSet
  PROVE  UpdaterInv'
<1>1. /\ up \in Process /\ DiskOK /\ RunInv /\ up.pc \in {"stop", "stop_undo"}
      /\ UNCHANGED <<live, old, new, bak, main, tmp, lock, tries, faults, good>> /\ ~running'
      /\ running' = FALSE /\ up.mode = "update" /\ N \in Nat \ {0} /\ 1 \in Target
  BY Fields DEF StopSet, disk, history, UpdaterInv, Kept, RunInv, Updating
<1>2. DiskOK' /\ EvidenceKept' /\ Covered /\ Journal' = Journal
  BY <1>1, SameEvidence DEF DiskOK
<1>3. WholeSetRuns'
  BY <1>1 DEF WholeSetRuns
<1>4. LinkedTo(up.j)
  BY <1>1 DEF RunInv, Linked, LinkedTo, NotNewer, Resting
<1>5. CASE up.pc = "stop"
  <2>1. up' = [up EXCEPT !.pc = "backup", !.k = 1]
    BY <1>5 DEF StopSet, Steps
  <2>2. /\ up' \in Process /\ up'.pc = "backup" /\ up'.k = 1 /\ up'.mode = up.mode /\ up'.j = up.j
    BY <1>1, <2>1 DEF Process
  <2>3. Linked'
    BY <1>4, <2>2 DEF LinkedTo, Linked, NotNewer
  <2>4. Stated' /\ Sited' /\ Stopped' /\ Updating' /\ Swapped' /\ Restored'
    BY <1>1, <2>2 DEF Stated, Sited, Stopped, Updating, Swapped, Restored, Down, At, Writing,
       Swapping
  <2>5. AllGood' /\ Journal'.state \notin Active /\ \A t \in Target : ~(t < 1)
    BY <1>1, <1>2, <1>5 DEF RunInv, Evidence, Settled, Early, AllGood, Target
  <2>6. Evidence'
    BY <1>2, <2>2, <2>5 DEF Evidence, Covered, Exposed, Settled, Replaced, Early, At, Writing,
       Swapping
  <2> QED  BY <1>2, <1>3, <2>2, <2>3, <2>4, <2>6 DEF UpdaterInv, Kept, RunInv
<1>6. CASE up.pc = "stop_undo"
  <2>1. up' = ThenRestore(up, "undo", N, FALSE)
    BY <1>6 DEF StopSet, Steps
  <2>2. Pending' /\ Backups'
    BY <1>1, <1>2, <1>6 DEF RunInv, Evidence, Exposed, Pending, Backups
  <2>3. /\ \A t \in Target : ~(t > N)
        /\ N \in 0..N /\ FALSE \in BOOLEAN /\ "undo" \in {"abort", "undo"}
    BY <1>1 DEF Target
  <2>4. Kept'
    BY <1>1, <1>2, <1>4, <2>1, <2>2, <2>3, RestoreBegins
  <2> QED  BY <1>2, <1>3, <2>4 DEF UpdaterInv
<1> QED  BY <1>1, <1>5, <1>6

(* What backupAndSwap knows while it copies.                                *)
LEMMA InBackup ==
  ASSUME UpdaterInv, up.pc \in {"backup", "backup_sync"}
  PROVE  /\ up \in Process /\ up.k \in Target /\ N \in Nat /\ DiskOK /\ RunInv
         /\ AllGood /\ Journal.state \notin Active /\ ~running /\ up.mode = "update"
         /\ \A t \in Target : t < up.k => bak[t] = good
         /\ main.state # "none" => NotNewer(main)
         /\ tmp.state \in State => NotNewer(tmp)
         /\ Torn \in File
  BY Fields DEF UpdaterInv, Kept, RunInv, Evidence, Settled, Early, Stopped, Down, Updating, Linked,
     Resting, File

LEMMA BackupFails ==
  ASSUME UpdaterInv, up.pc \in {"backup", "backup_sync"}, DiskOK',
         UNCHANGED <<live, bak, main, tmp, good, running>>,
         up' = ThenRestore(up, "abort", 0, FALSE)
  PROVE  UpdaterInv'
<1>1. /\ up \in Process /\ N \in Nat /\ AllGood' /\ ~running' /\ up.mode = "update"
  BY InBackup DEF AllGood
<1>2. Covered /\ LinkedTo(up.j)
  BY InBackup DEF Covered, Journal, LinkedTo, NotNewer
<1>3. /\ \A t \in Target : live'[t] = good'
      /\ 0 \in 0..N /\ FALSE \in BOOLEAN /\ "abort" \in {"abort", "undo"}
      /\ ~(0 > 0 \/ FALSE \/ "abort" = "undo")
  BY <1>1 DEF AllGood
<1>4. Kept'
  BY <1>1, <1>2, <1>3, RestoreBegins
<1> QED  BY <1>1, <1>4, Whole, Shown DEF UpdaterInv

LEMMA StepBackup ==
  ASSUME UpdaterInv, Backup
  PROVE  UpdaterInv'
<1>1. up.pc = "backup" /\ UNCHANGED <<live, old, new, main, tmp, lock, running, tries, good>>
  BY DEF Backup
<1>2. DiskOK'
  <2>1. faults' \in 0..MaxFaults /\ bak' \in [Target -> File]
    BY <1>1, InBackup, Counted DEF Backup, DiskOK
  <2> QED  BY <1>1, <2>1, InBackup DEF DiskOK
<1>3. CASE bak' = [bak EXCEPT ![up.k] = Torn] /\ up' = Goto(up, "backup_sync")
  <2>0. "backup_sync" \in Pcs
    BY DEF Pcs
  <2>1. /\ up' \in Process /\ up'.pc = "backup_sync" /\ up'.k = up.k /\ up'.mode = up.mode
        /\ up'.j = up.j
    BY <1>1, <1>3, <2>0, InBackup, GotoIs DEF Carries
  <2>2. Linked'
    BY <1>1, <2>1, InBackup DEF Linked, NotNewer
  <2>3. Stated' /\ Sited' /\ Stopped' /\ Updating' /\ Swapped' /\ Restored'
    BY <1>1, <2>1, InBackup DEF Stated, Sited, Stopped, Updating, Swapped, Restored, Down, At,
       Writing, Swapping
  <2>4. \A t \in Target : t < up.k => bak'[t] = good'
    BY <1>1, <1>3, InBackup DEF Target, DiskOK
  <2>5. AllGood' /\ Journal' = Journal
    BY <1>1, InBackup DEF AllGood, Journal
  <2>6. Evidence'
    BY <1>1, <2>1, <2>4, <2>5, InBackup DEF Evidence, Exposed, Settled, Replaced, Early, At,
       Writing, Swapping
  <2> QED  BY <1>1, <1>2, <2>1, <2>2, <2>3, <2>5, <2>6, InBackup, Whole, Shown
           DEF UpdaterInv, Kept, RunInv
<1>4. CASE up' = ThenRestore(up, "abort", 0, FALSE) /\ UNCHANGED bak
  BY <1>1, <1>2, <1>4, BackupFails
<1> QED  BY <1>3, <1>4 DEF Backup, Steps

LEMMA StepSyncBackup ==
  ASSUME UpdaterInv, SyncBackup
  PROVE  UpdaterInv'
<1>1. up.pc = "backup_sync" /\ UNCHANGED <<live, old, new, main, tmp, lock, running, tries, good>>
  BY DEF SyncBackup
<1>2. DiskOK'
  <2>1. faults' \in 0..MaxFaults /\ bak' \in [Target -> File]
    BY <1>1, InBackup, Counted DEF SyncBackup, DiskOK
  <2> QED  BY <1>1, <2>1, InBackup DEF DiskOK
<1>3. CASE bak' = [bak EXCEPT ![up.k] = live[up.k]] /\ up' = NextBackup(up)
  <2>1. \A t \in Target : t <= up.k => bak'[t] = good'
    BY <1>1, <1>3, InBackup DEF Target, DiskOK, AllGood
  <2>2. AllGood' /\ Journal' = Journal /\ ~running' /\ Covered /\ LinkedTo(up.j)
    BY <1>1, InBackup DEF AllGood, Journal, Covered, LinkedTo, NotNewer
  <2>3. CASE up.k < N
    <3>1. up' = [up EXCEPT !.pc = "backup", !.k = @ + 1] /\ up.k + 1 \in Target
      BY <1>1, <1>3, <2>3, InBackup DEF NextBackup, Target
    <3>2. /\ up' \in Process /\ up'.pc = "backup" /\ up'.k = up.k + 1 /\ up'.mode = up.mode
          /\ up'.j = up.j
      BY <1>1, <3>1, InBackup DEF Process
    <3>3. Linked'
      BY <2>2, <3>2 DEF Linked, LinkedTo, NotNewer
    <3>4. Stated' /\ Sited' /\ Stopped' /\ Updating' /\ Swapped' /\ Restored'
      BY <1>1, <2>2, <3>2, InBackup DEF Stated, Sited, Stopped, Updating, Swapped, Restored, Down, At,
         Writing, Swapping
    <3>5. \A t \in Target : t < up.k + 1 => bak'[t] = good'
      BY <1>1, <2>1, InBackup DEF Target
    <3>6. Evidence'
      BY <1>1, <2>2, <3>2, <3>5, InBackup DEF Evidence, Exposed, Settled, Replaced, Early, At,
         Writing, Swapping
    <3> QED  BY <1>2, <2>2, <3>2, <3>3, <3>4, <3>6, Whole, Shown DEF UpdaterInv, Kept, RunInv
  <2>4. CASE ~(up.k < N)
    <3>1. up' = ThenWrite(up, "backed_up", "backed_up")
      BY <1>3, <2>4 DEF NextBackup
    <3>2. Backups'
      BY <1>1, <2>1, <2>4, InBackup DEF Backups, Target
    <3>3. "backed_up" \in Write /\ "backed_up" \in State /\ StateOf["backed_up"] = "backed_up"
      BY DEF Write, State, StateOf
    <3>4. Kept'
      BY <1>1, <1>2, <2>2, <3>1, <3>2, <3>3, InBackup, WriteBegins
    <3> QED  BY <1>2, <2>2, <3>4, Whole, Shown DEF UpdaterInv
  <2> QED  BY <2>3, <2>4
<1>4. CASE up' = ThenRestore(up, "abort", 0, FALSE) /\ UNCHANGED bak
  BY <1>1, <1>2, <1>4, BackupFails
<1> QED  BY <1>3, <1>4 DEF SyncBackup, Steps

LEMMA StepStartSet ==
  ASSUME UpdaterInv, StartSet
  PROVE  UpdaterInv'
<1> DEFINE pc == IF up.pc = "start_new" THEN "verify" ELSE "verify_old"
<1>1. /\ up \in Process /\ DiskOK /\ RunInv /\ up.pc \in {"start_new", "start_old"}
      /\ UNCHANGED <<live, old, new, bak, main, tmp, lock, tries, faults, good>>
      /\ running' = TRUE /\ up.mode = "update" /\ up.to \in 0..MaxVersion /\ up' = Goto(up, pc)
  BY Fields DEF StartSet, Steps, disk, history, UpdaterInv, Kept, RunInv, Updating
<1>2. DiskOK' /\ EvidenceKept' /\ Covered /\ Journal' = Journal
  BY <1>1, SameEvidence DEF DiskOK
<1>3. \/ AllGood'
      \/ \E v \in 0..MaxVersion : \A t \in Target : live'[t] = v
  BY <1>1 DEF RunInv, Evidence, Settled, Replaced, AllGood
<1>4. WholeSetRuns'
  BY <1>2, <1>3, Whole
<1>5. pc \in Pcs /\ pc \in {"verify", "verify_old"}
  BY DEF Pcs
<1>6. pc = "verify" <=> up.pc = "start_new"
  OBVIOUS
<1> HIDE DEF pc
<1>7. /\ up' \in Process /\ up'.pc = pc /\ up'.mode = up.mode /\ up'.j = up.j /\ up'.to = up.to
  BY <1>1, <1>5, GotoIs DEF Carries
<1>8. Linked'
  BY <1>1, <1>5, <1>7 DEF RunInv, Linked, NotNewer, Resting
<1>9. Stated' /\ Sited' /\ Stopped' /\ Updating' /\ Swapped' /\ Restored'
  BY <1>1, <1>5, <1>7 DEF Stated, Sited, Stopped, Updating, Swapped, Restored, Down, At, Writing,
     Swapping
<1>10. Pending' /\ Backups'
  BY <1>1, <1>2 DEF RunInv, Evidence, Exposed, Pending, Backups
<1>11. /\ pc = "verify_old" => AllGood'
       /\ pc = "verify" => \A t \in Target : live'[t] = up.to
  BY <1>1, <1>5, <1>6 DEF RunInv, Evidence, Settled, Replaced, AllGood
<1>12. Evidence'
  BY <1>5, <1>7, <1>10, <1>11 DEF Evidence, Exposed, Settled, Replaced, Early, At, Writing, Swapping
<1> QED  BY <1>2, <1>4, <1>7, <1>8, <1>9, <1>12 DEF UpdaterInv, Kept, RunInv

(* A step that only decides to write the journal.                           *)
LEMMA Decides ==
  ASSUME UpdaterInv, up.pc \in {"verify", "verify_old", "check"},
         UNCHANGED <<disk, running, history>>
  PROVE  /\ up \in Process /\ DiskOK' /\ WholeSetRuns' /\ EvidenceKept' /\ Covered
         /\ LinkedTo(up.j) /\ Pending' /\ Backups' /\ RunInv
<1>1. /\ UNCHANGED <<live, old, new, bak, main, tmp, lock, running, tries, faults, good>>
      /\ up \in Process /\ RunInv /\ DiskOK
  BY DEF disk, history, UpdaterInv, Kept
<1>2. DiskOK' /\ WholeSetRuns' /\ EvidenceKept' /\ Covered /\ Journal' = Journal
  BY <1>1, SameEvidence DEF DiskOK, UpdaterInv, WholeSetRuns
<1>3. LinkedTo(up.j)
  BY <1>1 DEF RunInv, Linked, LinkedTo, NotNewer, Resting
<1>4. Pending' /\ Backups'
  BY <1>1, <1>2 DEF RunInv, Evidence, Exposed, Pending, Backups
<1> QED  BY <1>1, <1>2, <1>3, <1>4

LEMMA StepVerify ==
  ASSUME UpdaterInv, Verify
  PROVE  UpdaterInv'
<1>1. /\ up.pc = "verify" /\ UNCHANGED <<disk, running, history>>
      /\ \/ up' = ThenWrite(up, "committed", "committed")
         \/ up' = ThenWrite(up, "rolling_back", "rolling_back")
  BY DEF Verify, Steps
<1>2. up.mode = "update" /\ \A t \in Target : live'[t] = up.to
  BY <1>1, Decides DEF RunInv, Updating, Evidence, Replaced, disk, UpdaterInv, Kept, Process
<1>3. /\ "committed" \in Write /\ "committed" \in State /\ StateOf["committed"] = "committed"
      /\ "rolling_back" \in Write /\ "rolling_back" \in State
      /\ StateOf["rolling_back"] = "rolling_back"
  BY DEF Write, State, StateOf
<1>4. Kept'
  BY <1>1, <1>2, <1>3, Decides, WriteBegins
<1> QED  BY <1>1, <1>4, Decides DEF UpdaterInv

LEMMA StepVerifyOld ==
  ASSUME UpdaterInv, VerifyOld
  PROVE  UpdaterInv'
<1>1. /\ up.pc = "verify_old" /\ UNCHANGED <<disk, running, history>>
      /\ \/ up' = ThenWrite(up, "undone", "rolled_back")
         \/ up' = ThenWrite(up, "manual", "manual_recovery")
  BY DEF VerifyOld, Steps
<1>2. up.mode = "update" /\ AllGood'
  BY <1>1, Decides DEF RunInv, Updating, Evidence, Settled, AllGood, disk, history
<1>3. /\ "undone" \in Write /\ "rolled_back" \in State /\ StateOf["undone"] = "rolled_back"
      /\ "manual" \in Write /\ "manual_recovery" \in State
      /\ StateOf["manual"] = "manual_recovery"
  BY DEF Write, State, StateOf
<1>4. Kept'
  BY <1>1, <1>2, <1>3, Decides, WriteBegins
<1> QED  BY <1>1, <1>4, Decides DEF UpdaterInv

(* ------------------------------ recovery -------------------------------- *)
LEMMA StepCheckBackups ==
  ASSUME UpdaterInv, CheckBackups
  PROVE  UpdaterInv'
<1>1. up.pc = "check" /\ UNCHANGED <<disk, running, history>> /\ 1 \in Target
  BY Fields DEF CheckBackups
<1>2. ~running' /\ UNCHANGED bak
  BY <1>1, Decides DEF RunInv, Stopped, Down, disk
<1>3. CASE up' = ThenWrite(up, "manual", "manual_recovery")
  <2>1. /\ "manual" \in Write /\ "manual_recovery" \in State
        /\ StateOf["manual"] = "manual_recovery"
    BY DEF Write, State, StateOf
  <2>2. Kept'
    BY <1>1, <1>3, <2>1, Decides, WriteBegins
  <2> QED  BY <1>1, <2>2, Decides DEF UpdaterInv
<1>4. CASE up' = [up EXCEPT !.pc = "fix", !.k = 1]
  <2>1. up \in Process
    BY <1>1, Decides
  <2>2. /\ up' \in Process /\ up'.pc = "fix" /\ up'.k = 1 /\ up'.mode = up.mode
        /\ up'.site = up.site /\ up'.j = up.j
    BY <1>1, <1>4, <2>1 DEF Process
  <2>3. Linked'
    BY <1>1, <2>2, Decides DEF LinkedTo, Linked, NotNewer
  <2>4. \A t \in Target : ~(t < 1)
    BY DEF Target
  <2>5. Stated' /\ Sited' /\ Stopped' /\ Updating' /\ Swapped' /\ Restored'
    BY <1>1, <1>2, <2>2, <2>4, Decides DEF RunInv, Stated, Sited, Stopped, Updating, Swapped,
       Restored, Down, At, Writing, Swapping
  <2>6. Evidence'
    BY <1>1, <2>2, Decides DEF Evidence, Exposed, Settled, Replaced, Early, At, Writing, Swapping
  <2> QED  BY <1>1, <2>2, <2>3, <2>5, <2>6, Decides DEF UpdaterInv, Kept, RunInv
<1> QED  BY <1>3, <1>4 DEF CheckBackups, Steps

(* What recovery knows of the binary it is to restore.                      *)
LEMMA InFix ==
  ASSUME UpdaterInv, up.pc \in {"fix", "fix_sync"}, UNCHANGED <<bak, main, tmp, running, good>>,
         \A t \in Target : t # up.k => live'[t] = live[t]
  PROVE  /\ up \in Process /\ up.k \in Target /\ N \in Nat /\ DiskOK
         /\ Pending' /\ Backups' /\ ~running' /\ Journal' = Journal
         /\ \A t \in Target : t < up.k => live'[t] = good'
         /\ main'.state # "none" => main'.id = up.j.id /\ main'.rev <= up.j.rev
         /\ tmp'.state \in State => tmp'.id = up.j.id /\ tmp'.rev <= up.j.rev
         /\ LinkedTo(up.j)
         /\ up.mode # "update" =>
              up.site \in {"none", "terminal", "manual", "recovered", "recover"}
         /\ Absent \in File /\ Torn \in File
<1>1. up \in Process /\ up.k \in Target /\ N \in Nat /\ DiskOK /\ RunInv
  BY Fields DEF UpdaterInv, Kept
<1>2. Journal' = Journal
  BY DEF Journal
<1>3. Pending' /\ Backups' /\ ~running'
  BY <1>1, <1>2 DEF RunInv, Evidence, Exposed, Stopped, Down, Pending, Backups
<1>4. \A t \in Target : t < up.k => live'[t] = good'
  BY <1>1 DEF RunInv, Restored, Target
<1>5. /\ main'.state # "none" => main'.id = up.j.id /\ main'.rev <= up.j.rev
      /\ tmp'.state \in State => tmp'.id = up.j.id /\ tmp'.rev <= up.j.rev
  BY <1>1 DEF RunInv, Linked, NotNewer, Resting
<1>6. up.mode # "update" => up.site \in {"none", "terminal", "manual", "recovered", "recover"}
  BY <1>1 DEF RunInv, Updating
<1> QED  BY <1>1, <1>2, <1>3, <1>4, <1>5, <1>6 DEF LinkedTo, File

LEMMA StepFixTarget ==
  ASSUME UpdaterInv, FixTarget
  PROVE  UpdaterInv'
<1>1. /\ up.pc = "fix" /\ UNCHANGED <<bak, main, tmp, lock, running, tries, good>>
      /\ \A t \in Target : t # up.k => live'[t] = live[t]
  BY DEF FixTarget, UpdaterInv, DiskOK
<1>2. DiskOK'
  <2>1. faults' \in 0..MaxFaults
    BY <1>1, InFix, Counted DEF FixTarget
  <2>2. live' \in [Target -> File] /\ old' \in [Target -> File] /\ new' \in [Target -> File]
    BY <1>1, InFix DEF FixTarget, DiskOK
  <2> QED  BY <1>1, <2>1, <2>2, InFix DEF DiskOK
<1>3. WholeSetRuns' /\ EvidenceKept'
  BY <1>1, <1>2, InFix, Whole, Shown
<1>4. CASE up' = ThenSwap(up, "recover", up.k)
  <2>1. "recover" \in Swap
    BY DEF Swap
  <2>2. Kept'
    BY <1>1, <1>4, <2>1, InFix, SwapBegins
  <2> QED  BY <1>2, <1>3, <2>2 DEF UpdaterInv
<1>5. CASE up' = Goto(up, "fix_sync")
  <2>0. "fix_sync" \in Pcs
    BY DEF Pcs
  <2>1. /\ up' \in Process /\ up'.pc = "fix_sync" /\ up'.k = up.k /\ up'.mode = up.mode
        /\ up'.site = up.site /\ up'.j = up.j
    BY <1>1, <1>5, <2>0, InFix, GotoIs DEF Carries
  <2>2. Linked'
    BY <1>1, <2>1, InFix DEF Linked, NotNewer
  <2>3. Stated' /\ Sited' /\ Stopped' /\ Updating' /\ Swapped' /\ Restored'
    BY <1>1, <2>1, InFix DEF Stated, Sited, Stopped, Updating, Swapped, Restored, Down, At, Writing,
       Swapping
  <2>4. Evidence'
    BY <1>1, <2>1, InFix DEF Evidence, Exposed, Settled, Replaced, Early, At, Writing, Swapping
  <2> QED  BY <1>2, <1>3, <2>1, <2>2, <2>3, <2>4 DEF UpdaterInv, Kept, RunInv
<1> QED  BY <1>4, <1>5 DEF FixTarget, Steps

LEMMA StepFixSync ==
  ASSUME UpdaterInv, FixSync
  PROVE  UpdaterInv'
<1>1. /\ up.pc = "fix_sync" /\ UNCHANGED <<bak, main, tmp, lock, running, tries, good>>
      /\ \A t \in Target : t # up.k => live'[t] = live[t]
  BY DEF FixSync, UpdaterInv, DiskOK
<1>2. DiskOK'
  <2>1. faults' \in 0..MaxFaults
    BY <1>1, InFix, Counted DEF FixSync
  <2>2. live' \in [Target -> File] /\ old' \in [Target -> File] /\ new' \in [Target -> File]
    BY <1>1, InFix DEF FixSync, DiskOK
  <2> QED  BY <1>1, <2>1, <2>2, InFix DEF DiskOK
<1>3. WholeSetRuns' /\ EvidenceKept'
  BY <1>1, <1>2, InFix, Whole, Shown
<1>4. CASE live' = [live EXCEPT ![up.k] = bak[up.k]] /\ up' = ThenFixed(up)
  <2>1. live'[up.k] = good'
    BY <1>1, <1>4, InFix DEF Backups, DiskOK
  <2>2. \A t \in Target : t <= up.k => live'[t] = good'
    BY <1>1, <2>1, InFix DEF Target
  <2>3. Kept'
    BY <1>1, <1>2, <1>4, <2>2, InFix, FixEnds
  <2> QED  BY <1>2, <1>3, <2>3 DEF UpdaterInv
<1>5. CASE up' = ThenWrite(up, "manual", "manual_recovery")
  <2>1. /\ "manual" \in Write /\ "manual_recovery" \in State
        /\ StateOf["manual"] = "manual_recovery"
    BY DEF Write, State, StateOf
  <2>2. Covered
    BY <1>1, InFix DEF Covered
  <2>3. Kept'
    BY <1>1, <1>2, <1>5, <2>1, <2>2, InFix, WriteBegins
  <2> QED  BY <1>2, <1>3, <2>3 DEF UpdaterInv
<1> QED  BY <1>4, <1>5 DEF FixSync, Steps

-----------------------------------------------------------------------------
LEMMA InitHolds == Init => UpdaterInv
<1> SUFFICES ASSUME Init PROVE UpdaterInv
  OBVIOUS
<1>1. DiskOK /\ AllGood /\ Journal.state = "none"
  <2>1. 0 \in File /\ Absent \in File /\ 0 \in 0..MaxTries /\ 0 \in 0..MaxFaults
        /\ 0 \in 0..MaxVersion
    BY UpdaterAssumption DEF File
  <2>2. /\ live \in [Target -> File] /\ old \in [Target -> File]
        /\ new \in [Target -> File] /\ bak \in [Target -> File]
    BY <2>1 DEF Init
  <2>3. AllGood
    BY DEF Init, AllGood
  <2>4. Journal.state = "none"
    BY Records DEF Init, Journal
  <2> QED  BY <2>1, <2>2, <2>3, <2>4, Records DEF Init, DiskOK
<1>2. WholeSetRuns /\ EvidenceKept
  BY <1>1, UpdaterAssumption DEF Init, WholeSetRuns, EvidenceKept, AllGood, Target
<1>3. up \in Process /\ up.pc = "off" /\ up.site = "none" /\ up.mode = "update"
  BY Records, UpdaterAssumption DEF Init, Idle, Process, Target
<1>4. Linked /\ Stated /\ Sited /\ Stopped /\ Updating /\ Swapped /\ Restored
  BY <1>3 DEF Linked, Resting, Stated, Sited, Stopped, Updating, Swapped, Restored, Down, At,
     Writing, Swapping
<1>5. Evidence
  BY <1>1, <1>3 DEF Evidence, Exposed, Settled, Replaced, Early, At, Writing, Swapping, Active
<1> QED  BY <1>1, <1>2, <1>3, <1>4, <1>5 DEF UpdaterInv, Kept, RunInv

LEMMA StepHolds == UpdaterInv /\ [Next]_vars => UpdaterInv'
<1> SUFFICES ASSUME UpdaterInv, [Next]_vars
             PROVE  UpdaterInv'
  OBVIOUS
<1>1. CASE Run
  BY <1>1, StepReadJournal, StepCheckTargets, StepBegin, StepExit, StepOpenTmp, StepSyncTmp,
     StepRemoveMain, StepRenameTmp, StepArchiveJournal, StepCopyNew, StepSyncNew, StepToOld,
     StepSyncOld, StepToLive, StepPutBack, StepClean, StepStopSet, StepBackup, StepSyncBackup,
     StepStartSet, StepVerify, StepVerifyOld, StepCheckBackups, StepFixTarget, StepFixSync DEF Run
<1>2. CASE \E mode \in {"update", "recover", "boot"} : Launch(mode)
  BY <1>2, StepLaunch
<1>3. CASE \E power \in BOOLEAN : Crash(power)
  BY <1>3, StepCrash
<1>4. CASE DeleteLock
  BY <1>4, StepDeleteLock
<1>5. CASE UNCHANGED vars
  BY <1>5, Stutter
<1> QED  BY <1>1, <1>2, <1>3, <1>4, <1>5 DEF Next

LEMMA UpdaterInvariant == Spec => []UpdaterInv
  BY InitHolds, StepHolds, PTL DEF Spec

(* The updater's disk, its process and its counters keep their shapes,      *)
(* torn files and absent ones included, through every crash and fault.      *)
THEOREM TypesKept == Spec => []TypeOK
<1>1. UpdaterInv => TypeOK
  BY Types DEF UpdaterInv, Kept
<1> QED  BY <1>1, UpdaterInvariant, PTL

(* The set is never started, or left running, on binaries of two releases,  *)
(* or with one missing or half written, wherever the updater was killed.    *)
THEOREM SetRunsWhole == Spec => []WholeSetRuns
<1>1. UpdaterInv => WholeSetRuns
  BY DEF UpdaterInv
<1> QED  BY <1>1, UpdaterInvariant, PTL

(* While a binary is not the version last committed, the journal says so or *)
(* cannot be read, and every backup is that version: the update can still   *)
(* be undone, after any number of crashes and failed file operations.       *)
THEOREM EvidenceStays == Spec => []EvidenceKept
<1>1. UpdaterInv => EvidenceKept
  BY DEF UpdaterInv
<1> QED  BY <1>1, UpdaterInvariant, PTL

=============================================================================
